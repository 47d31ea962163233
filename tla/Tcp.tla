-------------------------------- MODULE Tcp --------------------------------
(* TCP of the kernel (src/kernel/net.cpp 757-1426 and 2117-2402): the        *)
(* control blocks of two hosts that both run this code, and the segments     *)
(* between them, which may be delayed, reordered and lost; duplicates come   *)
(* from retransmissions that race the first copy.                            *)
(*                                                                           *)
(* A handler, a poll and the part of a system call between two waits are     *)
(* each one step.  Ticks are left out: a timer that is running may expire at *)
(* any poll.  The options that only tune time or size (time stamps, window   *)
(* scaling, a smaller peer MSS) and the round-trip estimate are left out.    *)
(* A byte is a number: the application's bytes are 1, 2, 3, ... and the      *)
(* byte of a window probe (0xAA) is ProbeByte.                               *)
EXTENDS Integers, Sequences, FiniteSets, FiniteSetsExt, SequencesExt

CONSTANTS
  SOCKS,        \* TCP_SOCKS: control blocks of a host
  MSS,          \* TCP_MSS
  RING,         \* TCP_RX_RING
  OOO,          \* TCP_OOO_MAX
  TXQ,          \* TCP_TXQ
  BACKLOG,      \* TCP_BACKLOG
  MAX_RETRANS,  \* TCP_MAX_RETRANS
  KA_CNT,       \* TCP_KA_CNT
  SYN_TRIES,    \* SYNs of one connect (5 in the code)
  SeqSpace,       \* size of the sequence space (2^32 in the code)
  Iss,          \* initial sequence number of each host
  MaxFaults     \* bound: losses, resets and early timers

ASSUME TcpAssumption ==
  /\ {SOCKS, MSS, RING, OOO, TXQ, BACKLOG, KA_CNT, SYN_TRIES, SeqSpace} \subseteq Nat \ {0}
  /\ {MAX_RETRANS, MaxFaults} \subseteq Nat
  /\ \A h \in {"cli", "srv"} : Iss[h] \in 0..SeqSpace-1

VARIABLES
  conns,   \* conns[h][i]: control block i of host h
  net,     \* segments in flight
  faults   \* faults so far

tcpVars == <<conns, net, faults>>

Hosts == {"cli", "srv"}
Peer(h) == IF h = "cli" THEN "srv" ELSE "cli"
Socks == 0..SOCKS-1
ProbeByte == 170
Port == 80
DupCap == 4       \* the code only tells 1, 2, 3 and more duplicates apart
CwndCap == 4 * MSS  \* bound: congestion windows grow no further than they begin

Add(a, b) == (a + b) % SeqSpace
Sub(a, b) == (a - b) % SeqSpace

NoSlot == [pend |-> FALSE, sacked |-> FALSE, seq |-> 0, data |-> << >>]
NoSlice == [used |-> FALSE, seq |-> 0, data |-> << >>]

(* A control block that no connection has used yet. *)
Tcb0 ==
  [used |-> FALSE, st |-> "CLOSED", lfd |-> -1, ip |-> "none", sport |-> 0, dport |-> 0,
   iss |-> 0, una |-> 0, nxt |-> 0, rcv |-> 0, wnd |-> 0, cwnd |-> 0, ssthresh |-> 0,
   dupacks |-> 0, fr |-> FALSE, recover |-> 0, lt |-> 0, head |-> 0, tail |-> 0,
   txb |-> [j \in 0..TXQ-1 |-> NoSlot], nagle |-> << >>, ka |-> 0,
   fin_tx |-> FALSE, fin_rx |-> FALSE, fin_seq |-> 0, fin_pend |-> FALSE, retries |-> 0,
   ok |-> FALSE, done |-> FALSE, err |-> FALSE, win_update |-> FALSE,
   ack_want |-> FALSE, ack_inv |-> 0, last_ack |-> 0,
   rx |-> << >>, ooo |-> [j \in 1..OOO |-> NoSlice]]

(* A block that is free and whose descriptor is closed: what the next        *)
(* connection in it inherits, or a stale descriptor can see, is kept.        *)
Forget(t) ==
  IF t.used THEN t
  ELSE [Tcb0 EXCEPT !.txb = t.txb, !.ooo = t.ooo, !.done = t.done, !.err = t.err, !.rx = t.rx]

----------------------------------------------------------------------------
(* Every function of the code maps x = [t, out] to such a record: the        *)
(* control block and the segments sent so far in this step.                  *)
Work(t) == [t |-> t, out |-> {}]

(* The out-of-order slices that a SACK option reports. *)
SackBlocks(t) ==
  {<<t.ooo[j].seq, Add(t.ooo[j].seq, Len(t.ooo[j].data))>> :
     j \in {k \in 1..OOO : t.ooo[k].used /\ Add(t.ooo[k].seq, Len(t.ooo[k].data)) > t.rcv}}

tcp_emit(x, seq, flags, data, sack) ==
  LET free == RING - Len(x.t.rx)
  IN [x EXCEPT !.out = @ \cup
       {[to |-> x.t.ip, sp |-> x.t.sport, dp |-> x.t.dport, seq |-> seq, ack |-> x.t.rcv,
         fl |-> flags, data |-> data, wnd |-> Min({free, RING \div 2}),
         sack |-> IF sack THEN SackBlocks(x.t) ELSE {}]}]

tcp_ack_now(x) ==
  LET y == [x EXCEPT !.t.last_ack = x.t.rcv, !.t.ack_want = FALSE, !.t.ack_inv = 0]
  IN tcp_emit(y, y.t.nxt, {"ACK"}, << >>, TRUE)

ack_delayed(x) ==
  LET y == [x EXCEPT !.t.ack_want = TRUE, !.t.ack_inv = @ + 1]
  IN IF y.t.ack_inv >= 2 \/ y.t.win_update THEN tcp_ack_now(y) ELSE y

rto_backoff(x) ==
  [x EXCEPT !.t.ssthresh = Max({x.t.cwnd \div 2, 2 * MSS}), !.t.cwnd = MSS]

(* The pending slots, by their age, and the one to send again: the oldest    *)
(* that no SACK covered, else the oldest; -1 if nothing is pending.          *)
Pending(t) == {i \in 0..TXQ-1 : t.txb[(t.tail + i) % TXQ].pend}
ts_pick(t) ==
  LET lost == {i \in Pending(t) : ~t.txb[(t.tail + i) % TXQ].sacked}
      oldest(s) == (t.tail + Min(s)) % TXQ
  IN IF Pending(t) = {} THEN -1 ELSE IF lost # {} THEN oldest(lost) ELSE oldest(Pending(t))

tcp_abort(x) ==
  [x EXCEPT !.t.err = TRUE, !.t.done = TRUE, !.t.ok = FALSE, !.t.used = FALSE, !.t.st = "CLOSED"]

Resend(x, j) == tcp_emit(x, x.t.txb[j].seq, {"ACK", "PSH"}, x.t.txb[j].data, FALSE)
SendFin(x) == tcp_emit(x, x.t.fin_seq, {"FIN", "ACK"}, << >>, FALSE)

ack_slots(x, ack) ==
  LET t == x.t
      slot(i) == t.txb[(t.tail + i) % TXQ]
      acked == {k \in 0..TXQ : \A i \in 0..k-1 :
                  slot(i).pend /\ Add(slot(i).seq, Len(slot(i).data)) <= ack}
      n == Max(acked)
  IN [x EXCEPT !.t.tail = (@ + n) % TXQ,
               !.t.txb = [j \in 0..TXQ-1 |-> IF \E i \in 0..n-1 : j = (t.tail + i) % TXQ
                                             THEN NoSlot ELSE t.txb[j]]]

cwnd_ack(x) ==
  LET c == x.t.cwnd
  IN [x EXCEPT !.t.cwnd = Min({CwndCap, c + (IF c < x.t.ssthresh THEN MSS ELSE (MSS * MSS) \div Max({c, 1}))})]

sack_apply(x, blocks) ==
  [x EXCEPT !.t.txb = [j \in 0..TXQ-1 |->
     LET s == x.t.txb[j]
     IN IF s.pend /\ \E b \in blocks : b[1] < b[2] /\ b[1] < Add(s.seq, Len(s.data)) /\ b[2] > s.seq
        THEN [s EXCEPT !.sacked = TRUE] ELSE s]]

fast_recovery(x) ==
  LET j == ts_pick(x.t)
      th == Max({Sub(x.t.nxt, x.t.una) \div 2, 2 * MSS})
  IN IF j < 0 THEN x
     ELSE [Resend(x, j) EXCEPT !.t.ssthresh = th, !.t.cwnd = Min({CwndCap, th + 3 * MSS}),
             !.t.recover = x.t.nxt, !.t.fr = TRUE, !.t.retries = 0]

(* Put data in the slot at tx_head, advance and send it. *)
Transmit(x, data) ==
  LET t == x.t
  IN tcp_emit([x EXCEPT !.t.txb[t.head] = [pend |-> TRUE, sacked |-> FALSE, seq |-> t.nxt, data |-> data],
                        !.t.nxt = Add(@, Len(data)), !.t.head = (@ + 1) % TXQ],
              t.nxt, {"ACK", "PSH"}, data, FALSE)
RingFull(t) == t.head = t.tail /\ t.txb[t.head].pend

nagle_flush(x) ==
  LET t == x.t
  IN IF \/ t.nagle = << >> \/ t.wnd = 0
        \/ (Len(t.nagle) < MSS /\ t.una # t.nxt)
        \/ RingFull(t)
     THEN x
     ELSE [Transmit(x, t.nagle) EXCEPT !.t.nagle = << >>]

(* Bytes that fit are stored; the result counts them. *)
Fits(t, data) == Min({Len(data), RING - Len(t.rx)})
rxr_push(x, data) == [x EXCEPT !.t.rx = @ \o SubSeq(data, 1, Fits(x.t, data))]

ooo_store(x, seq, data) ==
  LET free == {j \in 1..OOO : ~x.t.ooo[j].used}
  IN IF \/ \E j \in 1..OOO : x.t.ooo[j].used /\ x.t.ooo[j].seq = seq /\ Len(x.t.ooo[j].data) = Len(data)
        \/ free = {}
     THEN x
     ELSE [x EXCEPT !.t.ooo[Min(free)] = [used |-> TRUE, seq |-> seq, data |-> data]]

(* One turn of the loop of ooo_drain; a turn frees a slice or is the last. *)
DrainOne(x) ==
  LET next == {j \in 1..OOO : x.t.ooo[j].used /\ x.t.ooo[j].seq = x.t.rcv}
      j == Min(next)
      data == x.t.ooo[j].data
      n == Fits(x.t, data)
      y == [rxr_push(x, data) EXCEPT !.t.rcv = Add(@, n)]
  IN IF next = {} THEN x
     ELSE IF n < Len(data)
     THEN [y EXCEPT !.t.win_update = TRUE,
                    !.t.ooo[j] = [used |-> TRUE, seq |-> y.t.rcv, data |-> SubSeq(data, n + 1, Len(data))]]
     ELSE [y EXCEPT !.t.ooo[j] = NoSlice]
ooo_drain(x) ==
  LET turn[k \in 0..OOO] == IF k = 0 THEN x ELSE DrainOne(turn[k - 1])
  IN ack_delayed(turn[OOO])

----------------------------------------------------------------------------
(* tcp_poll with one expired timer; with no timer due it changes nothing.    *)
Timers == {"ack", "timewait", "probe", "fin", "close", "rto", "keepalive"}
PollAck(x) == IF x.t.ack_want /\ x.t.rcv # x.t.last_ack THEN tcp_ack_now(x) ELSE x
PollProbe(x) ==
  IF x.t.wnd = 0 /\ x.t.una # x.t.nxt /\ ~x.t.fin_pend
  THEN tcp_emit(x, x.t.nxt, {"ACK", "PSH"}, <<ProbeByte>>, FALSE) ELSE x
PollFin(x) ==
  IF ~x.t.fin_pend THEN x
  ELSE IF x.t.retries + 1 > MAX_RETRANS THEN tcp_abort([x EXCEPT !.t.retries = @ + 1])
  ELSE SendFin([x EXCEPT !.t.retries = @ + 1])
(* A plausible bug: the limit of retransmissions is not checked.                      *)
PollRtoForEver(x) ==
  LET j == ts_pick(x.t)
      y == [x EXCEPT !.t.retries = @ + 1]
  IN IF j < 0 \/ x.t.una # x.t.txb[j].seq THEN x
     ELSE [rto_backoff(Resend(y, j)) EXCEPT !.t.fr = FALSE, !.t.dupacks = 0, !.t.lt = 0]
PollRto(x) ==
  LET j == ts_pick(x.t)
      y == [x EXCEPT !.t.retries = @ + 1]
  IN IF j < 0 \/ x.t.una # x.t.txb[j].seq THEN x
     ELSE IF y.t.retries > MAX_RETRANS THEN tcp_abort(y)
     ELSE [rto_backoff(Resend(y, j)) EXCEPT !.t.fr = FALSE, !.t.dupacks = 0, !.t.lt = 0]
PollKeepalive(x) ==
  LET y == [x EXCEPT !.t.ka = @ + 1]
  IN IF x.t.ka > 0 /\ x.t.una # x.t.nxt THEN [x EXCEPT !.t.ka = 0]
     ELSE IF x.t.una # x.t.nxt THEN x
     ELSE IF y.t.ka > KA_CNT /\ x.t.ka > 0 THEN tcp_abort(y)
     ELSE tcp_emit(y, Sub(x.t.una, 1), {"ACK"}, << >>, FALSE)

tcp_poll(x, due) ==
  LET t == x.t
  IN CASE ~t.used \/ t.st \in {"CLOSED", "SYNSENT"} -> x
       [] OTHER -> CASE due = "ack" -> PollAck(x)
       [] due = "timewait" /\ t.st = "TIMEW" ->
            [x EXCEPT !.t = Forget([@ EXCEPT !.used = FALSE, !.st = "CLOSED", !.ok = TRUE, !.done = TRUE])]
       [] due = "probe" /\ t.st # "TIMEW" -> PollProbe(x)
       [] due = "fin" /\ t.st # "TIMEW" -> PollFin(x)
       [] due = "close" /\ t.st \in {"FINW1", "FINW2"} ->
            [x EXCEPT !.t = Forget([@ EXCEPT !.used = FALSE, !.st = "CLOSED"])]
       [] due = "rto" /\ t.st \notin {"TIMEW", "FINW1", "FINW2"} -> PollRto(x)
       [] due = "keepalive" /\ t.st = "ESTAB" -> PollKeepalive(x)
       [] OTHER -> x

(* Timers keep their order of magnitude: those of up to 600 ms expire when   *)
(* nothing is in flight any more, the others (and the time-outs of the       *)
(* applications) when none of the short ones is running either.  A short     *)
(* timer that races a slow segment is one of the bounded faults, and so is a *)
(* connection idle for the six seconds that start the keepalive probes.      *)
ShortTimers == {"ack", "probe", "rto", "fin"}
Quiet == net = {}
Settled ==
  /\ Quiet
  /\ \A h \in Hosts, i \in Socks, due \in ShortTimers :
       conns[h][i].used => tcp_poll(Work(conns[h][i]), due) = Work(conns[h][i])
OnTime(h, i, due) == IF due \in ShortTimers THEN Quiet ELSE due # "keepalive" \/ conns[h][i].ka > 0

----------------------------------------------------------------------------
(* handle_tcp, state by state.                                               *)
HandleRst(x) ==
  IF x.t.st \in {"LISTEN", "SYNRECV"} THEN x ELSE tcp_abort(x)

HandleSynSent(x, m) ==
  IF {"SYN", "ACK"} \subseteq m.fl /\ m.ack = x.t.nxt
  THEN [x EXCEPT !.t.rcv = Add(m.seq, 1), !.t.una = m.ack, !.t.wnd = m.wnd,
                 !.t.st = "ESTAB", !.t.done = TRUE, !.t.ok = TRUE]
  ELSE x

HandleSynRecv(x, m) ==
  IF "ACK" \in m.fl /\ m.seq = x.t.rcv
  THEN [x EXCEPT !.t.una = m.ack, !.t.wnd = m.wnd, !.t.st = "ESTAB", !.t.done = TRUE, !.t.ok = TRUE]
  ELSE x

(* A plausible bug: the acknowledged slots are not released.                          *)
NewAckKeepsSlots(x, ack) ==
  cwnd_ack([x EXCEPT !.t.ka = 0, !.t.una = ack, !.t.dupacks = 0, !.t.retries = 0, !.t.lt = 0])
(* The cumulative acknowledgement: window, SACK, slots, congestion, states.  *)
NewAck(x, ack) ==
  LET y == [ack_slots(x, ack) EXCEPT !.t.ka = 0, !.t.una = ack, !.t.dupacks = 0, !.t.retries = 0, !.t.lt = 0]
      z == IF y.t.fr THEN [y EXCEPT !.t.cwnd = y.t.ssthresh, !.t.fr = ack < y.t.recover] ELSE cwnd_ack(y)
      finAcked == z.t.fin_tx /\ ack >= Add(z.t.fin_seq, 1)
  IN nagle_flush(
       CASE finAcked /\ z.t.st = "FINW1" -> [z EXCEPT !.t.st = "FINW2", !.t.fin_pend = FALSE]
         [] finAcked /\ z.t.st = "LASTACK" -> [z EXCEPT !.t.st = "CLOSED", !.t.used = FALSE, !.t.fin_pend = FALSE]
         [] OTHER -> z)
DupAck(x) ==
  LET d == Min({x.t.dupacks + 1, DupCap})
      y == [x EXCEPT !.t.dupacks = d]
  IN CASE x.t.ka > 0 -> [x EXCEPT !.t.ka = 0]
       [] x.t.ka = 0 /\ d = 3 -> fast_recovery(y)
       [] x.t.ka = 0 /\ d > 3 /\ x.t.fr -> [y EXCEPT !.t.cwnd = Min({CwndCap, @ + MSS})]
       [] OTHER -> [y EXCEPT !.t.lt = 2]
HandleAck(x, m) ==
  LET y == sack_apply([x EXCEPT !.t.wnd = m.wnd], m.sack)
  IN CASE "ACK" \notin m.fl -> x
       [] "ACK" \in m.fl /\ m.ack > x.t.una /\ m.ack <= x.t.nxt -> NewAck(y, m.ack)
       [] "ACK" \in m.fl /\ m.ack = x.t.una -> DupAck(y)
       [] OTHER -> y

(* Bytes from position rcv_nxt on: store, advance, drain what follows. *)
Accept(x, data) ==
  LET n == Fits(x.t, data)
      y == [rxr_push(x, data) EXCEPT !.t.rcv = Add(@, n), !.t.win_update = @ \/ n < Len(data)]
  IN IF n > 0 THEN ooo_drain(y) ELSE y
(* A plausible bug: bytes that are all old are not recognised as a copy.              *)
HandleDataNoCopies(x, m) ==
  CASE m.data = << >> -> IF "FIN" \in m.fl /\ m.seq <= x.t.rcv THEN tcp_ack_now(x) ELSE x
    [] m.data # << >> /\ m.seq > x.t.rcv -> ack_delayed(ooo_store(x, m.seq, m.data))
    [] OTHER -> Accept(x, m.data)
HandleData(x, m) ==
  LET end == Add(m.seq, Len(m.data))
  IN CASE m.data = << >> -> IF "FIN" \in m.fl /\ m.seq <= x.t.rcv THEN tcp_ack_now(x) ELSE x
       [] m.data # << >> /\ end <= x.t.rcv -> ack_delayed(x)
       [] m.data # << >> /\ end > x.t.rcv /\ m.seq > x.t.rcv -> ack_delayed(ooo_store(x, m.seq, m.data))
       [] OTHER -> Accept(x, SubSeq(m.data, Sub(x.t.rcv, m.seq) + 1, Len(m.data)))
(* A plausible bug: a FIN is accepted ahead of the bytes before it.                   *)
HandleFinEarly(x, m) ==
  IF "FIN" \notin m.fl THEN IF m.data # << >> THEN ack_delayed(x) ELSE x
  ELSE LET y == tcp_ack_now([x EXCEPT !.t.rcv = Add(@, 1), !.t.fin_rx = TRUE, !.t.done = TRUE])
       IN [y EXCEPT !.t.st = CASE @ = "ESTAB" -> "CLOSEW" [] @ = "FINW2" -> "TIMEW"
                               [] @ = "FINW1" -> "FINW2" [] OTHER -> @]
(* A plausible bug: a FIN is counted but not recorded.                                *)
HandleFinNotNoted(x, m) ==
  IF "FIN" \notin m.fl THEN IF m.data # << >> THEN ack_delayed(x) ELSE x
  ELSE IF Add(m.seq, Len(m.data)) > x.t.rcv THEN x
  ELSE tcp_ack_now([x EXCEPT !.t.rcv = Add(@, 1), !.t.done = TRUE])
HandleFin(x, m) ==
  IF "FIN" \notin m.fl THEN IF m.data # << >> THEN ack_delayed(x) ELSE x
  ELSE IF Add(m.seq, Len(m.data)) > x.t.rcv THEN x
  ELSE LET y == tcp_ack_now([x EXCEPT !.t.rcv = Add(@, 1), !.t.fin_rx = TRUE, !.t.done = TRUE])
       IN [y EXCEPT !.t.st = CASE @ = "ESTAB" -> "CLOSEW" [] @ = "FINW2" -> "TIMEW"
                               [] @ = "FINW1" -> "FINW2" [] OTHER -> @]

(* A segment for a connection (not for a listener). *)
HandleConn(x, m) ==
  CASE "RST" \in m.fl -> HandleRst(x)
    [] "RST" \notin m.fl /\ x.t.st = "SYNSENT" -> HandleSynSent(x, m)
    [] "RST" \notin m.fl /\ x.t.st = "SYNRECV" -> HandleSynRecv(x, m)
    [] OTHER -> LET y == HandleFin(HandleData(HandleAck(x, m), m), m)
                IN IF x.t.fin_tx THEN [y EXCEPT !.t = Forget(@)] ELSE y

----------------------------------------------------------------------------
(* Socket calls.  The parts of a call between two waits are operators here;  *)
(* the modules of the applications run them as steps.                        *)
sock_reset(t) ==
  [t EXCEPT !.used = TRUE, !.st = "CLOSED", !.lfd = -1, !.ok = FALSE, !.done = FALSE, !.err = FALSE,
            !.fin_tx = FALSE, !.fin_rx = FALSE, !.una = 0, !.nxt = 0, !.rcv = 0, !.fin_pend = FALSE,
            !.retries = 0, !.wnd = MSS, !.dupacks = 0, !.fr = FALSE, !.recover = 0, !.lt = 0,
            !.nagle = << >>, !.ka = 0, !.cwnd = 4 * MSS, !.ssthresh = 64 * MSS, !.head = 0, !.tail = 0,
            !.win_update = FALSE, !.ack_want = FALSE, !.ack_inv = 0, !.last_ack = 0, !.rx = << >>]

(* The addresses and the first sequence number of a connection of host h.    *)
Opened(t, h, sport, dport) ==
  [t EXCEPT !.ip = Peer(h), !.sport = sport, !.dport = dport, !.iss = Iss[h],
            !.una = Add(Iss[h], 1), !.nxt = Add(Iss[h], 1)]

(* A SYN m for listener l of host h, answered from block c: its fields are   *)
(* set to what sock_reset sets them to, but for those of the connection.     *)
ChildBlock(t, h, l, m) ==
  [Opened(sock_reset(t), h, m.dp, m.sp) EXCEPT
     !.lfd = l, !.rcv = Add(m.seq, 1), !.wnd = 65535, !.st = "SYNRECV"]
Child(h, l, c, m) ==
  tcp_emit(Work(ChildBlock(conns[h][c], h, l, m)), Iss[h], {"SYN", "ACK"}, << >>, FALSE)

(* The block a new socket or child may take: the first free one, else one in *)
(* TIME_WAIT (the code takes the oldest; ages are not kept).                 *)
FreeBlocks(h) ==
  LET free == {i \in Socks : ~conns[h][i].used}
  IN IF free # {} THEN {Min(free)} ELSE {i \in Socks : conns[h][i].used /\ conns[h][i].st = "TIMEW"}

net_tcp_listen(t, h, port) ==
  [t EXCEPT !.st = "LISTEN", !.dport = 0, !.sport = port, !.ip = h, !.ok = FALSE, !.done = FALSE, !.err = FALSE]

SynOut(x) == tcp_emit(x, x.t.iss, {"SYN"}, << >>, FALSE)
connect_begin(t, h, sport, dport) == SynOut(Work([Opened(t, h, sport, dport) EXCEPT !.st = "SYNSENT"]))
connect_end(t) ==
  IF t.ok THEN [t EXCEPT !.done = FALSE, !.err = FALSE] ELSE Forget([t EXCEPT !.used = FALSE, !.st = "CLOSED"])

(* The children that accept may return (the code returns the oldest).        *)
Acceptable(h, l) == {i \in Socks \ {l} : conns[h][i].used /\ conns[h][i].lfd = l /\ conns[h][i].st = "ESTAB"}
accept_return(t) == [t EXCEPT !.done = FALSE, !.err = FALSE]

(* One turn of the loop of net_tcp_send: c = [data, pos, inflight] are the   *)
(* caller's bytes, those taken so far, and whether bytes were unacknowledged *)
(* when the call began.  The result adds r: "more", "wait" or "true".        *)
send_begin(t, data) == [data |-> data, pos |-> 0, inflight |-> t.una # t.nxt]
CanSend(t) == t.used /\ t.st \in {"ESTAB", "FINW1", "CLOSEW"}
send_turn(t, c) ==
  LET rem == SubSeq(c.data, c.pos + 1, Len(c.data))
      n == Len(rem)
      add == Min({n, MSS - Len(t.nagle)})
      joined == nagle_flush(Work([t EXCEPT !.nagle = @ \o SubSeq(rem, 1, add)]))
      flight == Sub(t.nxt, t.una)
      room == ~RingFull(t) /\ \/ flight + n <= Min({t.wnd, t.cwnd})
                              \/ t.lt > 0 /\ flight + n <= t.wnd
      sent == Transmit(Work(t), rem)
      ret(x, p, r) == [x |-> x, pos |-> p, r |-> r]
  IN CASE n = 0 -> ret(Work(t), c.pos, "true")
       [] n > 0 /\ t.nagle # << >> ->
            ret(joined, c.pos + add, IF joined.t.nagle # << >> THEN "true" ELSE "more")
       [] n > 0 /\ t.nagle = << >> /\ n < MSS /\ c.inflight ->
            ret(Work([t EXCEPT !.nagle = rem]), Len(c.data), "true")
       [] n > 0 /\ t.nagle = << >> /\ ~(n < MSS /\ c.inflight) /\ ~room -> ret(Work(t), c.pos, "wait")
       [] OTHER -> ret([sent EXCEPT !.t.lt = Max({@ - 1, 0})], Len(c.data), "true")

net_tcp_recv(t, cap) ==
  LET n == Min({cap, Len(t.rx)})
      y == [t EXCEPT !.rx = SubSeq(@, n + 1, Len(@))]
  IN IF n > 0 /\ y.win_update /\ Len(y.rx) < RING \div 2
     THEN tcp_ack_now(Work([y EXCEPT !.win_update = FALSE])) ELSE Work(y)

close_begin(t) ==
  LET fin(st) == SendFin(Work([t EXCEPT !.fin_tx = TRUE, !.fin_seq = t.nxt, !.nxt = Add(@, 1),
                                        !.st = st, !.fin_pend = TRUE]))
  IN CASE t.used /\ t.st = "ESTAB" -> fin("FINW1")
       [] t.used /\ t.st = "CLOSEW" -> fin("LASTACK")
       [] OTHER -> Work(t)
CloseWaits(t) == t.fin_tx /\ ~t.done /\ ~t.err    \* net_tcp_wait goes on
close_end(t) ==
  Forget(IF t.used /\ t.st \notin {"TIMEW", "FINW1", "FINW2"} /\ (t.ok \/ t.fin_rx \/ t.err)
         THEN [t EXCEPT !.used = FALSE, !.st = "CLOSED"] ELSE t)

----------------------------------------------------------------------------
(* Steps of the network and of the interrupts.                               *)
(* The blocks of host m.to, in the table cs of all blocks, that segment m is *)
(* for, and the listeners it may open a connection with.                     *)
ConnOf(cs, m) ==
  {i \in Socks : LET t == cs[m.to][i] IN t.used /\ t.st # "LISTEN" /\ t.sport = m.dp
                                         /\ t.ip = Peer(m.to) /\ t.dport = m.sp}
ListenerOf(h, m) ==
  {i \in Socks : conns[h][i].used /\ conns[h][i].st = "LISTEN" /\ conns[h][i].sport = m.dp}

(* Of the segments ms in flight, those that can still have an effect.  A     *)
(* segment of a connection that has no block, and that no SYN can open       *)
(* again, is dropped by handle_tcp whenever it comes: it is left out at      *)
(* once, which is one of the times at which it may come.                     *)
Opening(cs, ms) ==
  \/ \E m \in ms : m.fl = {"SYN"}
  \/ \E h \in Hosts, i \in Socks : cs[h][i].used /\ cs[h][i].st = "SYNSENT"
Live(cs, ms) == IF Opening(cs, ms) THEN ms ELSE {m \in ms : ConnOf(cs, m) # {}}

Answer(h, i, x, rest) ==
  /\ conns' = [conns EXCEPT ![h][i] = x.t]
  /\ net' = Live(conns', rest \cup x.out)
Put(h, i, x) == Answer(h, i, x, net)

(* The receive interrupt of host m.to hands segment m to handle_tcp.         *)
handle_tcp(m, rest) ==
  LET h == m.to
      conn == ConnOf(conns, m)
      l == Min(ListenerOf(h, m))
      pend == Cardinality({i \in Socks : conns[h][i].used /\ conns[h][i].lfd = l /\ conns[h][i].st = "SYNRECV"})
      syn == m.fl = {"SYN"} /\ conn = {} /\ ListenerOf(h, m) # {}
  IN \/ /\ conn # {}
        /\ Answer(h, Min(conn), HandleConn(Work(conns[h][Min(conn)]), m), rest)
     \/ /\ syn /\ pend < BACKLOG
        /\ \E c \in FreeBlocks(h) : Answer(h, c, Child(h, l, c, m), rest)
     \/ /\ conn = {} /\ ~(syn /\ pend < BACKLOG /\ FreeBlocks(h) # {})
        /\ net' = rest /\ UNCHANGED conns

Deliver == \E m \in net : handle_tcp(m, net \ {m}) /\ UNCHANGED faults
Lose ==
  /\ faults < MaxFaults /\ faults' = faults + 1
  /\ \E m \in net : net' = net \ {m}
  /\ UNCHANGED conns
(* A reset for a connection of host h, from outside the two hosts.           *)
Reset(h, i) ==
  /\ conns[h][i].used /\ faults < MaxFaults /\ faults' = faults + 1
  /\ LET x == HandleRst(Work(conns[h][i]))
     IN x # Work(conns[h][i]) /\ Put(h, i, x)

(* net_tcp_poll_all of the timer interrupt, for one block and one timer.     *)
Poll(h, i, due) ==
  /\ conns[h][i].used
  /\ faults' = IF OnTime(h, i, due) THEN faults ELSE faults + 1
  /\ faults' <= MaxFaults
  /\ due \in ShortTimers \/ Settled
  /\ LET x == tcp_poll(Work(conns[h][i]), due)
     IN x # Work(conns[h][i]) /\ Put(h, i, x)

TcpInit ==
  /\ conns = [h \in Hosts |-> [i \in Socks |-> Tcb0]]
  /\ net = {} /\ faults = 0
=============================================================================
