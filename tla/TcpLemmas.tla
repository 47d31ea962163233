----------------------------- MODULE TcpLemmas -----------------------------
(* What the operators of Tcp do to a control block, and the types of blocks  *)
(* and segments, for any sizes of rings, windows and sequence space.         *)
EXTENDS Tcp, LeastNumbers

Fields == DOMAIN Tcb0
SeqNos == 0..SeqSpace-1

LEMMA FieldNames ==
  Fields = {"used", "st", "lfd", "ip", "sport", "dport", "iss", "una", "nxt", "rcv", "wnd",
            "cwnd", "ssthresh", "dupacks", "fr", "recover", "lt", "head", "tail", "txb", "nagle", "ka",
            "fin_tx", "fin_rx", "fin_seq", "fin_pend", "retries", "ok", "done", "err", "win_update",
            "ack_want", "ack_inv", "last_ack", "rx", "ooo"}
BY DEF Fields, Tcb0

(* u differs from block t in the fields fs only. *)
Same(t, u, fs) == DOMAIN u = Fields /\ \A f \in Fields \ fs : u[f] = t[f]
IsWork(x) == DOMAIN x = {"t", "out"} /\ DOMAIN x.t = Fields

(* The fields that only tune when and how much is sent. *)
Timing == {"cwnd", "ssthresh", "dupacks", "fr", "recover", "lt", "ack_want", "ack_inv", "last_ack"}

(* m is the segment that block t sends with these contents. *)
Segment(t, m, seq, fl, data) ==
  /\ m.to = t.ip /\ m.sp = t.sport /\ m.dp = t.dport /\ m.ack = t.rcv
  /\ m.seq = seq /\ m.fl = fl /\ m.data = data

----------------------------------------------------------------------------
(* Sending. *)
LEMMA EmitDoes ==
  ASSUME NEW x, IsWork(x), NEW seq, NEW fl, NEW data
  PROVE  LET y == tcp_emit(x, seq, fl, data, FALSE)
         IN IsWork(y) /\ y.t = x.t /\ \A m \in y.out : m \in x.out \/ Segment(x.t, m, seq, fl, data)
BY DEF tcp_emit, IsWork, Segment

LEMMA EmitSackDoes ==
  ASSUME NEW x, IsWork(x), NEW seq, NEW fl, NEW data
  PROVE  LET y == tcp_emit(x, seq, fl, data, TRUE)
         IN IsWork(y) /\ y.t = x.t /\ \A m \in y.out : m \in x.out \/ Segment(x.t, m, seq, fl, data)
BY DEF tcp_emit, IsWork, Segment

LEMMA AckNowDoes ==
  ASSUME NEW x, IsWork(x)
  PROVE  LET y == tcp_ack_now(x)
         IN /\ IsWork(y) /\ Same(x.t, y.t, Timing)
            /\ \A m \in y.out : m \in x.out \/ Segment(x.t, m, x.t.nxt, {"ACK"}, << >>)
<1> DEFINE w == [x EXCEPT !.t.last_ack = x.t.rcv, !.t.ack_want = FALSE, !.t.ack_inv = 0]
<1>1. IsWork(w) /\ w.out = x.out
  BY FieldNames DEF IsWork
<1>2. Same(x.t, w.t, Timing)
  BY FieldNames DEF IsWork, Same, Timing
<1>3. w.t.ip = x.t.ip /\ w.t.sport = x.t.sport /\ w.t.dport = x.t.dport /\ w.t.rcv = x.t.rcv /\ w.t.nxt = x.t.nxt
  BY <1>2, FieldNames DEF Same, Timing
<1> HIDE DEF w
<1>4. tcp_ack_now(x) = tcp_emit(w, w.t.nxt, {"ACK"}, << >>, TRUE)
  BY Zenon DEF tcp_ack_now, w
<1>5. IsWork(tcp_ack_now(x)) /\ tcp_ack_now(x).t = w.t
  BY <1>1, <1>4, EmitSackDoes
<1>6. \A m \in tcp_ack_now(x).out : m \in w.out \/ Segment(w.t, m, w.t.nxt, {"ACK"}, << >>)
  BY <1>1, <1>4, EmitSackDoes
<1> QED BY <1>1, <1>2, <1>3, <1>5, <1>6 DEF Segment

LEMMA AckDelayedDoes ==
  ASSUME NEW x, IsWork(x)
  PROVE  LET y == ack_delayed(x)
         IN /\ IsWork(y) /\ Same(x.t, y.t, Timing)
            /\ \A m \in y.out : m \in x.out \/ Segment(x.t, m, x.t.nxt, {"ACK"}, << >>)
<1> DEFINE w == [x EXCEPT !.t.ack_want = TRUE, !.t.ack_inv = @ + 1]
<1>1. IsWork(w) /\ w.out = x.out
  BY FieldNames DEF IsWork
<1>2. Same(x.t, w.t, Timing)
  BY FieldNames DEF IsWork, Same, Timing
<1>3. w.t.ip = x.t.ip /\ w.t.sport = x.t.sport /\ w.t.dport = x.t.dport /\ w.t.rcv = x.t.rcv /\ w.t.nxt = x.t.nxt
  BY <1>2, FieldNames DEF Same, Timing
<1> HIDE DEF w
<1>4. ack_delayed(x) = IF w.t.ack_inv >= 2 \/ w.t.win_update THEN tcp_ack_now(w) ELSE w
  BY Zenon DEF ack_delayed, w
<1>5. CASE w.t.ack_inv >= 2 \/ w.t.win_update
  BY <1>1, <1>2, <1>3, <1>4, <1>5, AckNowDoes DEF Segment, Same
<1>6. CASE ~(w.t.ack_inv >= 2 \/ w.t.win_update)
  BY <1>1, <1>2, <1>4, <1>6
<1> QED BY <1>5, <1>6

LEMMA BackoffDoes ==
  ASSUME NEW x, IsWork(x)
  PROVE  LET y == rto_backoff(x) IN IsWork(y) /\ Same(x.t, y.t, Timing) /\ y.out = x.out
<1>1. IsWork(rto_backoff(x)) /\ rto_backoff(x).out = x.out
  BY FieldNames DEF IsWork, rto_backoff
<1>2. Same(x.t, rto_backoff(x).t, Timing)
  BY FieldNames DEF IsWork, rto_backoff, Same, Timing
<1> QED BY <1>1, <1>2

LEMMA AbortDoes ==
  ASSUME NEW x, IsWork(x)
  PROVE  LET y == tcp_abort(x)
         IN /\ IsWork(y) /\ Same(x.t, y.t, {"err", "done", "ok", "used", "st"}) /\ y.out = x.out
            /\ ~y.t.used /\ ~y.t.ok /\ y.t.st = "CLOSED"
<1>1. IsWork(tcp_abort(x)) /\ tcp_abort(x).out = x.out
  BY FieldNames DEF IsWork, tcp_abort
<1>2. Same(x.t, tcp_abort(x).t, {"err", "done", "ok", "used", "st"})
  BY FieldNames DEF IsWork, tcp_abort, Same
<1>3. tcp_abort(x).t.used = FALSE /\ tcp_abort(x).t.ok = FALSE /\ tcp_abort(x).t.st = "CLOSED"
  BY FieldNames DEF IsWork, tcp_abort
<1> QED BY <1>1, <1>2, <1>3

LEMMA ResendDoes ==
  ASSUME NEW x, IsWork(x), NEW j
  PROVE  LET y == Resend(x, j)
         IN /\ IsWork(y) /\ y.t = x.t
            /\ \A m \in y.out : m \in x.out \/ Segment(x.t, m, x.t.txb[j].seq, {"ACK", "PSH"}, x.t.txb[j].data)
BY EmitDoes, Zenon DEF Resend

LEMMA SendFinDoes ==
  ASSUME NEW x, IsWork(x)
  PROVE  LET y == SendFin(x)
         IN /\ IsWork(y) /\ y.t = x.t
            /\ \A m \in y.out : m \in x.out \/ Segment(x.t, m, x.t.fin_seq, {"FIN", "ACK"}, << >>)
BY EmitDoes, Zenon DEF SendFin

LEMMA CwndDoes ==
  ASSUME NEW x, IsWork(x)
  PROVE  LET y == cwnd_ack(x) IN IsWork(y) /\ Same(x.t, y.t, Timing) /\ y.out = x.out
<1>1. IsWork(cwnd_ack(x)) /\ cwnd_ack(x).out = x.out
  BY FieldNames DEF IsWork, cwnd_ack
<1>2. Same(x.t, cwnd_ack(x).t, Timing)
  BY FieldNames DEF IsWork, cwnd_ack, Same, Timing
<1> QED BY <1>1, <1>2

----------------------------------------------------------------------------
(* The transmit slots. *)
LEMMA Sizes ==
  /\ SOCKS \in Nat \ {0} /\ MSS \in Nat \ {0} /\ RING \in Nat \ {0} /\ OOO \in Nat \ {0} /\ TXQ \in Nat \ {0}
  /\ BACKLOG \in Nat \ {0} /\ KA_CNT \in Nat \ {0} /\ SYN_TRIES \in Nat \ {0} /\ SeqSpace \in Nat \ {0}
  /\ MAX_RETRANS \in Nat /\ MaxFaults \in Nat /\ \A h \in Hosts : Iss[h] \in SeqNos
BY TcpAssumption DEF Hosts, SeqNos

LEMMA SlotIndex == \A i \in 0..TXQ-1, n \in 0..TXQ : (i + n) % TXQ \in 0..TXQ-1
BY Sizes

LEMMA PickIsPending ==
  ASSUME NEW t, t.tail \in 0..TXQ-1
  PROVE  LET j == ts_pick(t)
         IN j = -1 \/ (j \in 0..TXQ-1 /\ t.txb[j].pend /\ \E i \in Pending(t) : j = (t.tail + i) % TXQ)
<1> DEFINE lost == {i \in Pending(t) : ~t.txb[(t.tail + i) % TXQ].sacked}
           oldest(s) == (t.tail + Min(s)) % TXQ
<1>1. ASSUME NEW s \in SUBSET Pending(t), s # {}
      PROVE  oldest(s) \in 0..TXQ-1 /\ t.txb[oldest(s)].pend /\ \E i \in Pending(t) : oldest(s) = (t.tail + i) % TXQ
  <2>1. Pending(t) \in SUBSET Nat
    BY Sizes DEF Pending
  <2>2. Min(s) \in s
    BY <1>1, <2>1, MinIsLeast
  <2>3. Min(s) \in 0..TXQ-1 /\ t.txb[oldest(s)].pend
    BY <2>2 DEF Pending
  <2>4. oldest(s) \in 0..TXQ-1
    BY <2>3, Sizes
  <2> QED BY <2>2, <2>3, <2>4
<1>2. ts_pick(t) = IF Pending(t) = {} THEN -1 ELSE IF lost # {} THEN oldest(lost) ELSE oldest(Pending(t))
  BY Zenon DEF ts_pick
<1>3. lost \in SUBSET Pending(t)
  OBVIOUS
<1> HIDE DEF lost, oldest
<1>4. CASE Pending(t) = {}
  BY <1>2, <1>4
<1>5. CASE Pending(t) # {} /\ lost # {}
  BY <1>1, <1>2, <1>3, <1>5
<1>6. CASE Pending(t) # {} /\ lost = {}
  BY <1>1, <1>2, <1>6
<1> QED BY <1>4, <1>5, <1>6

(* The slots released by an acknowledgement are the first n. *)
Released(t, ack, n) ==
  /\ n \in 0..TXQ
  /\ \A i \in 0..n-1 : LET s == t.txb[(t.tail + i) % TXQ] IN s.pend /\ Add(s.seq, Len(s.data)) <= ack
  /\ n < TXQ => LET s == t.txb[(t.tail + n) % TXQ] IN ~(s.pend /\ Add(s.seq, Len(s.data)) <= ack)

LEMMA MaxIsGreatest ==
  ASSUME NEW n \in Nat, NEW S \in SUBSET (0..n), S # {}
  PROVE  Max(S) \in S /\ \A y \in S : y <= Max(S)
<1> DEFINE R == {n - y : y \in S}
<1>1. R \in SUBSET Nat /\ R # {}
  <2>1. \A y \in S : y \in 0..n
    OBVIOUS
  <2>2. \A y \in S : n - y \in Nat
    BY <2>1
  <2> QED BY <2>2
<1>2. PICK z \in R : \A y \in R : z <= y
  BY <1>1, LeastNumber
<1>3. PICK x \in S : z = n - x
  BY <1>2
<1>4. \A y \in S : y <= x
  <2> TAKE y \in S
  <2>1. n - y \in R /\ x \in 0..n /\ y \in 0..n
    OBVIOUS
  <2>2. n - x <= n - y
    BY <1>2, <1>3, <2>1
  <2> HIDE DEF R
  <2> QED BY <2>1, <2>2
<1>5. \E m \in S : \A y \in S : m >= y
  <2>1. \A y \in S : y \in Int
    OBVIOUS
  <2> QED BY <1>4, <2>1
<1>6. Max(S) \in S /\ \A y \in S : Max(S) >= y
  BY <1>5, Zenon DEF Max
<1>7. \A y \in S : y \in Int
  OBVIOUS
<1> DEFINE m == Max(S)
<1>8. m \in S /\ \A y \in S : m >= y
  BY <1>6
<1> HIDE DEF m
<1>9. m \in S /\ \A y \in S : y <= m
  BY <1>7, <1>8
<1> QED BY <1>9 DEF m

LEMMA AckSlotsDoes ==
  ASSUME NEW x, IsWork(x), x.t.tail \in 0..TXQ-1, NEW ack
  PROVE  LET y == ack_slots(x, ack)
         IN /\ IsWork(y) /\ Same(x.t, y.t, {"tail", "txb"}) /\ y.out = x.out
            /\ \E n \in 0..TXQ :
                 /\ Released(x.t, ack, n)
                 /\ y.t.tail = (x.t.tail + n) % TXQ
                 /\ y.t.txb = [j \in 0..TXQ-1 |-> IF \E i \in 0..n-1 : j = (x.t.tail + i) % TXQ
                                                  THEN NoSlot ELSE x.t.txb[j]]
<1> DEFINE t == x.t
           slot(i) == t.txb[(t.tail + i) % TXQ]
           gone(i) == slot(i).pend /\ Add(slot(i).seq, Len(slot(i).data)) <= ack
           acked == {k \in 0..TXQ : \A i \in 0..k-1 : gone(i)}
           n == Max(acked)
           txb == [j \in 0..TXQ-1 |-> IF \E i \in 0..n-1 : j = (t.tail + i) % TXQ THEN NoSlot ELSE t.txb[j]]
<1>1. ack_slots(x, ack) = [x EXCEPT !.t.tail = (@ + n) % TXQ, !.t.txb = txb]
  BY ZenonT(60) DEF ack_slots
<1>2. 0 \in acked
  BY Sizes
<1>3. n \in acked /\ \A k \in acked : k <= n
  BY <1>2, MaxIsGreatest, Sizes
<1> HIDE DEF n, gone, txb
<1>4. n \in 0..TXQ /\ \A i \in 0..n-1 : gone(i)
  BY <1>3
<1>5. ASSUME n < TXQ, gone(n) PROVE FALSE
  <2>1. n + 1 \in 0..TXQ /\ \A i \in 0..(n+1)-1 : gone(i)
    BY <1>4, <1>5, Sizes
  <2>2. n + 1 \in acked
    BY <2>1
  <2>3. n + 1 <= n
    BY <1>3, <2>2
  <2> QED BY <1>4, <2>3
<1>6. Released(x.t, ack, n)
  BY <1>4, <1>5 DEF Released, gone
<1> DEFINE y == ack_slots(x, ack)
<1> HIDE DEF n, txb
<1>7. IsWork(y) /\ y.out = x.out
  BY <1>1, FieldNames DEF IsWork
<1>8. Same(x.t, y.t, {"tail", "txb"})
  BY <1>1, FieldNames DEF IsWork, Same
<1>9. y.t.tail = (x.t.tail + n) % TXQ /\ y.t.txb = txb
  BY <1>1, FieldNames DEF IsWork
<1> QED BY <1>4, <1>6, <1>7, <1>8, <1>9, Zenon DEF txb

LEMMA SackDoes ==
  ASSUME NEW x, IsWork(x), NEW blocks
  PROVE  LET y == sack_apply(x, blocks)
         IN /\ IsWork(y) /\ Same(x.t, y.t, {"txb"}) /\ y.out = x.out /\ DOMAIN y.t.txb = 0..TXQ-1
            /\ \A j \in 0..TXQ-1 : y.t.txb[j] = x.t.txb[j] \/ y.t.txb[j] = [x.t.txb[j] EXCEPT !.sacked = TRUE]
<1>1. IsWork(sack_apply(x, blocks)) /\ sack_apply(x, blocks).out = x.out
  BY FieldNames DEF IsWork, sack_apply
<1>2. Same(x.t, sack_apply(x, blocks).t, {"txb"})
  BY FieldNames DEF IsWork, sack_apply, Same
<1> DEFINE hit(s) == s.pend /\ \E b \in blocks : b[1] < b[2] /\ b[1] < Add(s.seq, Len(s.data)) /\ b[2] > s.seq
           txb == [j \in 0..TXQ-1 |-> IF hit(x.t.txb[j]) THEN [x.t.txb[j] EXCEPT !.sacked = TRUE] ELSE x.t.txb[j]]
<1>3. sack_apply(x, blocks) = [x EXCEPT !.t.txb = txb]
  BY Zenon DEF sack_apply
<1>4. DOMAIN txb = 0..TXQ-1 /\ \A j \in 0..TXQ-1 : txb[j] = x.t.txb[j] \/ txb[j] = [x.t.txb[j] EXCEPT !.sacked = TRUE]
  OBVIOUS
<1> HIDE DEF txb
<1>5. sack_apply(x, blocks).t.txb = txb
  BY <1>3, FieldNames DEF IsWork
<1> QED BY <1>1, <1>2, <1>4, <1>5

LEMMA FastRecoveryDoes ==
  ASSUME NEW x, IsWork(x), x.t.tail \in 0..TXQ-1
  PROVE  LET y == fast_recovery(x)
         IN /\ IsWork(y) /\ Same(x.t, y.t, Timing \cup {"retries"}) /\ y.t.retries \in {0, x.t.retries}
            /\ \A m \in y.out : \/ m \in x.out
                                \/ \E j \in 0..TXQ-1 : /\ x.t.txb[j].pend
                                                       /\ Segment(x.t, m, x.t.txb[j].seq, {"ACK", "PSH"}, x.t.txb[j].data)
<1> DEFINE j == ts_pick(x.t)
           th == Max({Sub(x.t.nxt, x.t.una) \div 2, 2 * MSS})
           r == Resend(x, j)
           w == [r EXCEPT !.t.ssthresh = th, !.t.cwnd = Min({CwndCap, th + 3 * MSS}),
                          !.t.recover = x.t.nxt, !.t.fr = TRUE, !.t.retries = 0]
<1>1. fast_recovery(x) = IF j < 0 THEN x ELSE w
  BY Zenon DEF fast_recovery
<1>2. j = -1 \/ (j \in 0..TXQ-1 /\ x.t.txb[j].pend)
  BY PickIsPending
<1>3. IsWork(r) /\ r.t = x.t /\ \A m \in r.out : m \in x.out \/ Segment(x.t, m, x.t.txb[j].seq, {"ACK", "PSH"}, x.t.txb[j].data)
  BY ResendDoes
<1> HIDE DEF j, th, r
<1>4. IsWork(w) /\ w.out = r.out
  BY <1>3, FieldNames DEF IsWork
<1>5. Same(r.t, w.t, Timing \cup {"retries"})
  BY <1>3, FieldNames DEF IsWork, Same, Timing
<1>6. w.t.retries = 0
  BY <1>3, FieldNames DEF IsWork
<1> HIDE DEF w
<1>7. CASE j < 0
  BY <1>1, <1>7 DEF IsWork, Same
<1>8. CASE ~(j < 0)
  BY <1>1, <1>2, <1>3, <1>4, <1>5, <1>6, <1>8
<1> QED BY <1>7, <1>8

LEMMA TransmitDoes ==
  ASSUME NEW x, IsWork(x), NEW data
  PROVE  LET y == Transmit(x, data)
         IN /\ IsWork(y) /\ Same(x.t, y.t, {"txb", "nxt", "head"})
            /\ y.t.nxt = Add(x.t.nxt, Len(data)) /\ y.t.head = (x.t.head + 1) % TXQ
            /\ y.t.txb = [x.t.txb EXCEPT ![x.t.head] = [pend |-> TRUE, sacked |-> FALSE, seq |-> x.t.nxt, data |-> data]]
            /\ \A m \in y.out : m \in x.out \/ Segment(x.t, m, x.t.nxt, {"ACK", "PSH"}, data)
<1> DEFINE s == [pend |-> TRUE, sacked |-> FALSE, seq |-> x.t.nxt, data |-> data]
           w == [x EXCEPT !.t.txb[x.t.head] = s, !.t.nxt = Add(@, Len(data)), !.t.head = (@ + 1) % TXQ]
<1>1. Transmit(x, data) = tcp_emit(w, x.t.nxt, {"ACK", "PSH"}, data, FALSE)
  BY Zenon DEF Transmit
<1> HIDE DEF s
<1>2. IsWork(w) /\ w.out = x.out
  BY FieldNames DEF IsWork
<1>3. Same(x.t, w.t, {"txb", "nxt", "head"})
  BY FieldNames DEF IsWork, Same
<1>4. w.t.nxt = Add(x.t.nxt, Len(data)) /\ w.t.head = (x.t.head + 1) % TXQ
  BY FieldNames DEF IsWork
<1>5. w.t.txb = [x.t.txb EXCEPT ![x.t.head] = s]
  BY FieldNames DEF IsWork
<1> HIDE DEF w
<1>6. w.t.ip = x.t.ip /\ w.t.sport = x.t.sport /\ w.t.dport = x.t.dport /\ w.t.rcv = x.t.rcv
  BY <1>3, FieldNames DEF Same
<1> DEFINE y == Transmit(x, data)
<1>7. IsWork(y) /\ y.t = w.t /\ \A m \in y.out : m \in w.out \/ Segment(w.t, m, x.t.nxt, {"ACK", "PSH"}, data)
  BY <1>1, <1>2, EmitDoes
<1> HIDE DEF y
<1>8. \A m \in y.out : m \in x.out \/ Segment(x.t, m, x.t.nxt, {"ACK", "PSH"}, data)
  BY <1>2, <1>6, <1>7 DEF Segment
<1>9. IsWork(y) /\ Same(x.t, y.t, {"txb", "nxt", "head"}) /\ y.t.nxt = Add(x.t.nxt, Len(data))
      /\ y.t.head = (x.t.head + 1) % TXQ /\ y.t.txb = [x.t.txb EXCEPT ![x.t.head] = s]
  BY <1>3, <1>4, <1>5, <1>7
<1> QED BY <1>8, <1>9, Zenon DEF y, s

LEMMA FlushDoes ==
  ASSUME NEW x, IsWork(x)
  PROVE  LET y == nagle_flush(x)
         IN \/ y = x
            \/ /\ x.t.nagle # << >> /\ x.t.wnd # 0 /\ ~RingFull(x.t)
               /\ IsWork(y) /\ Same(x.t, y.t, {"txb", "nxt", "head", "nagle"})
               /\ y.t.nxt = Add(x.t.nxt, Len(x.t.nagle)) /\ y.t.head = (x.t.head + 1) % TXQ /\ y.t.nagle = << >>
               /\ y.t.txb = [x.t.txb EXCEPT ![x.t.head] =
                               [pend |-> TRUE, sacked |-> FALSE, seq |-> x.t.nxt, data |-> x.t.nagle]]
               /\ \A m \in y.out : m \in x.out \/ Segment(x.t, m, x.t.nxt, {"ACK", "PSH"}, x.t.nagle)
<1> DEFINE w == Transmit(x, x.t.nagle)
           y == [w EXCEPT !.t.nagle = << >>]
<1>1. \/ nagle_flush(x) = x
      \/ x.t.nagle # << >> /\ x.t.wnd # 0 /\ ~RingFull(x.t) /\ nagle_flush(x) = y
  BY Zenon DEF nagle_flush
<1>2. /\ IsWork(w) /\ Same(x.t, w.t, {"txb", "nxt", "head"})
      /\ w.t.nxt = Add(x.t.nxt, Len(x.t.nagle)) /\ w.t.head = (x.t.head + 1) % TXQ
      /\ w.t.txb = [x.t.txb EXCEPT ![x.t.head] =
                      [pend |-> TRUE, sacked |-> FALSE, seq |-> x.t.nxt, data |-> x.t.nagle]]
      /\ \A m \in w.out : m \in x.out \/ Segment(x.t, m, x.t.nxt, {"ACK", "PSH"}, x.t.nagle)
  BY TransmitDoes
<1> HIDE DEF w
<1>3. IsWork(y) /\ y.out = w.out
  BY <1>2, FieldNames DEF IsWork
<1>4. Same(w.t, y.t, {"nagle"}) /\ y.t.nagle = << >>
  BY <1>2, FieldNames DEF IsWork, Same
<1> HIDE DEF y
<1>5. Same(x.t, y.t, {"txb", "nxt", "head", "nagle"}) /\ y.t.nxt = w.t.nxt /\ y.t.head = w.t.head /\ y.t.txb = w.t.txb
  BY <1>2, <1>4, FieldNames DEF Same
<1> QED BY <1>1, <1>2, <1>3, <1>4, <1>5

----------------------------------------------------------------------------
(* The receive ring and the out-of-order slices. *)
LEMMA MinOfTwo ==
  ASSUME NEW a \in Nat, NEW b \in Nat
  PROVE  Min({a, b}) = IF a <= b THEN a ELSE b
<1>1. {a, b} \in SUBSET Nat /\ {a, b} # {}
  OBVIOUS
<1>2. Min({a, b}) \in {a, b} /\ \A y \in {a, b} : Min({a, b}) <= y
  BY <1>1, MinIsLeast
<1> QED BY <1>2

LEMMA FitsDoes ==
  ASSUME NEW t, t.rx \in Seq(Nat), Len(t.rx) <= RING, NEW data \in Seq(Nat)
  PROVE  LET n == Fits(t, data)
         IN /\ n \in 0..Len(data) /\ Len(t.rx) + n <= RING
            /\ (n < Len(data) => Len(t.rx) + n = RING)
            /\ SubSeq(data, 1, n) \in Seq(Nat) /\ Len(SubSeq(data, 1, n)) = n
<1>1. Len(data) \in Nat /\ RING - Len(t.rx) \in Nat
  BY Sizes
<1>2. Fits(t, data) = IF Len(data) <= RING - Len(t.rx) THEN Len(data) ELSE RING - Len(t.rx)
  BY <1>1, MinOfTwo DEF Fits
<1>3. ASSUME NEW d \in Nat, NEW r \in Nat, NEW n, n = IF d <= RING - r THEN d ELSE RING - r, RING - r \in Nat
      PROVE  n \in 0..d /\ r + n <= RING /\ (n < d => r + n = RING)
  BY <1>3, Sizes
<1>4. Fits(t, data) \in 0..Len(data) /\ Len(t.rx) + Fits(t, data) <= RING
      /\ (Fits(t, data) < Len(data) => Len(t.rx) + Fits(t, data) = RING)
  <2>1. Len(t.rx) \in Nat
    OBVIOUS
  <2> QED BY <1>1, <1>2, <1>3, <2>1
<1> QED BY <1>4

LEMMA PushDoes ==
  ASSUME NEW x, IsWork(x), NEW data
  PROVE  LET y == rxr_push(x, data)
         IN /\ IsWork(y) /\ Same(x.t, y.t, {"rx"}) /\ y.out = x.out
            /\ y.t.rx = x.t.rx \o SubSeq(data, 1, Fits(x.t, data))
<1> DEFINE rx == x.t.rx \o SubSeq(data, 1, Fits(x.t, data))
           y == [x EXCEPT !.t.rx = rx]
<1>1. rxr_push(x, data) = y
  BY Zenon DEF rxr_push
<1> HIDE DEF rx
<1>2. IsWork(y) /\ y.out = x.out /\ y.t.rx = rx
  BY FieldNames DEF IsWork
<1>3. Same(x.t, y.t, {"rx"})
  BY FieldNames DEF IsWork, Same
<1> QED BY <1>1, <1>2, <1>3 DEF rx

(* y is x with bytes in out-of-order slice j. *)
Stored(x, y, j, seq, data) ==
  /\ IsWork(y) /\ Same(x.t, y.t, {"ooo"}) /\ y.out = x.out
  /\ y.t.ooo = [x.t.ooo EXCEPT ![j] = [used |-> TRUE, seq |-> seq, data |-> data]]
LEMMA StoreDoes ==
  ASSUME NEW x, IsWork(x), NEW seq, NEW data
  PROVE  LET y == ooo_store(x, seq, data) IN y = x \/ \E j \in 1..OOO : Stored(x, y, j, seq, data)
<1> DEFINE free == {j \in 1..OOO : ~x.t.ooo[j].used}
           y == [x EXCEPT !.t.ooo[Min(free)] = [used |-> TRUE, seq |-> seq, data |-> data]]
<1>1. ooo_store(x, seq, data) = x \/ (free # {} /\ ooo_store(x, seq, data) = y)
  BY Zenon DEF ooo_store
<1>2. ASSUME free # {} PROVE Min(free) \in 1..OOO
  <2>1. free \in SUBSET Nat
    BY Sizes
  <2> QED BY <1>2, <2>1, MinIsLeast
<1> HIDE DEF free
<1>3. IsWork(y) /\ y.out = x.out
  BY FieldNames DEF IsWork
<1>4. Same(x.t, y.t, {"ooo"})
  BY FieldNames DEF IsWork, Same
<1>5. y.t.ooo = [x.t.ooo EXCEPT ![Min(free)] = [used |-> TRUE, seq |-> seq, data |-> data]]
  BY FieldNames DEF IsWork
<1>6. \A j \in 1..OOO : j = Min(free) => Stored(x, y, j, seq, data)
  BY <1>3, <1>4, <1>5 DEF Stored
<1> HIDE DEF y
<1> QED BY <1>1, <1>2, <1>6

(* A turn of ooo_drain moves slice j to the ring. *)
Drained(x, j, y) ==
  LET data == x.t.ooo[j].data
      n == Fits(x.t, data)
  IN /\ x.t.ooo[j].used /\ x.t.ooo[j].seq = x.t.rcv
     /\ IsWork(y) /\ Same(x.t, y.t, {"rx", "rcv", "win_update", "ooo"}) /\ y.out = x.out
     /\ y.t.rx = x.t.rx \o SubSeq(data, 1, n) /\ y.t.rcv = Add(x.t.rcv, n)
     /\ y.t.ooo = [x.t.ooo EXCEPT ![j] =
          IF n < Len(data)
          THEN [used |-> TRUE, seq |-> Add(x.t.rcv, n), data |-> SubSeq(data, n + 1, Len(data))]
          ELSE NoSlice]
LEMMA DrainOneDoes ==
  ASSUME NEW x, IsWork(x)
  PROVE  DrainOne(x) = x \/ \E j \in 1..OOO : Drained(x, j, DrainOne(x))
<1> DEFINE next == {j \in 1..OOO : x.t.ooo[j].used /\ x.t.ooo[j].seq = x.t.rcv}
           j == Min(next)
           data == x.t.ooo[j].data
           n == Fits(x.t, data)
           p == rxr_push(x, data)
           w == [p EXCEPT !.t.rcv = Add(@, n)]
           part == [used |-> TRUE, seq |-> w.t.rcv, data |-> SubSeq(data, n + 1, Len(data))]
           y1 == [w EXCEPT !.t.win_update = TRUE, !.t.ooo[j] = part]
           y2 == [w EXCEPT !.t.ooo[j] = NoSlice]
<1>1. DrainOne(x) = IF next = {} THEN x ELSE IF n < Len(data) THEN y1 ELSE y2
  BY Zenon DEF DrainOne
<1>2. ASSUME next # {} PROVE j \in next
  <2>1. next \in SUBSET Nat
    BY Sizes
  <2> QED BY <1>2, <2>1, MinIsLeast
<1>3. IsWork(p) /\ Same(x.t, p.t, {"rx"}) /\ p.out = x.out /\ p.t.rx = x.t.rx \o SubSeq(data, 1, n)
  BY PushDoes
<1>4. p.t.ooo = x.t.ooo /\ p.t.rcv = x.t.rcv
  BY <1>3, FieldNames DEF Same
<1> HIDE DEF p, n, j, next
<1>5. IsWork(w) /\ w.out = x.out /\ w.t.rcv = Add(x.t.rcv, n) /\ w.t.ooo = x.t.ooo /\ w.t.rx = p.t.rx
  BY <1>3, <1>4, FieldNames DEF IsWork
<1>6. Same(x.t, w.t, {"rx", "rcv"})
  BY <1>3, FieldNames DEF IsWork, Same
<1> HIDE DEF w, data, part
<1>7. IsWork(y1) /\ y1.out = x.out
  BY <1>5, FieldNames DEF IsWork
<1>8. y1.t.rcv = w.t.rcv /\ y1.t.rx = w.t.rx /\ y1.t.ooo = [x.t.ooo EXCEPT ![j] = part]
  BY <1>5, FieldNames DEF IsWork
<1>9. Same(x.t, y1.t, {"rx", "rcv", "win_update", "ooo"})
  BY <1>5, <1>6, FieldNames DEF IsWork, Same
<1>10. IsWork(y2) /\ y2.out = x.out
  BY <1>5, FieldNames DEF IsWork
<1>11. y2.t.rcv = w.t.rcv /\ y2.t.rx = w.t.rx /\ y2.t.ooo = [x.t.ooo EXCEPT ![j] = NoSlice]
  BY <1>5, FieldNames DEF IsWork
<1>12. Same(x.t, y2.t, {"rx", "rcv", "win_update", "ooo"})
  BY <1>5, <1>6, FieldNames DEF IsWork, Same
<1> HIDE DEF y1, y2
<1>13. CASE next = {}
  BY <1>1, <1>13
<1>14. CASE next # {} /\ n < Len(data)
  <2>1. j \in 1..OOO /\ x.t.ooo[j].used /\ x.t.ooo[j].seq = x.t.rcv
    BY <1>2, <1>14 DEF next
  <2>2. part = [used |-> TRUE, seq |-> Add(x.t.rcv, n), data |-> SubSeq(data, n + 1, Len(data))]
    BY <1>5 DEF part
  <2>3. y1.t.ooo = [x.t.ooo EXCEPT ![j] =
          IF n < Len(data)
          THEN [used |-> TRUE, seq |-> Add(x.t.rcv, n), data |-> SubSeq(data, n + 1, Len(data))]
          ELSE NoSlice]
    BY <1>8, <1>14, <2>2
  <2>4. y1.t.rx = x.t.rx \o SubSeq(data, 1, n) /\ y1.t.rcv = Add(x.t.rcv, n)
    BY <1>3, <1>5, <1>8
  <2>5. Drained(x, j, y1)
    BY <1>7, <1>9, <2>1, <2>3, <2>4 DEF Drained, data, n
  <2> QED BY <1>1, <1>14, <2>1, <2>5
<1>15. CASE next # {} /\ ~(n < Len(data))
  <2>1. j \in 1..OOO /\ x.t.ooo[j].used /\ x.t.ooo[j].seq = x.t.rcv
    BY <1>2, <1>15 DEF next
  <2>2. y2.t.ooo = [x.t.ooo EXCEPT ![j] =
          IF n < Len(data)
          THEN [used |-> TRUE, seq |-> Add(x.t.rcv, n), data |-> SubSeq(data, n + 1, Len(data))]
          ELSE NoSlice]
    BY <1>11, <1>15
  <2>3. y2.t.rx = x.t.rx \o SubSeq(data, 1, n) /\ y2.t.rcv = Add(x.t.rcv, n)
    BY <1>3, <1>5, <1>11
  <2>4. Drained(x, j, y2)
    BY <1>10, <1>12, <2>1, <2>2, <2>3 DEF Drained, data, n
  <2> QED BY <1>1, <1>15, <2>1, <2>4
<1> QED BY <1>13, <1>14, <1>15

(* The turns of ooo_drain, as a sequence of blocks. *)
Turns(x, n, f) == f = [k \in 0..n |-> IF k = 0 THEN x ELSE DrainOne(f[k - 1])]
LEMMA TurnsExist ==
  ASSUME NEW x, NEW m \in Nat
  PROVE  \E f : Turns(x, m, f)
<1> DEFINE short == {n \in Nat : ~\E f : Turns(x, n, f)}
<1> SUFFICES ASSUME short # {} PROVE FALSE
  OBVIOUS
<1>1. short \in SUBSET Nat
  OBVIOUS
<1>2. PICK n \in short : \A k \in short : n <= k
  BY <1>1, LeastNumber
<1>3. n \in Nat /\ ~\E f : Turns(x, n, f)
  OBVIOUS
<1>4. n # 0
  <2>1. PICK f : f = [k \in 0..0 |-> x]
    OBVIOUS
  <2>2. Turns(x, 0, f)
    BY <2>1 DEF Turns
  <2> QED BY <1>3, <2>2
<1>5. PICK f : Turns(x, n - 1, f)
  <2>1. n - 1 \in Nat /\ n - 1 \notin short
    <3> HIDE DEF short
    <3> QED BY <1>1, <1>2, <1>4
  <2> QED BY <2>1
<1>6. PICK g : g = [k \in 0..n |-> IF k = n THEN DrainOne(f[n - 1]) ELSE f[k]]
  OBVIOUS
<1>7. ASSUME NEW k \in 0..n PROVE g[k] = IF k = 0 THEN x ELSE DrainOne(g[k - 1])
  <2>1. CASE k = n
    <3>1. g[k] = DrainOne(f[n - 1]) /\ g[k - 1] = f[n - 1] /\ k # 0
      BY <1>3, <1>4, <1>6, <2>1
    <3> QED BY <2>1, <3>1
  <2>2. CASE k # n
    <3>1. k \in 0..n-1 /\ g[k] = f[k] /\ (k # 0 => k - 1 \in 0..n /\ k - 1 # n /\ g[k - 1] = f[k - 1])
      BY <1>3, <1>6, <2>2
    <3>2. f[k] = IF k = 0 THEN x ELSE DrainOne(f[k - 1])
      BY <1>5, <3>1 DEF Turns
    <3> QED BY <3>1, <3>2
  <2> QED BY <2>1, <2>2
<1>8. Turns(x, n, g)
  BY <1>6, <1>7 DEF Turns
<1> QED BY <1>3, <1>8

LEMMA DrainTurns ==
  ASSUME NEW x
  PROVE  \E turn : /\ turn[0] = x /\ \A k \in 1..OOO : turn[k] = DrainOne(turn[k - 1])
                   /\ ooo_drain(x) = ack_delayed(turn[OOO])
<1> DEFINE turn == CHOOSE f : Turns(x, OOO, f)
<1>1. Turns(x, OOO, turn)
  BY TurnsExist, Sizes, Zenon
<1>2. ooo_drain(x) = ack_delayed(turn[OOO])
  BY Zenon DEF ooo_drain, Turns
<1> HIDE DEF turn
<1>3. turn[0] = x /\ \A k \in 1..OOO : turn[k] = DrainOne(turn[k - 1])
  BY <1>1, Sizes DEF Turns
<1> QED BY <1>2, <1>3

----------------------------------------------------------------------------
(* Types. *)
Slot == {s \in [pend : BOOLEAN, sacked : BOOLEAN, seq : SeqNos, data : Seq(Nat)] :
           Len(s.data) <= MSS /\ (s.pend => s.data # << >>)}
Slice == [used : BOOLEAN, seq : SeqNos, data : Seq(Nat)]

(* A block without an address has no connection: it sends nothing. *)
BlockType(t) ==
  /\ DOMAIN t = Fields /\ t.used \in BOOLEAN /\ t.ip \in Hosts \cup {"none"}
  /\ t.ip = "none" => (~t.used /\ t.wnd = 0 /\ t.cwnd = 0 /\ t.win_update = FALSE)
  /\ t.una \in SeqNos /\ t.nxt \in SeqNos /\ t.rcv \in SeqNos /\ t.fin_seq \in SeqNos
  /\ t.head \in 0..TXQ-1 /\ t.tail \in 0..TXQ-1
  /\ t.txb \in [0..TXQ-1 -> Slot] /\ t.ooo \in [1..OOO -> Slice]
  /\ t.rx \in Seq(Nat) /\ Len(t.rx) <= RING /\ t.nagle \in Seq(Nat) /\ Len(t.nagle) <= MSS
  /\ t.retries \in 0..MAX_RETRANS+1 /\ t.ka \in 0..KA_CNT+1
  /\ t.used => (t.retries <= MAX_RETRANS /\ t.ka <= KA_CNT)
  /\ t.fin_pend => t.fin_tx
SegType(m) ==
  /\ m.to \in Hosts /\ m.seq \in SeqNos /\ m.ack \in SeqNos /\ m.data \in Seq(Nat)
WorkType(x) == IsWork(x) /\ BlockType(x.t) /\ \A m \in x.out : SegType(m)
Linked(t) == t.ip # "none"

(* A mild step touches no stream: what block t has to send and what it has   *)
(* received stay, and it sends acknowledgements, slots again and its FIN.    *)
Mildly == Timing \cup {"wnd", "una", "retries", "ka", "fin_pend", "st", "used", "ok", "done", "err",
                       "win_update", "tail", "txb"}
Routine(t, m) ==
  \/ \E q \in SeqNos : Segment(t, m, q, {"ACK"}, << >>)
  \/ \E j \in 0..TXQ-1 : t.txb[j].pend /\ Segment(t, m, t.txb[j].seq, {"ACK", "PSH"}, t.txb[j].data)
  \/ t.fin_tx /\ Segment(t, m, t.fin_seq, {"FIN", "ACK"}, << >>)
FewerSlots(t, u) ==
  /\ u.txb \in [0..TXQ-1 -> Slot]
  /\ \A j \in 0..TXQ-1 : u.txb[j].pend =>
       (t.txb[j].pend /\ u.txb[j].seq = t.txb[j].seq /\ u.txb[j].data = t.txb[j].data)
Ranges(t, u) ==
  /\ u.una \in SeqNos /\ u.tail \in 0..TXQ-1 /\ u.used \in BOOLEAN /\ (u.used => t.used)
  /\ u.retries \in 0..MAX_RETRANS+1 /\ u.ka \in 0..KA_CNT+1
  /\ u.used => (u.retries <= MAX_RETRANS /\ u.ka <= KA_CNT)
  /\ (u.fin_pend => t.fin_pend) /\ (t.done => u.done)
Moves(t, u) ==
  \/ u.st = t.st
  \/ ~u.used
  \/ t.st = "SYNRECV" /\ u.st = "ESTAB"
  \/ t.st = "FINW1" /\ u.st = "FINW2"
Mild(x, y) ==
  /\ IsWork(y) /\ Same(x.t, y.t, Mildly) /\ FewerSlots(x.t, y.t) /\ Ranges(x.t, y.t) /\ Moves(x.t, y.t)
  /\ \A m \in y.out : m \in x.out \/ Routine(x.t, m)

LEMMA MildKeepsFields ==
  ASSUME NEW t, NEW u, Same(t, u, Mildly)
  PROVE  /\ DOMAIN u = Fields /\ u.ip = t.ip /\ u.sport = t.sport /\ u.dport = t.dport /\ u.lfd = t.lfd /\ u.iss = t.iss
         /\ u.nxt = t.nxt /\ u.head = t.head /\ u.nagle = t.nagle /\ u.fin_tx = t.fin_tx /\ u.fin_seq = t.fin_seq
         /\ u.rcv = t.rcv /\ u.rx = t.rx /\ u.ooo = t.ooo /\ u.fin_rx = t.fin_rx
BY FieldNames DEF Same, Mildly, Timing

LEMMA RoutineTyped ==
  ASSUME NEW t, BlockType(t), Linked(t), NEW m, Routine(t, m)
  PROVE  SegType(m)
<1>1. m.to = t.ip /\ m.ack = t.rcv /\ t.ip \in Hosts /\ t.rcv \in SeqNos
  BY DEF Routine, Segment, BlockType, Linked
<1>2. m.seq \in SeqNos /\ m.data \in Seq(Nat)
  <2>1. CASE \E q \in SeqNos : Segment(t, m, q, {"ACK"}, << >>)
    BY <2>1 DEF Segment
  <2>2. CASE \E j \in 0..TXQ-1 : t.txb[j].pend /\ Segment(t, m, t.txb[j].seq, {"ACK", "PSH"}, t.txb[j].data)
    BY <2>2 DEF Segment, BlockType, Slot
  <2>3. CASE t.fin_tx /\ Segment(t, m, t.fin_seq, {"FIN", "ACK"}, << >>)
    BY <2>3 DEF Segment, BlockType
  <2> QED BY <2>1, <2>2, <2>3 DEF Routine
<1> QED BY <1>1, <1>2 DEF SegType

LEMMA MildKeepsType ==
  ASSUME NEW x, WorkType(x), Linked(x.t), NEW y, Mild(x, y)
  PROVE  WorkType(y) /\ Linked(y.t)
<1>1. BlockType(y.t) /\ Linked(y.t)
  <2>1. Linked(y.t) /\ DOMAIN y.t = Fields
    BY MildKeepsFields DEF Mild, Linked
  <2>2. /\ y.t.ip = x.t.ip /\ y.t.nxt = x.t.nxt /\ y.t.head = x.t.head /\ y.t.nagle = x.t.nagle /\ y.t.fin_tx = x.t.fin_tx
        /\ y.t.fin_seq = x.t.fin_seq /\ y.t.rcv = x.t.rcv /\ y.t.rx = x.t.rx /\ y.t.ooo = x.t.ooo
    BY MildKeepsFields DEF Mild
  <2>3. BlockType(x.t) /\ x.t.ip # "none" /\ y.t.txb \in [0..TXQ-1 -> Slot]
    BY DEF WorkType, Linked, Mild, FewerSlots
  <2>4. Ranges(x.t, y.t)
    BY DEF Mild
  <2> QED BY <2>1, <2>2, <2>3, <2>4 DEF BlockType, Ranges
<1>2. ASSUME NEW m \in y.out PROVE SegType(m)
  BY <1>2, RoutineTyped DEF Mild, WorkType
<1> QED BY <1>1, <1>2 DEF WorkType, Mild

LEMMA MildTwice ==
  ASSUME NEW x, NEW y, NEW z, Mild(x, y), Mild(y, z)
  PROVE  Mild(x, z)
<1>1. Same(x.t, z.t, Mildly)
  BY DEF Mild, Same
<1>2. FewerSlots(x.t, z.t) /\ Ranges(x.t, z.t)
  BY DEF Mild, FewerSlots, Ranges
<1>3. Moves(x.t, z.t)
  BY DEF Mild, Moves, Ranges
<1>4. ASSUME NEW m, Routine(y.t, m) PROVE Routine(x.t, m)
  <2>1. \A q, fl, d : Segment(y.t, m, q, fl, d) => Segment(x.t, m, q, fl, d)
    BY MildKeepsFields DEF Mild, Segment
  <2>2. y.t.fin_tx = x.t.fin_tx /\ y.t.fin_seq = x.t.fin_seq
    BY MildKeepsFields DEF Mild
  <2>3. CASE \E q \in SeqNos : Segment(y.t, m, q, {"ACK"}, << >>)
    BY <2>1, <2>3 DEF Routine
  <2>4. CASE \E j \in 0..TXQ-1 : y.t.txb[j].pend /\ Segment(y.t, m, y.t.txb[j].seq, {"ACK", "PSH"}, y.t.txb[j].data)
    BY <2>1, <2>4 DEF Routine, Mild, FewerSlots
  <2>5. CASE y.t.fin_tx /\ Segment(y.t, m, y.t.fin_seq, {"FIN", "ACK"}, << >>)
    BY <2>1, <2>2, <2>5 DEF Routine
  <2> QED BY <1>4, <2>3, <2>4, <2>5 DEF Routine
<1> QED BY <1>1, <1>2, <1>3, <1>4 DEF Mild

LEMMA MildNone ==
  ASSUME NEW x, WorkType(x)
  PROVE  Mild(x, x)
BY DEF WorkType, BlockType, Mild, Same, FewerSlots, Ranges, Moves, IsWork

----------------------------------------------------------------------------
(* The mild operators. *)
LEMMA TimingIsMild ==
  ASSUME NEW x, WorkType(x), NEW y, IsWork(y), Same(x.t, y.t, Timing),
         \A m \in y.out : m \in x.out \/ Routine(x.t, m)
  PROVE  Mild(x, y)
<1>1. Same(x.t, y.t, Mildly)
  BY DEF Same, Mildly
<1>2. y.t.txb = x.t.txb /\ y.t.una = x.t.una /\ y.t.tail = x.t.tail /\ y.t.used = x.t.used /\ y.t.st = x.t.st
      /\ y.t.retries = x.t.retries /\ y.t.ka = x.t.ka /\ y.t.fin_pend = x.t.fin_pend /\ y.t.done = x.t.done
  BY FieldNames DEF Same, Timing
<1>3. FewerSlots(x.t, y.t) /\ Ranges(x.t, y.t) /\ Moves(x.t, y.t)
  BY <1>2 DEF FewerSlots, Ranges, Moves, WorkType, BlockType
<1> QED BY <1>1, <1>3 DEF Mild

LEMMA AckNowMild == ASSUME NEW x, WorkType(x) PROVE Mild(x, tcp_ack_now(x))
<1> DEFINE y == tcp_ack_now(x)
<1>1. IsWork(x) /\ x.t.nxt \in SeqNos
  BY DEF WorkType, BlockType
<1>2. IsWork(y) /\ Same(x.t, y.t, Timing)
  BY <1>1, AckNowDoes
<1>3. \A m \in y.out : m \in x.out \/ Routine(x.t, m)
  BY <1>1, AckNowDoes DEF Routine
<1> QED BY <1>2, <1>3, TimingIsMild

LEMMA AckDelayedMild == ASSUME NEW x, WorkType(x) PROVE Mild(x, ack_delayed(x))
<1> DEFINE y == ack_delayed(x)
<1>1. IsWork(x) /\ x.t.nxt \in SeqNos
  BY DEF WorkType, BlockType
<1>2. IsWork(y) /\ Same(x.t, y.t, Timing)
  BY <1>1, AckDelayedDoes
<1>3. \A m \in y.out : m \in x.out \/ Routine(x.t, m)
  BY <1>1, AckDelayedDoes DEF Routine
<1> QED BY <1>2, <1>3, TimingIsMild

LEMMA BackoffMild == ASSUME NEW x, WorkType(x) PROVE Mild(x, rto_backoff(x))
BY BackoffDoes, TimingIsMild DEF WorkType

LEMMA CwndMild == ASSUME NEW x, WorkType(x) PROVE Mild(x, cwnd_ack(x))
BY CwndDoes, TimingIsMild DEF WorkType

LEMMA ResendMild ==
  ASSUME NEW x, WorkType(x), NEW j \in 0..TXQ-1, x.t.txb[j].pend
  PROVE  Mild(x, Resend(x, j))
<1> DEFINE y == Resend(x, j)
<1>1. IsWork(y) /\ y.t = x.t
  BY ResendDoes DEF WorkType
<1>2. \A m \in y.out : m \in x.out \/ Routine(x.t, m)
  BY ResendDoes DEF WorkType, Routine
<1>3. Same(x.t, y.t, Timing)
  BY <1>1 DEF Same, WorkType, IsWork
<1> QED BY <1>1, <1>2, <1>3, TimingIsMild

LEMMA SendFinMild ==
  ASSUME NEW x, WorkType(x), x.t.fin_tx
  PROVE  Mild(x, SendFin(x))
<1> DEFINE y == SendFin(x)
<1>1. IsWork(y) /\ y.t = x.t
  BY SendFinDoes DEF WorkType
<1>2. \A m \in y.out : m \in x.out \/ Routine(x.t, m)
  BY SendFinDoes DEF WorkType, Routine
<1>3. Same(x.t, y.t, Timing)
  BY <1>1 DEF Same, WorkType, IsWork
<1> QED BY <1>1, <1>2, <1>3, TimingIsMild

(* A step that leaves the slots alone and sends nothing. *)
LEMMA SilentMild ==
  ASSUME NEW x, WorkType(x), NEW y, IsWork(y), y.out = x.out, Same(x.t, y.t, Mildly \ {"txb"}),
         Ranges(x.t, y.t), Moves(x.t, y.t)
  PROVE  Mild(x, y)
<1>1. Same(x.t, y.t, Mildly)
  BY DEF Same
<1>2. y.t.txb = x.t.txb
  BY FieldNames DEF Same
<1>3. FewerSlots(x.t, y.t)
  BY <1>2 DEF FewerSlots, WorkType, BlockType
<1> QED BY <1>1, <1>3 DEF Mild

LEMMA AbortMild ==
  ASSUME NEW x, WorkType(x)
  PROVE  Mild(x, tcp_abort(x))
<1> DEFINE y == tcp_abort(x)
<1>1. IsWork(y) /\ Same(x.t, y.t, {"err", "done", "ok", "used", "st"}) /\ y.out = x.out
      /\ y.t.used = FALSE /\ y.t.done = TRUE
  <2>1. IsWork(y) /\ y.t.used = FALSE /\ y.t.done = TRUE
    BY FieldNames DEF tcp_abort, IsWork, WorkType
  <2> QED BY <2>1, AbortDoes DEF WorkType
<1> HIDE DEF y
<1>2. Same(x.t, y.t, Mildly \ {"txb"})
  BY <1>1 DEF Same, Mildly
<1>3. y.t.una = x.t.una /\ y.t.tail = x.t.tail /\ y.t.retries = x.t.retries /\ y.t.ka = x.t.ka /\ y.t.fin_pend = x.t.fin_pend
  BY <1>1, FieldNames DEF Same
<1>4. Ranges(x.t, y.t) /\ Moves(x.t, y.t)
  BY <1>1, <1>3 DEF Ranges, Moves, WorkType, BlockType
<1> QED BY <1>1, <1>2, <1>4, SilentMild DEF y

LEMMA SackMild ==
  ASSUME NEW x, WorkType(x), NEW blocks
  PROVE  Mild(x, sack_apply(x, blocks))
<1> DEFINE y == sack_apply(x, blocks)
<1>1. /\ IsWork(y) /\ Same(x.t, y.t, {"txb"}) /\ y.out = x.out /\ DOMAIN y.t.txb = 0..TXQ-1
      /\ \A j \in 0..TXQ-1 : y.t.txb[j] = x.t.txb[j] \/ y.t.txb[j] = [x.t.txb[j] EXCEPT !.sacked = TRUE]
  BY SackDoes DEF WorkType
<1>2. y.t.txb = [j \in 0..TXQ-1 |-> y.t.txb[j]]
  BY <1>1, FieldNames DEF sack_apply, WorkType, IsWork
<1> HIDE DEF y
<1>3. Same(x.t, y.t, Mildly)
  BY <1>1 DEF Same, Mildly
<1>4. ASSUME NEW s \in Slot
      PROVE  LET u == [s EXCEPT !.sacked = TRUE] IN u \in Slot /\ u.pend = s.pend /\ u.seq = s.seq /\ u.data = s.data
  BY DEF Slot
<1>5. \A j \in 0..TXQ-1 : x.t.txb[j] \in Slot
  BY DEF WorkType, BlockType
<1>6. FewerSlots(x.t, y.t)
  <2>1. \A j \in 0..TXQ-1 : y.t.txb[j] \in Slot
    BY <1>1, <1>4, <1>5
  <2>2. y.t.txb \in [0..TXQ-1 -> Slot]
    BY <1>2, <2>1
  <2>3. \A j \in 0..TXQ-1 : y.t.txb[j].pend = x.t.txb[j].pend /\ y.t.txb[j].seq = x.t.txb[j].seq /\ y.t.txb[j].data = x.t.txb[j].data
    BY <1>1, <1>4, <1>5
  <2> QED BY <2>2, <2>3 DEF FewerSlots
<1>7. y.t.una = x.t.una /\ y.t.tail = x.t.tail /\ y.t.used = x.t.used /\ y.t.st = x.t.st
      /\ y.t.retries = x.t.retries /\ y.t.ka = x.t.ka /\ y.t.fin_pend = x.t.fin_pend /\ y.t.done = x.t.done
  BY <1>1, FieldNames DEF Same
<1>8. Ranges(x.t, y.t) /\ Moves(x.t, y.t)
  BY <1>7 DEF Ranges, Moves, WorkType, BlockType
<1> QED BY <1>1, <1>3, <1>6, <1>8 DEF Mild, y

LEMMA AckSlotsMild ==
  ASSUME NEW x, WorkType(x), NEW ack
  PROVE  Mild(x, ack_slots(x, ack))
<1> DEFINE y == ack_slots(x, ack)
<1>1. x.t.tail \in 0..TXQ-1 /\ IsWork(x)
  BY DEF WorkType, BlockType
<1>2. /\ IsWork(y) /\ Same(x.t, y.t, {"tail", "txb"}) /\ y.out = x.out
      /\ \E n \in 0..TXQ :
           /\ Released(x.t, ack, n)
           /\ y.t.tail = (x.t.tail + n) % TXQ
           /\ y.t.txb = [j \in 0..TXQ-1 |-> IF \E i \in 0..n-1 : j = (x.t.tail + i) % TXQ
                                            THEN NoSlot ELSE x.t.txb[j]]
  BY <1>1, AckSlotsDoes, Zenon
<1> HIDE DEF y
<1>3. PICK n \in 0..TXQ :
           /\ y.t.tail = (x.t.tail + n) % TXQ
           /\ y.t.txb = [j \in 0..TXQ-1 |-> IF \E i \in 0..n-1 : j = (x.t.tail + i) % TXQ
                                            THEN NoSlot ELSE x.t.txb[j]]
  BY <1>2
<1>4. Same(x.t, y.t, Mildly)
  BY <1>2 DEF Same, Mildly
<1>5. NoSlot \in Slot /\ NoSlot.pend = FALSE
  BY Sizes DEF NoSlot, Slot, SeqNos
<1>6. \A j \in 0..TXQ-1 : x.t.txb[j] \in Slot
  BY DEF WorkType, BlockType
<1>7. FewerSlots(x.t, y.t)
  BY <1>3, <1>5, <1>6 DEF FewerSlots
<1>8. y.t.una = x.t.una /\ y.t.used = x.t.used /\ y.t.st = x.t.st
      /\ y.t.retries = x.t.retries /\ y.t.ka = x.t.ka /\ y.t.fin_pend = x.t.fin_pend /\ y.t.done = x.t.done
  BY <1>2, FieldNames DEF Same
<1>9. y.t.tail \in 0..TXQ-1
  BY <1>1, <1>3, SlotIndex
<1>10. Ranges(x.t, y.t) /\ Moves(x.t, y.t)
  BY <1>8, <1>9 DEF Ranges, Moves, WorkType, BlockType
<1> QED BY <1>2, <1>4, <1>7, <1>10 DEF Mild, y

LEMMA FastRecoveryMild ==
  ASSUME NEW x, WorkType(x)
  PROVE  Mild(x, fast_recovery(x))
<1> DEFINE y == fast_recovery(x)
<1>1. x.t.tail \in 0..TXQ-1 /\ IsWork(x) /\ x.t.retries \in 0..MAX_RETRANS+1
  BY DEF WorkType, BlockType
<1>2. IsWork(y) /\ Same(x.t, y.t, Timing \cup {"retries"}) /\ y.t.retries \in {0, x.t.retries}
  BY <1>1, FastRecoveryDoes
<1>3. \A m \in y.out : m \in x.out \/ Routine(x.t, m)
  BY <1>1, FastRecoveryDoes DEF Routine
<1> HIDE DEF y
<1>4. Same(x.t, y.t, Mildly)
  BY <1>2 DEF Same, Mildly
<1>5. y.t.txb = x.t.txb /\ y.t.una = x.t.una /\ y.t.tail = x.t.tail /\ y.t.used = x.t.used /\ y.t.st = x.t.st
      /\ y.t.ka = x.t.ka /\ y.t.fin_pend = x.t.fin_pend /\ y.t.done = x.t.done
  BY <1>2, FieldNames DEF Same, Timing
<1>6. y.t.retries \in 0..MAX_RETRANS+1 /\ (x.t.used => y.t.retries <= MAX_RETRANS)
  <2>1. x.t.used => x.t.retries <= MAX_RETRANS
    BY DEF WorkType, BlockType
  <2>2. CASE y.t.retries = 0
    BY <2>2, Sizes
  <2>3. CASE y.t.retries = x.t.retries
    BY <1>1, <2>1, <2>3
  <2> QED BY <1>2, <2>2, <2>3
<1>7. FewerSlots(x.t, y.t) /\ Ranges(x.t, y.t) /\ Moves(x.t, y.t)
  BY <1>5, <1>6 DEF FewerSlots, Ranges, Moves, WorkType, BlockType
<1> QED BY <1>2, <1>3, <1>4, <1>7 DEF Mild, y

LEMMA CountRetry ==
  ASSUME NEW x, WorkType(x), x.t.used
  PROVE  LET w == [x EXCEPT !.t.retries = @ + 1]
         IN /\ IsWork(w) /\ w.out = x.out /\ Same(x.t, w.t, {"retries"}) /\ w.t.retries = x.t.retries + 1
            /\ w.t.retries > MAX_RETRANS => Mild(x, tcp_abort(w))
            /\ ~(w.t.retries > MAX_RETRANS) => Mild(x, w)
<1> DEFINE w == [x EXCEPT !.t.retries = @ + 1]
           y == tcp_abort(w)
<1>1. IsWork(x) /\ x.t.retries \in 0..MAX_RETRANS
  BY Sizes DEF WorkType, BlockType
<1>2. IsWork(w) /\ w.out = x.out /\ w.t.retries = x.t.retries + 1
  BY <1>1, FieldNames DEF IsWork
<1>3. Same(x.t, w.t, {"retries"})
  BY <1>1, FieldNames DEF IsWork, Same
<1> HIDE DEF w
<1>4. IsWork(y) /\ Same(w.t, y.t, {"err", "done", "ok", "used", "st"}) /\ y.out = w.out
  BY <1>2, AbortDoes
<1>5. y.t.used = FALSE /\ y.t.done = TRUE
  BY <1>2, FieldNames DEF tcp_abort, IsWork
<1> HIDE DEF y
<1>6. Same(x.t, y.t, Mildly \ {"txb"}) /\ y.t.retries = x.t.retries + 1
  BY <1>2, <1>3, <1>4, FieldNames DEF Same, Mildly
<1>7. y.t.una = x.t.una /\ y.t.tail = x.t.tail /\ y.t.ka = x.t.ka /\ y.t.fin_pend = x.t.fin_pend
  BY <1>3, <1>4, FieldNames DEF Same
<1>8. Ranges(x.t, y.t) /\ Moves(x.t, y.t)
  <2>1. y.t.retries \in 0..MAX_RETRANS+1
    BY <1>1, <1>6, Sizes
  <2> QED BY <1>5, <1>7, <2>1 DEF Ranges, Moves, WorkType, BlockType
<1>9. Mild(x, y)
  BY <1>2, <1>4, <1>6, <1>8, SilentMild
<1>10. ASSUME ~(w.t.retries > MAX_RETRANS) PROVE Mild(x, w)
  <2>1. Same(x.t, w.t, Mildly \ {"txb"})
    BY <1>3 DEF Same, Mildly
  <2>2. w.t.una = x.t.una /\ w.t.tail = x.t.tail /\ w.t.ka = x.t.ka /\ w.t.fin_pend = x.t.fin_pend /\ w.t.done = x.t.done
        /\ w.t.used = x.t.used /\ w.t.st = x.t.st
    BY <1>3, FieldNames DEF Same
  <2>3. w.t.retries \in 0..MAX_RETRANS+1 /\ w.t.retries <= MAX_RETRANS
    BY <1>1, <1>2, <1>10, Sizes
  <2>4. Ranges(x.t, w.t) /\ Moves(x.t, w.t)
    BY <2>2, <2>3 DEF Ranges, Moves, WorkType, BlockType
  <2> QED BY <1>2, <2>1, <2>4, SilentMild
<1> QED BY <1>2, <1>3, <1>9, <1>10 DEF w, y

LEMMA PollAckMild == ASSUME NEW x, WorkType(x) PROVE Mild(x, PollAck(x))
BY AckNowMild, MildNone, Zenon DEF PollAck

LEMMA PollFinMild == ASSUME NEW x, WorkType(x), Linked(x.t), x.t.used PROVE Mild(x, PollFin(x))
<1> DEFINE w == [x EXCEPT !.t.retries = @ + 1]
<1>1. PollFin(x) = IF ~x.t.fin_pend THEN x ELSE IF x.t.retries + 1 > MAX_RETRANS THEN tcp_abort(w) ELSE SendFin(w)
  BY Zenon DEF PollFin
<1>2. /\ IsWork(w) /\ w.out = x.out /\ Same(x.t, w.t, {"retries"}) /\ w.t.retries = x.t.retries + 1
      /\ w.t.retries > MAX_RETRANS => Mild(x, tcp_abort(w))
      /\ ~(w.t.retries > MAX_RETRANS) => Mild(x, w)
  BY CountRetry
<1> HIDE DEF w
<1>3. CASE ~x.t.fin_pend
  BY <1>1, <1>3, MildNone
<1>4. CASE x.t.fin_pend /\ x.t.retries + 1 > MAX_RETRANS
  BY <1>1, <1>2, <1>4
<1>5. CASE x.t.fin_pend /\ ~(x.t.retries + 1 > MAX_RETRANS)
  <2>1. Mild(x, w)
    BY <1>2, <1>5
  <2>2. WorkType(w)
    BY <2>1, MildKeepsType
  <2>3. w.t.fin_tx
    BY <1>2, <1>5, FieldNames DEF Same, WorkType, BlockType
  <2> QED BY <1>1, <1>5, <2>1, <2>2, <2>3, SendFinMild, MildTwice
<1> QED BY <1>3, <1>4, <1>5

LEMMA PollRtoMild == ASSUME NEW x, WorkType(x), Linked(x.t), x.t.used PROVE Mild(x, PollRto(x))
<1> DEFINE j == ts_pick(x.t)
           w == [x EXCEPT !.t.retries = @ + 1]
           b == rto_backoff(Resend(w, j))
           z == [b EXCEPT !.t.fr = FALSE, !.t.dupacks = 0, !.t.lt = 0]
<1>1. PollRto(x) = IF j < 0 \/ x.t.una # x.t.txb[j].seq THEN x
                   ELSE IF w.t.retries > MAX_RETRANS THEN tcp_abort(w) ELSE z
  BY Zenon DEF PollRto
<1>2. /\ IsWork(w) /\ w.out = x.out /\ Same(x.t, w.t, {"retries"}) /\ w.t.retries = x.t.retries + 1
      /\ w.t.retries > MAX_RETRANS => Mild(x, tcp_abort(w))
      /\ ~(w.t.retries > MAX_RETRANS) => Mild(x, w)
  BY CountRetry
<1>3. j = -1 \/ (j \in 0..TXQ-1 /\ x.t.txb[j].pend)
  BY PickIsPending DEF WorkType, BlockType
<1> HIDE DEF w, j
<1>4. CASE j < 0 \/ x.t.una # x.t.txb[j].seq
  BY <1>1, <1>4, MildNone
<1>5. CASE ~(j < 0 \/ x.t.una # x.t.txb[j].seq) /\ w.t.retries > MAX_RETRANS
  BY <1>1, <1>2, <1>5
<1>6. CASE ~(j < 0 \/ x.t.una # x.t.txb[j].seq) /\ ~(w.t.retries > MAX_RETRANS)
  <2>1. Mild(x, w) /\ WorkType(w) /\ Linked(w.t)
    BY <1>2, <1>6, MildKeepsType
  <2>2. w.t.txb = x.t.txb
    BY <1>2, FieldNames DEF Same
  <2>3. j \in 0..TXQ-1 /\ w.t.txb[j].pend
    BY <1>3, <1>6, <2>2
  <2> DEFINE r == Resend(w, j)
  <2>4. Mild(w, r)
    BY <2>1, <2>3, ResendMild
  <2>5. Mild(x, r) /\ WorkType(r) /\ Linked(r.t)
    BY <2>1, <2>4, MildTwice, MildKeepsType
  <2>6. Mild(r, b)
    BY <2>5, BackoffMild
  <2>7. Mild(x, b) /\ WorkType(b)
    BY <2>5, <2>6, MildTwice, MildKeepsType
  <2> HIDE DEF b
  <2>8. IsWork(z) /\ z.out = b.out
    BY <2>7, FieldNames DEF WorkType, IsWork
  <2>9. Same(b.t, z.t, Timing)
    BY <2>7, FieldNames DEF WorkType, IsWork, Same, Timing
  <2>10. Mild(b, z)
    BY <2>7, <2>8, <2>9, TimingIsMild
  <2> QED BY <1>1, <1>6, <2>7, <2>10, MildTwice
<1> QED BY <1>4, <1>5, <1>6

LEMMA PollKeepaliveMild == ASSUME NEW x, WorkType(x), Linked(x.t), x.t.used PROVE Mild(x, PollKeepalive(x))
<1> DEFINE y == [x EXCEPT !.t.ka = @ + 1]
           z == [x EXCEPT !.t.ka = 0]
           a == tcp_abort(y)
           e == tcp_emit(y, Sub(x.t.una, 1), {"ACK"}, << >>, FALSE)
<1>1. PollKeepalive(x) =
        IF x.t.ka > 0 /\ x.t.una # x.t.nxt THEN z
        ELSE IF x.t.una # x.t.nxt THEN x
        ELSE IF y.t.ka > KA_CNT /\ x.t.ka > 0 THEN a ELSE e
  BY Zenon DEF PollKeepalive
<1>2. IsWork(x) /\ x.t.ka \in 0..KA_CNT /\ x.t.una \in SeqNos /\ x.t.used = TRUE
  BY Sizes DEF WorkType, BlockType
<1>3. IsWork(y) /\ y.out = x.out /\ y.t.ka = x.t.ka + 1 /\ IsWork(z) /\ z.out = x.out /\ z.t.ka = 0
  BY <1>2, FieldNames DEF IsWork
<1>4. Same(x.t, y.t, {"ka"}) /\ Same(x.t, z.t, {"ka"})
  BY <1>2, FieldNames DEF IsWork, Same
<1> HIDE DEF y, z
<1>5. Mild(x, z)
  <2>1. Same(x.t, z.t, Mildly \ {"txb"})
    BY <1>4 DEF Same, Mildly
  <2>2. z.t.una = x.t.una /\ z.t.tail = x.t.tail /\ z.t.retries = x.t.retries /\ z.t.fin_pend = x.t.fin_pend /\ z.t.done = x.t.done
        /\ z.t.used = x.t.used /\ z.t.st = x.t.st
    BY <1>4, FieldNames DEF Same
  <2>3. z.t.ka \in 0..KA_CNT+1 /\ z.t.ka <= KA_CNT
    BY <1>3, Sizes
  <2>4. Ranges(x.t, z.t) /\ Moves(x.t, z.t)
    BY <2>2, <2>3 DEF Ranges, Moves, WorkType, BlockType
  <2> QED BY <1>3, <2>1, <2>4, SilentMild
<1>6. Mild(x, a)
  <2>1. IsWork(a) /\ Same(y.t, a.t, {"err", "done", "ok", "used", "st"}) /\ a.out = y.out
    BY <1>3, AbortDoes
  <2>2. a.t.used = FALSE /\ a.t.done = TRUE
    BY <1>3, FieldNames DEF tcp_abort, IsWork
  <2> HIDE DEF a
  <2>3. Same(x.t, a.t, Mildly \ {"txb"}) /\ a.t.ka = x.t.ka + 1
    BY <1>3, <1>4, <2>1, FieldNames DEF Same, Mildly
  <2>4. a.t.una = x.t.una /\ a.t.tail = x.t.tail /\ a.t.retries = x.t.retries /\ a.t.fin_pend = x.t.fin_pend
    BY <1>4, <2>1, FieldNames DEF Same
  <2>5. Ranges(x.t, a.t) /\ Moves(x.t, a.t)
    <3>1. a.t.ka \in 0..KA_CNT+1
      BY <1>2, <2>3, Sizes
    <3> QED BY <2>2, <2>4, <3>1 DEF Ranges, Moves, WorkType, BlockType
  <2> QED BY <1>3, <2>1, <2>3, <2>5, SilentMild
<1>7. ASSUME ~(y.t.ka > KA_CNT /\ x.t.ka > 0) PROVE Mild(x, e)
  <2>1. y.t.ka \in 0..KA_CNT
    BY <1>2, <1>3, <1>7, Sizes
  <2>2. Same(x.t, y.t, Mildly \ {"txb"})
    BY <1>4 DEF Same, Mildly
  <2>3. y.t.una = x.t.una /\ y.t.tail = x.t.tail /\ y.t.retries = x.t.retries /\ y.t.fin_pend = x.t.fin_pend /\ y.t.done = x.t.done
        /\ y.t.used = x.t.used /\ y.t.st = x.t.st
    BY <1>4, FieldNames DEF Same
  <2>4. Ranges(x.t, y.t) /\ Moves(x.t, y.t)
    BY <2>1, <2>3, Sizes DEF Ranges, Moves, WorkType, BlockType
  <2>5. Mild(x, y)
    BY <1>3, <2>2, <2>4, SilentMild
  <2>6. WorkType(y)
    BY <2>5, MildKeepsType
  <2>7. Sub(x.t.una, 1) \in SeqNos
    BY <1>2, Sizes DEF Sub, SeqNos
  <2>8. IsWork(e) /\ e.t = y.t /\ \A m \in e.out : m \in y.out \/ Routine(y.t, m)
    BY <1>3, <2>7, EmitDoes DEF Routine
  <2>9. Same(y.t, e.t, Timing)
    BY <2>8 DEF Same, IsWork
  <2>10. Mild(y, e)
    BY <2>6, <2>8, <2>9, TimingIsMild
  <2> QED BY <2>5, <2>10, MildTwice
<1> QED BY <1>1, <1>5, <1>6, <1>7, MildNone

(* What is left of the ranges when only some of the fields change. *)
LEMMA RangesFrom ==
  ASSUME NEW t, BlockType(t), NEW u, u.tail = t.tail, u.used = t.used, u.fin_pend = t.fin_pend \/ u.fin_pend = FALSE,
         u.una \in SeqNos, u.retries \in {0, t.retries}, u.ka \in {0, t.ka}, t.done => u.done
  PROVE  Ranges(t, u)
<1>1. t.retries \in 0..MAX_RETRANS+1 /\ t.ka \in 0..KA_CNT+1
      /\ (t.used => t.retries <= MAX_RETRANS /\ t.ka <= KA_CNT)
  BY DEF BlockType
<1>2. u.retries \in 0..MAX_RETRANS+1 /\ (t.used => u.retries <= MAX_RETRANS)
  <2>1. CASE u.retries = 0
    BY <2>1, Sizes
  <2>2. CASE u.retries = t.retries
    BY <1>1, <2>2
  <2> QED BY <2>1, <2>2
<1>3. u.ka \in 0..KA_CNT+1 /\ (t.used => u.ka <= KA_CNT)
  <2>1. CASE u.ka = 0
    BY <2>1, Sizes
  <2>2. CASE u.ka = t.ka
    BY <1>1, <2>2
  <2> QED BY <2>1, <2>2
<1> QED BY <1>2, <1>3 DEF Ranges, BlockType

LEMMA DupAckMild == ASSUME NEW x, WorkType(x), Linked(x.t) PROVE Mild(x, DupAck(x))
<1> DEFINE d == Min({x.t.dupacks + 1, DupCap})
           y == [x EXCEPT !.t.dupacks = d]
           k == [x EXCEPT !.t.ka = 0]
           c == [y EXCEPT !.t.cwnd = Min({CwndCap, @ + MSS})]
           l == [y EXCEPT !.t.lt = 2]
<1>1. DupAck(x) \in {k, fast_recovery(y), c, l}
  BY Zenon DEF DupAck
<1>2. IsWork(x)
  BY DEF WorkType
<1> HIDE DEF d
<1>3. IsWork(y) /\ y.out = x.out /\ IsWork(k) /\ k.out = x.out
  BY <1>2, FieldNames DEF IsWork
<1>4. Same(x.t, y.t, Timing) /\ Same(x.t, k.t, {"ka"}) /\ k.t.ka = 0
  BY <1>2, FieldNames DEF IsWork, Same, Timing
<1> HIDE DEF y, k
<1>5. Mild(x, y) /\ WorkType(y)
  BY <1>3, <1>4, TimingIsMild, MildKeepsType
<1>6. IsWork(c) /\ c.out = y.out /\ IsWork(l) /\ l.out = y.out
  BY <1>3, FieldNames DEF IsWork
<1>7. Same(y.t, c.t, Timing) /\ Same(y.t, l.t, Timing)
  BY <1>3, FieldNames DEF IsWork, Same, Timing
<1> HIDE DEF c, l
<1>8. Mild(x, c) /\ Mild(x, l)
  BY <1>5, <1>6, <1>7, TimingIsMild, MildTwice
<1>9. Mild(x, fast_recovery(y))
  BY <1>5, FastRecoveryMild, MildTwice
<1>10. Mild(x, k)
  <2>1. Same(x.t, k.t, Mildly \ {"txb"})
    BY <1>4 DEF Same, Mildly
  <2>2. k.t.una = x.t.una /\ k.t.tail = x.t.tail /\ k.t.retries = x.t.retries /\ k.t.fin_pend = x.t.fin_pend /\ k.t.done = x.t.done
        /\ k.t.used = x.t.used /\ k.t.st = x.t.st
    BY <1>4, FieldNames DEF Same
  <2>3. BlockType(x.t) /\ x.t.una \in SeqNos
    BY DEF WorkType, BlockType
  <2>4. Ranges(x.t, k.t) /\ Moves(x.t, k.t)
    BY <1>4, <2>2, <2>3, RangesFrom DEF Moves
  <2> QED BY <1>3, <2>1, <2>4, SilentMild
<1> QED BY <1>1, <1>8, <1>9, <1>10

LEMMA NewAckMild ==
  ASSUME NEW x, WorkType(x), Linked(x.t), NEW ack \in SeqNos
  PROVE  \E z : Mild(x, z) /\ NewAck(x, ack) = nagle_flush(z)
<1> DEFINE a == ack_slots(x, ack)
           y == [a EXCEPT !.t.ka = 0, !.t.una = ack, !.t.dupacks = 0, !.t.retries = 0, !.t.lt = 0]
           r == [y EXCEPT !.t.cwnd = y.t.ssthresh, !.t.fr = ack < y.t.recover]
           z == IF y.t.fr THEN r ELSE cwnd_ack(y)
           finAcked == z.t.fin_tx /\ ack >= Add(z.t.fin_seq, 1)
           u == [z EXCEPT !.t.st = "FINW2", !.t.fin_pend = FALSE]
           v == [z EXCEPT !.t.st = "CLOSED", !.t.used = FALSE, !.t.fin_pend = FALSE]
           w == CASE finAcked /\ z.t.st = "FINW1" -> u [] finAcked /\ z.t.st = "LASTACK" -> v [] OTHER -> z
<1>1. NewAck(x, ack) = nagle_flush(w)
  BY ZenonT(60) DEF NewAck
<1>2. w = z \/ (z.t.st = "FINW1" /\ w = u) \/ w = v
  <2> HIDE DEF z, u, v, finAcked
  <2> QED OBVIOUS
<1> HIDE DEF finAcked, w
<1>3. Mild(x, a) /\ WorkType(a) /\ Linked(a.t) /\ IsWork(a)
  BY AckSlotsMild, MildKeepsType DEF Mild
<1> HIDE DEF a
<1>4. IsWork(y) /\ y.out = a.out
  BY <1>3, FieldNames DEF IsWork
<1>5. Same(a.t, y.t, Timing \cup {"ka", "una", "retries"})
  BY <1>3, FieldNames DEF IsWork, Same, Timing
<1>6. y.t.una = ack /\ y.t.retries = 0 /\ y.t.ka = 0
  BY <1>3, FieldNames DEF IsWork
<1> HIDE DEF y
<1>7. Mild(x, y) /\ WorkType(y) /\ Linked(y.t)
  <2>1. Same(a.t, y.t, Mildly \ {"txb"})
    BY <1>5 DEF Same, Mildly, Timing
  <2>2. y.t.tail = a.t.tail /\ y.t.fin_pend = a.t.fin_pend /\ y.t.done = a.t.done /\ y.t.used = a.t.used /\ y.t.st = a.t.st
    BY <1>5, FieldNames DEF Same, Timing
  <2>3. Ranges(a.t, y.t) /\ Moves(a.t, y.t)
    BY <1>3, <1>6, <2>2, RangesFrom DEF Moves, WorkType
  <2>4. Mild(a, y)
    BY <1>3, <1>4, <2>1, <2>3, SilentMild
  <2> QED BY <1>3, <2>4, MildTwice, MildKeepsType
<1>8. Mild(x, z) /\ WorkType(z)
  <2>1. IsWork(r) /\ r.out = y.out
    BY <1>4, FieldNames DEF IsWork
  <2>2. Same(y.t, r.t, Timing)
    BY <1>4, FieldNames DEF IsWork, Same, Timing
  <2> HIDE DEF r
  <2>3. Mild(y, r)
    BY <1>7, <2>1, <2>2, TimingIsMild
  <2>4. Mild(y, z)
    BY <1>7, <2>3, CwndMild
  <2> QED BY <1>7, <2>4, MildTwice, MildKeepsType
<1> HIDE DEF z
<1>9. IsWork(z) /\ z.t.una \in SeqNos /\ BlockType(z.t)
  BY <1>8 DEF WorkType, BlockType
<1>10. IsWork(u) /\ u.out = z.out /\ IsWork(v) /\ v.out = z.out
  BY <1>9, FieldNames DEF IsWork
<1>11. Same(z.t, u.t, {"st", "fin_pend"}) /\ u.t.st = "FINW2" /\ u.t.fin_pend = FALSE
  BY <1>9, FieldNames DEF IsWork, Same
<1>12. Same(z.t, v.t, {"st", "fin_pend", "used"}) /\ v.t.used = FALSE /\ v.t.fin_pend = FALSE
  BY <1>9, FieldNames DEF IsWork, Same
<1> HIDE DEF u, v
<1>13. ASSUME z.t.st = "FINW1" PROVE Mild(z, u)
  <2>1. Same(z.t, u.t, Mildly \ {"txb"})
    BY <1>11 DEF Same, Mildly
  <2>2. u.t.una = z.t.una /\ u.t.tail = z.t.tail /\ u.t.retries = z.t.retries /\ u.t.ka = z.t.ka /\ u.t.used = z.t.used
        /\ u.t.done = z.t.done
    BY <1>11, FieldNames DEF Same
  <2>3. Ranges(z.t, u.t) /\ Moves(z.t, u.t)
    BY <1>9, <1>11, <1>13, <2>2, RangesFrom DEF Moves
  <2> QED BY <1>8, <1>10, <2>1, <2>3, SilentMild
<1>14. Mild(z, v)
  <2>1. Same(z.t, v.t, Mildly \ {"txb"})
    BY <1>12 DEF Same, Mildly
  <2>2. v.t.una = z.t.una /\ v.t.tail = z.t.tail /\ v.t.retries = z.t.retries /\ v.t.ka = z.t.ka /\ v.t.done = z.t.done
    BY <1>12, FieldNames DEF Same
  <2>3. Ranges(z.t, v.t) /\ Moves(z.t, v.t)
    BY <1>9, <1>12, <2>2 DEF Moves, Ranges, BlockType
  <2> QED BY <1>8, <1>10, <2>1, <2>3, SilentMild
<1>15. Mild(x, w)
  BY <1>2, <1>8, <1>13, <1>14, MildTwice
<1> QED BY <1>1, <1>15

LEMMA HandleAckMild ==
  ASSUME NEW x, WorkType(x), Linked(x.t), NEW m, SegType(m)
  PROVE  \E z : Mild(x, z) /\ (HandleAck(x, m) = z \/ HandleAck(x, m) = nagle_flush(z))
<1> DEFINE w == [x EXCEPT !.t.wnd = m.wnd]
           y == sack_apply(w, m.sack)
<1>1. HandleAck(x, m) \in {x, NewAck(y, m.ack), DupAck(y), y}
  BY Zenon DEF HandleAck
<1>2. IsWork(x) /\ BlockType(x.t) /\ x.t.una \in SeqNos
  BY DEF WorkType, BlockType
<1>3. IsWork(w) /\ w.out = x.out
  BY <1>2, FieldNames DEF IsWork
<1>4. Same(x.t, w.t, {"wnd"})
  BY <1>2, FieldNames DEF IsWork, Same
<1> HIDE DEF w
<1>5. Mild(x, w) /\ WorkType(w) /\ Linked(w.t)
  <2>1. Same(x.t, w.t, Mildly \ {"txb"})
    BY <1>4 DEF Same, Mildly
  <2>2. w.t.una = x.t.una /\ w.t.tail = x.t.tail /\ w.t.retries = x.t.retries /\ w.t.ka = x.t.ka
        /\ w.t.fin_pend = x.t.fin_pend /\ w.t.done = x.t.done /\ w.t.used = x.t.used /\ w.t.st = x.t.st
    BY <1>4, FieldNames DEF Same
  <2>3. Ranges(x.t, w.t) /\ Moves(x.t, w.t)
    BY <1>2, <2>2, RangesFrom DEF Moves
  <2>4. Mild(x, w)
    BY <1>3, <2>1, <2>3, SilentMild
  <2> QED BY <2>4, MildKeepsType
<1>6. Mild(x, y) /\ WorkType(y) /\ Linked(y.t)
  BY <1>5, SackMild, MildTwice, MildKeepsType
<1> HIDE DEF y
<1>7. CASE HandleAck(x, m) = NewAck(y, m.ack)
  <2>1. m.ack \in SeqNos
    BY DEF SegType
  <2>2. PICK z : Mild(y, z) /\ NewAck(y, m.ack) = nagle_flush(z)
    BY <1>6, <2>1, NewAckMild
  <2> QED BY <1>6, <1>7, <2>2, MildTwice
<1>8. CASE HandleAck(x, m) = DupAck(y)
  BY <1>6, <1>8, DupAckMild, MildTwice
<1> QED BY <1>1, <1>6, <1>7, <1>8, MildNone

LEMMA HandleRstMild == ASSUME NEW x, WorkType(x) PROVE Mild(x, HandleRst(x))
BY AbortMild, MildNone, Zenon DEF HandleRst

LEMMA HandleSynRecvMild ==
  ASSUME NEW x, WorkType(x), Linked(x.t), x.t.st = "SYNRECV", NEW m, SegType(m)
  PROVE  Mild(x, HandleSynRecv(x, m))
<1> DEFINE y == [x EXCEPT !.t.una = m.ack, !.t.wnd = m.wnd, !.t.st = "ESTAB", !.t.done = TRUE, !.t.ok = TRUE]
<1>1. HandleSynRecv(x, m) \in {x, y}
  BY Zenon DEF HandleSynRecv
<1>2. IsWork(x) /\ BlockType(x.t) /\ m.ack \in SeqNos
  BY DEF WorkType, SegType
<1>3. IsWork(y) /\ y.out = x.out
  BY <1>2, FieldNames DEF IsWork
<1>4. Same(x.t, y.t, {"una", "wnd", "st", "done", "ok"})
  BY <1>2, FieldNames DEF IsWork, Same
<1>5. y.t.una = m.ack /\ y.t.st = "ESTAB" /\ y.t.done = TRUE
  BY <1>2, FieldNames DEF IsWork
<1> HIDE DEF y
<1>6. Same(x.t, y.t, Mildly \ {"txb"})
  BY <1>4 DEF Same, Mildly
<1>7. y.t.tail = x.t.tail /\ y.t.retries = x.t.retries /\ y.t.ka = x.t.ka /\ y.t.fin_pend = x.t.fin_pend /\ y.t.used = x.t.used
  BY <1>4, FieldNames DEF Same
<1>8. Ranges(x.t, y.t) /\ Moves(x.t, y.t)
  BY <1>2, <1>5, <1>7, RangesFrom DEF Moves
<1> QED BY <1>1, <1>3, <1>6, <1>8, SilentMild, MildNone

----------------------------------------------------------------------------
(* Types of what the operators make that are not mild. *)
LEMMA AddSubTyped == ASSUME NEW a \in Int, NEW b \in Int PROVE Add(a, b) \in SeqNos /\ Sub(a, b) \in SeqNos
BY Sizes DEF Add, Sub, SeqNos

LEMMA NewSlot ==
  ASSUME NEW t, BlockType(t), NEW data \in Seq(Nat), data # << >>, Len(data) <= MSS
  PROVE  LET s == [pend |-> TRUE, sacked |-> FALSE, seq |-> t.nxt, data |-> data]
             u == [t.txb EXCEPT ![t.head] = s]
         IN /\ u \in [0..TXQ-1 -> Slot] /\ u[t.head] = s /\ t.head \in 0..TXQ-1
            /\ \A j \in 0..TXQ-1 : j # t.head => u[j] = t.txb[j]
<1>1. [pend |-> TRUE, sacked |-> FALSE, seq |-> t.nxt, data |-> data] \in Slot
  BY DEF Slot, BlockType
<1> QED BY <1>1 DEF BlockType

(* Block u of t after the bytes data have been sent for the first time. *)
Sends(t, u, data, fs) ==
  /\ Same(t, u, {"txb", "nxt", "head"} \cup fs) /\ u.nxt = Add(t.nxt, Len(data)) /\ u.head = (t.head + 1) % TXQ
  /\ u.txb = [t.txb EXCEPT ![t.head] = [pend |-> TRUE, sacked |-> FALSE, seq |-> t.nxt, data |-> data]]
LEMMA SendsTyped ==
  ASSUME NEW x, WorkType(x), Linked(x.t), NEW data \in Seq(Nat), data # << >>, Len(data) <= MSS,
         NEW fs \in SUBSET {"nagle", "lt"}, NEW y, IsWork(y), Sends(x.t, y.t, data, fs), y.t.nagle \in {x.t.nagle, << >>},
         \A m \in y.out : m \in x.out \/ Segment(x.t, m, x.t.nxt, {"ACK", "PSH"}, data)
  PROVE  WorkType(y) /\ Linked(y.t)
<1>1. y.t.txb \in [0..TXQ-1 -> Slot]
  BY NewSlot DEF Sends, WorkType
<1>2. y.t.nxt \in SeqNos
  <2>1. x.t.nxt \in Int /\ Len(data) \in Int
    BY DEF WorkType, BlockType, SeqNos
  <2> QED BY <2>1, AddSubTyped DEF Sends
<1>3. y.t.head \in 0..TXQ-1
  <2>1. x.t.head \in 0..TXQ-1
    BY DEF WorkType, BlockType
  <2>2. 1 \in 0..TXQ
    BY Sizes
  <2>3. (x.t.head + 1) % TXQ \in 0..TXQ-1
    BY <2>1, <2>2, SlotIndex
  <2> QED BY <2>3 DEF Sends
<1>4. y.t.nagle \in Seq(Nat) /\ Len(y.t.nagle) <= MSS
  <2>1. x.t.nagle \in Seq(Nat) /\ Len(x.t.nagle) <= MSS
    BY DEF WorkType, BlockType
  <2>2. << >> \in Seq(Nat) /\ Len(<< >>) = 0 /\ 0 <= MSS
    BY Sizes
  <2>3. CASE y.t.nagle = x.t.nagle
    BY <2>1, <2>3
  <2>4. CASE y.t.nagle = << >>
    BY <2>2, <2>4
  <2> QED BY <2>3, <2>4
<1>5. /\ DOMAIN y.t = Fields /\ y.t.used = x.t.used /\ y.t.ip = x.t.ip /\ y.t.una = x.t.una /\ y.t.rcv = x.t.rcv
      /\ y.t.fin_seq = x.t.fin_seq /\ y.t.tail = x.t.tail /\ y.t.ooo = x.t.ooo /\ y.t.rx = x.t.rx
      /\ y.t.retries = x.t.retries /\ y.t.ka = x.t.ka /\ y.t.fin_pend = x.t.fin_pend /\ y.t.fin_tx = x.t.fin_tx
  BY FieldNames DEF Sends, Same
<1>6. BlockType(y.t) /\ Linked(y.t)
  BY <1>1, <1>2, <1>3, <1>4, <1>5 DEF WorkType, BlockType, Linked
<1>7. ASSUME NEW m \in y.out PROVE SegType(m)
  <2>1. CASE m \in x.out
    BY <2>1 DEF WorkType
  <2>2. CASE Segment(x.t, m, x.t.nxt, {"ACK", "PSH"}, data)
    BY <2>2 DEF Segment, SegType, WorkType, BlockType, Linked
  <2> QED BY <1>7, <2>1, <2>2
<1> QED BY <1>6, <1>7 DEF WorkType

LEMMA TransmitTyped ==
  ASSUME NEW x, WorkType(x), Linked(x.t), NEW data \in Seq(Nat), data # << >>, Len(data) <= MSS
  PROVE  LET y == Transmit(x, data)
         IN /\ IsWork(y) /\ Sends(x.t, y.t, data, {}) /\ WorkType(y) /\ Linked(y.t)
            /\ \A m \in y.out : m \in x.out \/ Segment(x.t, m, x.t.nxt, {"ACK", "PSH"}, data)
<1> DEFINE y == Transmit(x, data)
<1>1. IsWork(y) /\ Same(x.t, y.t, {"txb", "nxt", "head"})
      /\ y.t.nxt = Add(x.t.nxt, Len(data)) /\ y.t.head = (x.t.head + 1) % TXQ
      /\ y.t.txb = [x.t.txb EXCEPT ![x.t.head] = [pend |-> TRUE, sacked |-> FALSE, seq |-> x.t.nxt, data |-> data]]
      /\ \A m \in y.out : m \in x.out \/ Segment(x.t, m, x.t.nxt, {"ACK", "PSH"}, data)
  BY TransmitDoes DEF WorkType
<1> HIDE DEF y
<1>2. Sends(x.t, y.t, data, {})
  <2>1. {"txb", "nxt", "head"} \cup {} = {"txb", "nxt", "head"}
    OBVIOUS
  <2> QED BY <1>1, <2>1 DEF Sends
<1>3. y.t.nagle = x.t.nagle
  BY <1>1, FieldNames DEF Same
<1> QED BY <1>1, <1>2, <1>3, SendsTyped DEF y

LEMMA FlushTyped ==
  ASSUME NEW x, WorkType(x), Linked(x.t) \/ x.t.wnd = 0
  PROVE  LET y == nagle_flush(x)
         IN /\ WorkType(y)
            /\ \/ y = x
               \/ /\ Linked(x.t) /\ Linked(y.t) /\ x.t.nagle # << >> /\ ~RingFull(x.t) /\ y.t.nagle = << >>
                  /\ Sends(x.t, y.t, x.t.nagle, {"nagle"})
                  /\ \A m \in y.out : m \in x.out \/ Segment(x.t, m, x.t.nxt, {"ACK", "PSH"}, x.t.nagle)
<1> DEFINE y == nagle_flush(x)
<1>1. \/ y = x
      \/ /\ x.t.nagle # << >> /\ x.t.wnd # 0 /\ ~RingFull(x.t)
         /\ IsWork(y) /\ Same(x.t, y.t, {"txb", "nxt", "head", "nagle"})
         /\ y.t.nxt = Add(x.t.nxt, Len(x.t.nagle)) /\ y.t.head = (x.t.head + 1) % TXQ /\ y.t.nagle = << >>
         /\ y.t.txb = [x.t.txb EXCEPT ![x.t.head] =
                         [pend |-> TRUE, sacked |-> FALSE, seq |-> x.t.nxt, data |-> x.t.nagle]]
         /\ \A m \in y.out : m \in x.out \/ Segment(x.t, m, x.t.nxt, {"ACK", "PSH"}, x.t.nagle)
  BY FlushDoes DEF WorkType
<1> HIDE DEF y
<1>2. CASE y = x
  BY <1>2 DEF y
<1>3. CASE y # x
  <2>1. {"txb", "nxt", "head"} \cup {"nagle"} = {"txb", "nxt", "head", "nagle"}
    OBVIOUS
  <2>2. Sends(x.t, y.t, x.t.nagle, {"nagle"}) /\ Linked(x.t)
    BY <1>1, <1>3, <2>1 DEF Sends
  <2>3. x.t.nagle \in Seq(Nat) /\ Len(x.t.nagle) <= MSS
    BY DEF WorkType, BlockType
  <2>4. WorkType(y) /\ Linked(y.t)
    BY <1>1, <1>3, <2>2, <2>3, SendsTyped
  <2> QED BY <1>1, <1>3, <2>2, <2>4 DEF y
<1> QED BY <1>2, <1>3

LEMMA ProbeTyped ==
  ASSUME NEW x, WorkType(x), Linked(x.t)
  PROVE  WorkType(PollProbe(x)) /\ (PollProbe(x) # x => x.t.wnd = 0 /\ x.t.una # x.t.nxt /\ ~x.t.fin_pend)
<1> DEFINE e == tcp_emit(x, x.t.nxt, {"ACK", "PSH"}, <<ProbeByte>>, FALSE)
<1>1. \/ PollProbe(x) = x
      \/ PollProbe(x) = e /\ x.t.wnd = 0 /\ x.t.una # x.t.nxt /\ ~x.t.fin_pend
  BY Zenon DEF PollProbe
<1>2. IsWork(e) /\ e.t = x.t /\ \A m \in e.out : m \in x.out \/ Segment(x.t, m, x.t.nxt, {"ACK", "PSH"}, <<ProbeByte>>)
  BY EmitDoes DEF WorkType
<1> HIDE DEF e
<1>3. <<ProbeByte>> \in Seq(Nat)
  BY DEF ProbeByte
<1>4. \A m \in e.out : SegType(m)
  BY <1>2, <1>3 DEF Segment, SegType, WorkType, BlockType, Linked
<1>5. WorkType(e)
  BY <1>2, <1>4 DEF WorkType
<1> QED BY <1>1, <1>5

LEMMA ForgetDoes ==
  ASSUME NEW t, BlockType(t)
  PROVE  LET u == Forget(t)
         IN /\ BlockType(u) /\ (t.used => u = t)
            /\ ~t.used => (~Linked(u) /\ ~u.used /\ u.st = "CLOSED" /\ u.sport = 0 /\ u.dport = 0)
            /\ u.done = t.done /\ u.rx = t.rx
<1>1. CASE t.used
  BY <1>1 DEF Forget
<1>2. CASE ~t.used
  <2> DEFINE u == [Tcb0 EXCEPT !.txb = t.txb, !.ooo = t.ooo, !.done = t.done, !.err = t.err, !.rx = t.rx]
  <2>1. Forget(t) = u
    BY <1>2 DEF Forget
  <2>2. DOMAIN u = Fields
    BY DEF Fields
  <2>3. /\ u.used = FALSE /\ u.ip = "none" /\ u.wnd = 0 /\ u.cwnd = 0 /\ u.win_update = FALSE /\ u.una = 0 /\ u.nxt = 0
        /\ u.rcv = 0 /\ u.fin_seq = 0 /\ u.head = 0 /\ u.tail = 0 /\ u.txb = t.txb /\ u.ooo = t.ooo /\ u.rx = t.rx
        /\ u.nagle = << >> /\ u.retries = 0 /\ u.ka = 0 /\ u.fin_pend = FALSE /\ u.st = "CLOSED"
        /\ u.done = t.done /\ u.sport = 0 /\ u.dport = 0
    BY DEF Tcb0
  <2>4. 0 \in SeqNos /\ 0 \in 0..TXQ-1 /\ 0 \in 0..MAX_RETRANS+1 /\ 0 \in 0..KA_CNT+1 /\ << >> \in Seq(Nat) /\ Len(<< >>) <= MSS
    BY Sizes DEF SeqNos
  <2> HIDE DEF u
  <2>5. BlockType(u)
    BY <2>2, <2>3, <2>4 DEF BlockType
  <2> QED BY <1>2, <2>1, <2>3, <2>5 DEF Linked
<1> QED BY <1>1, <1>2
----------------------------------------------------------------------------
(* The receiving side: bytes move from segments and out-of-order slices to   *)
(* the ring, and nothing but acknowledgements is sent.                       *)
Received == Timing \cup {"rx", "rcv", "win_update", "ooo"}
PlainAck(t, m) ==
  /\ m.to = t.ip /\ m.sp = t.sport /\ m.dp = t.dport /\ m.seq \in SeqNos /\ m.ack \in SeqNos
  /\ m.fl = {"ACK"} /\ m.data = << >>
Holds(u) ==
  /\ u.rcv \in SeqNos /\ u.ooo \in [1..OOO -> Slice] /\ u.rx \in Seq(Nat) /\ Len(u.rx) <= RING
Takes(x, y) ==
  /\ IsWork(y) /\ Same(x.t, y.t, Received) /\ Holds(y.t)
  /\ \A m \in y.out : m \in x.out \/ PlainAck(x.t, m)

LEMMA ReceivedKeeps ==
  ASSUME NEW t, NEW u, Same(t, u, Received)
  PROVE  /\ DOMAIN u = Fields /\ u.used = t.used /\ u.st = t.st /\ u.ip = t.ip /\ u.sport = t.sport /\ u.dport = t.dport
         /\ u.lfd = t.lfd /\ u.iss = t.iss /\ u.una = t.una /\ u.nxt = t.nxt /\ u.wnd = t.wnd /\ u.head = t.head
         /\ u.tail = t.tail /\ u.txb = t.txb /\ u.nagle = t.nagle /\ u.ka = t.ka /\ u.fin_tx = t.fin_tx
         /\ u.fin_rx = t.fin_rx /\ u.fin_seq = t.fin_seq /\ u.fin_pend = t.fin_pend /\ u.retries = t.retries
         /\ u.ok = t.ok /\ u.done = t.done /\ u.err = t.err
BY FieldNames DEF Same, Received, Timing

LEMMA TakesTyped ==
  ASSUME NEW x, WorkType(x), Linked(x.t), NEW y, Takes(x, y)
  PROVE  WorkType(y) /\ Linked(y.t)
<1>1. Linked(y.t) /\ DOMAIN y.t = Fields
  BY ReceivedKeeps DEF Takes, Linked
<1>2. BlockType(y.t)
  <2>1. /\ y.t.used = x.t.used /\ y.t.ip = x.t.ip /\ y.t.una = x.t.una /\ y.t.nxt = x.t.nxt /\ y.t.fin_seq = x.t.fin_seq
        /\ y.t.head = x.t.head /\ y.t.tail = x.t.tail /\ y.t.txb = x.t.txb /\ y.t.nagle = x.t.nagle
        /\ y.t.retries = x.t.retries /\ y.t.ka = x.t.ka /\ y.t.fin_pend = x.t.fin_pend /\ y.t.fin_tx = x.t.fin_tx
    BY ReceivedKeeps DEF Takes
  <2>2. BlockType(x.t) /\ x.t.ip # "none" /\ Holds(y.t)
    BY DEF WorkType, Takes, Linked
  <2> QED BY <1>1, <2>1, <2>2 DEF BlockType, Holds
<1>3. ASSUME NEW m \in y.out PROVE SegType(m)
  <2>1. CASE m \in x.out
    BY <2>1 DEF WorkType
  <2>2. CASE PlainAck(x.t, m)
    <3>1. x.t.ip \in Hosts /\ << >> \in Seq(Nat)
      BY DEF WorkType, BlockType, Linked
    <3> QED BY <2>2, <3>1 DEF PlainAck, SegType
  <2> QED BY <1>3, <2>1, <2>2 DEF Takes
<1> QED BY <1>1, <1>2, <1>3 DEF WorkType, Takes

LEMMA TakesTwice ==
  ASSUME NEW x, NEW y, NEW z, Takes(x, y), Takes(y, z)
  PROVE  Takes(x, z)
<1>1. Same(x.t, z.t, Received)
  BY DEF Takes, Same
<1>2. \A m : PlainAck(y.t, m) => PlainAck(x.t, m)
  BY ReceivedKeeps DEF Takes, PlainAck
<1> QED BY <1>1, <1>2 DEF Takes

LEMMA TakesNone ==
  ASSUME NEW x, WorkType(x)
  PROVE  Takes(x, x)
BY DEF WorkType, BlockType, Takes, Holds, Same, IsWork

LEMMA TimingTakes ==
  ASSUME NEW x, WorkType(x), NEW y, IsWork(y), Same(x.t, y.t, Timing),
         \A m \in y.out : m \in x.out \/ Segment(x.t, m, x.t.nxt, {"ACK"}, << >>)
  PROVE  Takes(x, y)
<1>1. Same(x.t, y.t, Received)
  BY DEF Same, Received
<1>2. y.t.rcv = x.t.rcv /\ y.t.ooo = x.t.ooo /\ y.t.rx = x.t.rx
  BY FieldNames DEF Same, Timing
<1>3. Holds(y.t)
  BY <1>2 DEF WorkType, BlockType, Holds
<1>4. \A m : Segment(x.t, m, x.t.nxt, {"ACK"}, << >>) => PlainAck(x.t, m)
  BY DEF Segment, PlainAck, WorkType, BlockType
<1> QED BY <1>1, <1>3, <1>4 DEF Takes

LEMMA AckNowTakes == ASSUME NEW x, WorkType(x) PROVE Takes(x, tcp_ack_now(x))
BY AckNowDoes, TimingTakes DEF WorkType

LEMMA AckDelayedTakes == ASSUME NEW x, WorkType(x) PROVE Takes(x, ack_delayed(x))
BY AckDelayedDoes, TimingTakes DEF WorkType

LEMMA StoreTakes ==
  ASSUME NEW x, WorkType(x), NEW seq \in SeqNos, NEW data \in Seq(Nat)
  PROVE  Takes(x, ooo_store(x, seq, data))
<1> DEFINE y == ooo_store(x, seq, data)
<1>1. y = x \/ \E j \in 1..OOO : Stored(x, y, j, seq, data)
  <2>1. IsWork(x)
    BY DEF WorkType
  <2> QED BY <2>1, StoreDoes
<1> HIDE DEF y
<1>2. CASE y = x
  BY <1>2, TakesNone DEF y
<1>3. CASE y # x
  <2>0. PICK j \in 1..OOO : Stored(x, y, j, seq, data)
    BY <1>1, <1>3
  <2>1. /\ IsWork(y) /\ Same(x.t, y.t, {"ooo"}) /\ y.out = x.out
        /\ y.t.ooo = [x.t.ooo EXCEPT ![j] = [used |-> TRUE, seq |-> seq, data |-> data]]
    BY <2>0 DEF Stored
  <2>2. Same(x.t, y.t, Received)
    BY <2>1 DEF Same, Received
  <2>3. y.t.rcv = x.t.rcv /\ y.t.rx = x.t.rx
    BY <2>1, FieldNames DEF Same
  <2>4. [used |-> TRUE, seq |-> seq, data |-> data] \in Slice
    BY DEF Slice
  <2>5. y.t.ooo \in [1..OOO -> Slice]
    BY <2>1, <2>4 DEF WorkType, BlockType
  <2>6. Holds(y.t)
    BY <2>3, <2>5 DEF Holds, WorkType, BlockType
  <2> QED BY <2>1, <2>2, <2>6 DEF Takes, y
<1> QED BY <1>2, <1>3

LEMMA Joined ==
  ASSUME NEW a \in Seq(Nat), NEW b \in Seq(Nat)
  PROVE  a \o b \in Seq(Nat) /\ Len(a \o b) = Len(a) + Len(b)
OBVIOUS

LEMMA PushHolds ==
  ASSUME NEW t, BlockType(t), NEW data \in Seq(Nat)
  PROVE  LET n == Fits(t, data)
         IN /\ t.rx \o SubSeq(data, 1, n) \in Seq(Nat) /\ Len(t.rx \o SubSeq(data, 1, n)) <= RING
            /\ n \in 0..Len(data) /\ Add(t.rcv, n) \in SeqNos
<1>1. t.rx \in Seq(Nat) /\ Len(t.rx) <= RING /\ t.rcv \in Int
  BY DEF BlockType, SeqNos
<1> DEFINE n == Fits(t, data)
           d == SubSeq(data, 1, n)
<1>2. n \in 0..Len(data) /\ Len(t.rx) + n <= RING /\ d \in Seq(Nat) /\ Len(d) = n
  BY <1>1, FitsDoes
<1> HIDE DEF n, d
<1>3. t.rx \o d \in Seq(Nat) /\ Len(t.rx \o d) = Len(t.rx) + n
  BY <1>1, <1>2, Joined
<1>4. Add(t.rcv, n) \in SeqNos
  BY <1>1, <1>2, AddSubTyped
<1> QED BY <1>2, <1>3, <1>4 DEF n, d

LEMMA DrainOneTakes ==
  ASSUME NEW x, WorkType(x)
  PROVE  Takes(x, DrainOne(x))
<1> DEFINE y == DrainOne(x)
<1>1. y = x \/ \E j \in 1..OOO : Drained(x, j, y)
  BY DrainOneDoes DEF WorkType
<1> HIDE DEF y
<1>2. CASE y = x
  BY <1>2, TakesNone DEF y
<1>3. ASSUME NEW j \in 1..OOO, Drained(x, j, y) PROVE Takes(x, y)
  <2> DEFINE data == x.t.ooo[j].data
             n == Fits(x.t, data)
             s == IF n < Len(data) THEN [used |-> TRUE, seq |-> Add(x.t.rcv, n), data |-> SubSeq(data, n + 1, Len(data))]
                  ELSE NoSlice
  <2>1. data \in Seq(Nat)
    BY DEF WorkType, BlockType, Slice
  <2>2. /\ IsWork(y) /\ Same(x.t, y.t, {"rx", "rcv", "win_update", "ooo"}) /\ y.out = x.out
        /\ y.t.rx = x.t.rx \o SubSeq(data, 1, n) /\ y.t.rcv = Add(x.t.rcv, n)
        /\ y.t.ooo = [x.t.ooo EXCEPT ![j] = s]
    BY <1>3 DEF Drained
  <2> HIDE DEF data
  <2>3. /\ x.t.rx \o SubSeq(data, 1, n) \in Seq(Nat) /\ Len(x.t.rx \o SubSeq(data, 1, n)) <= RING
        /\ n \in 0..Len(data) /\ Add(x.t.rcv, n) \in SeqNos
    BY <2>1, PushHolds DEF WorkType
  <2>4. s \in Slice
    <3> HIDE DEF n
    <3>1. SubSeq(data, n + 1, Len(data)) \in Seq(Nat) /\ << >> \in Seq(Nat) /\ 0 \in SeqNos
      BY <2>1, <2>3, Sizes DEF SeqNos
    <3> QED BY <2>3, <3>1 DEF Slice, NoSlice
  <2> HIDE DEF s, n
  <2>5. y.t.ooo \in [1..OOO -> Slice]
    BY <2>2, <2>4 DEF WorkType, BlockType
  <2>6. Same(x.t, y.t, Received)
    BY <2>2 DEF Same, Received
  <2> QED BY <2>2, <2>3, <2>5, <2>6 DEF Takes, Holds
<1> QED BY <1>1, <1>2, <1>3 DEF y

LEMMA DrainTakes ==
  ASSUME NEW x, WorkType(x), Linked(x.t)
  PROVE  Takes(x, ooo_drain(x))
<1>1. PICK turn : /\ turn[0] = x /\ \A k \in 1..OOO : turn[k] = DrainOne(turn[k - 1])
                  /\ ooo_drain(x) = ack_delayed(turn[OOO])
  BY DrainTurns, Zenon
<1> DEFINE Bad == {k \in 0..OOO : ~Takes(x, turn[k])}
<1>2. Bad = {}
  <2> SUFFICES ASSUME Bad # {} PROVE FALSE
    OBVIOUS
  <2>0. Bad \in SUBSET Nat
    BY Sizes
  <2>1. PICK k \in Bad : \A i \in Bad : k <= i
    BY <2>0, LeastNumber
  <2>2. k \in 0..OOO /\ k \in Nat /\ OOO \in Nat
    BY Sizes
  <2>3. k # 0
    BY <1>1, TakesNone
  <2>4. k - 1 \in 0..OOO /\ ~(k <= k - 1) /\ k \in 1..OOO
    BY <2>2, <2>3
  <2>5. Takes(x, turn[k - 1])
    BY <2>1, <2>4
  <2>6. WorkType(turn[k - 1])
    BY <2>5, TakesTyped
  <2>7. Takes(turn[k - 1], turn[k])
    BY <1>1, <2>4, <2>6, DrainOneTakes
  <2> QED BY <2>5, <2>7, TakesTwice
<1>3. Takes(x, turn[OOO])
  BY <1>2, Sizes
<1>4. WorkType(turn[OOO])
  BY <1>3, TakesTyped
<1> QED BY <1>1, <1>3, <1>4, AckDelayedTakes, TakesTwice

LEMMA AcceptDoes ==
  ASSUME NEW x, WorkType(x), NEW data \in Seq(Nat)
  PROVE  \E y : /\ Takes(x, y) /\ y.t.rx = x.t.rx \o SubSeq(data, 1, Fits(x.t, data)) /\ y.out = x.out
                /\ y.t.rcv = Add(x.t.rcv, Fits(x.t, data)) /\ y.t.ooo = x.t.ooo
                /\ Accept(x, data) \in {y, ooo_drain(y)}
<1> DEFINE n == Fits(x.t, data)
           p == rxr_push(x, data)
           y == [p EXCEPT !.t.rcv = Add(@, n), !.t.win_update = @ \/ n < Len(data)]
<1>1. Accept(x, data) = IF n > 0 THEN ooo_drain(y) ELSE y
  BY Zenon DEF Accept
<1>2. IsWork(p) /\ Same(x.t, p.t, {"rx"}) /\ p.out = x.out /\ p.t.rx = x.t.rx \o SubSeq(data, 1, n)
  BY PushDoes DEF WorkType
<1>3. p.t.rcv = x.t.rcv /\ p.t.ooo = x.t.ooo
  BY <1>2, FieldNames DEF Same
<1>4. /\ x.t.rx \o SubSeq(data, 1, n) \in Seq(Nat) /\ Len(x.t.rx \o SubSeq(data, 1, n)) <= RING
      /\ Add(x.t.rcv, n) \in SeqNos
  BY PushHolds DEF WorkType
<1> HIDE DEF p, n
<1>5. IsWork(y) /\ y.out = x.out /\ y.t.rcv = Add(x.t.rcv, n) /\ y.t.ooo = x.t.ooo /\ y.t.rx = p.t.rx
  BY <1>2, <1>3, FieldNames DEF IsWork
<1>6. Same(x.t, y.t, {"rx", "rcv", "win_update"})
  BY <1>2, FieldNames DEF IsWork, Same
<1> HIDE DEF y
<1>7. Same(x.t, y.t, Received)
  BY <1>6 DEF Same, Received
<1>8. Holds(y.t)
  BY <1>2, <1>4, <1>5 DEF Holds, WorkType, BlockType
<1>9. Takes(x, y)
  BY <1>5, <1>7, <1>8 DEF Takes
<1>10. Accept(x, data) \in {y, ooo_drain(y)}
  BY <1>1
<1>11. y.t.rx = x.t.rx \o SubSeq(data, 1, n)
  BY <1>2, <1>5
<1> QED BY <1>5, <1>9, <1>10, <1>11 DEF n

LEMMA AcceptTakes ==
  ASSUME NEW x, WorkType(x), Linked(x.t), NEW data \in Seq(Nat)
  PROVE  Takes(x, Accept(x, data))
<1>1. PICK y : Takes(x, y) /\ Accept(x, data) \in {y, ooo_drain(y)}
  BY AcceptDoes, Zenon
<1>2. WorkType(y) /\ Linked(y.t)
  BY <1>1, TakesTyped
<1>3. Takes(y, ooo_drain(y))
  BY <1>2, DrainTakes
<1>4. Takes(x, ooo_drain(y))
  BY <1>1, <1>3, TakesTwice
<1> QED BY <1>1, <1>4

LEMMA HandleDataTakes ==
  ASSUME NEW x, WorkType(x), Linked(x.t), NEW m, SegType(m)
  PROVE  Takes(x, HandleData(x, m))
<1> DEFINE end == Add(m.seq, Len(m.data))
           rest == SubSeq(m.data, Sub(x.t.rcv, m.seq) + 1, Len(m.data))
           st == ooo_store(x, m.seq, m.data)
<1>1. \/ HandleData(x, m) \in {x, tcp_ack_now(x), ack_delayed(x), ack_delayed(st)}
      \/ HandleData(x, m) = Accept(x, rest)
  BY DEF HandleData
<1>2. rest \in Seq(Nat)
  <2>1. Sub(x.t.rcv, m.seq) \in SeqNos
    <3>1. x.t.rcv \in Int /\ m.seq \in Int
      BY DEF WorkType, BlockType, SegType, SeqNos
    <3> QED BY <3>1, AddSubTyped
  <2>2. Sub(x.t.rcv, m.seq) + 1 \in Nat /\ Sub(x.t.rcv, m.seq) + 1 >= 1
    BY <2>1 DEF SeqNos
  <2> QED BY <2>2 DEF SegType
<1>3. Takes(x, st)
  BY StoreTakes DEF SegType
<1>4. WorkType(st)
  BY <1>3, TakesTyped
<1> HIDE DEF rest, st
<1>5. Takes(x, ack_delayed(st))
  BY <1>3, <1>4, AckDelayedTakes, TakesTwice
<1>6. Takes(x, Accept(x, rest))
  BY <1>2, AcceptTakes
<1> QED BY <1>1, <1>5, <1>6, TakesNone, AckNowTakes, AckDelayedTakes

(* A FIN in its place is counted and noted. *)
Finished(x, y) ==
  /\ IsWork(y) /\ Same(x.t, y.t, Timing \cup {"rcv", "fin_rx", "done", "st"})
  /\ y.t.rcv = Add(x.t.rcv, 1) /\ y.t.fin_rx = TRUE /\ y.t.done = TRUE
  /\ y.t.st = CASE x.t.st = "ESTAB" -> "CLOSEW" [] x.t.st = "FINW2" -> "TIMEW"
                [] x.t.st = "FINW1" -> "FINW2" [] OTHER -> x.t.st
  /\ \A m \in y.out : m \in x.out \/ PlainAck(x.t, m)
LEMMA HandleFinDoes ==
  ASSUME NEW x, WorkType(x), NEW m
  PROVE  LET y == HandleFin(x, m)
         IN \/ y \in {x, ack_delayed(x)}
            \/ "FIN" \in m.fl /\ ~(Add(m.seq, Len(m.data)) > x.t.rcv) /\ Finished(x, y)
<1> DEFINE w == [x EXCEPT !.t.rcv = Add(@, 1), !.t.fin_rx = TRUE, !.t.done = TRUE]
           a == tcp_ack_now(w)
           y == [a EXCEPT !.t.st = CASE @ = "ESTAB" -> "CLOSEW" [] @ = "FINW2" -> "TIMEW"
                                     [] @ = "FINW1" -> "FINW2" [] OTHER -> @]
<1>1. \/ HandleFin(x, m) \in {x, ack_delayed(x)}
      \/ "FIN" \in m.fl /\ ~(Add(m.seq, Len(m.data)) > x.t.rcv) /\ HandleFin(x, m) = y
  BY DEF HandleFin
<1>2. IsWork(w) /\ w.out = x.out /\ w.t.rcv = Add(x.t.rcv, 1) /\ w.t.fin_rx = TRUE /\ w.t.done = TRUE
  BY FieldNames DEF IsWork, WorkType
<1>3. Same(x.t, w.t, {"rcv", "fin_rx", "done"})
  BY FieldNames DEF IsWork, WorkType, Same
<1> HIDE DEF w
<1>4. IsWork(a) /\ Same(w.t, a.t, Timing) /\ \A g \in a.out : g \in w.out \/ Segment(w.t, g, w.t.nxt, {"ACK"}, << >>)
  BY <1>2, AckNowDoes
<1>5. a.t.rcv = w.t.rcv /\ a.t.fin_rx = w.t.fin_rx /\ a.t.done = w.t.done /\ a.t.st = x.t.st
  BY <1>3, <1>4, FieldNames DEF Same, Timing
<1> HIDE DEF a
<1>6. IsWork(y) /\ y.out = a.out /\ y.t.rcv = a.t.rcv /\ y.t.fin_rx = a.t.fin_rx /\ y.t.done = a.t.done
      /\ y.t.st = CASE a.t.st = "ESTAB" -> "CLOSEW" [] a.t.st = "FINW2" -> "TIMEW"
                    [] a.t.st = "FINW1" -> "FINW2" [] OTHER -> a.t.st
  BY <1>4, FieldNames DEF IsWork
<1>7. Same(a.t, y.t, {"st"})
  BY <1>4, FieldNames DEF IsWork, Same
<1> HIDE DEF y
<1>8. Same(x.t, y.t, Timing \cup {"rcv", "fin_rx", "done", "st"})
  BY <1>3, <1>4, <1>7 DEF Same
<1>9. \A g : Segment(w.t, g, w.t.nxt, {"ACK"}, << >>) => PlainAck(x.t, g)
  <2>1. w.t.ip = x.t.ip /\ w.t.sport = x.t.sport /\ w.t.dport = x.t.dport /\ w.t.nxt = x.t.nxt
    BY <1>3, FieldNames DEF Same
  <2>2. w.t.rcv \in SeqNos
    <3>1. x.t.rcv \in Int
      BY DEF WorkType, BlockType, SeqNos
    <3> QED BY <1>2, <3>1, AddSubTyped
  <2> QED BY <2>1, <2>2 DEF Segment, PlainAck, WorkType, BlockType
<1>10. Finished(x, y)
  BY <1>2, <1>4, <1>5, <1>6, <1>8, <1>9 DEF Finished
<1> QED BY <1>1, <1>10
LEMMA HandleFinTyped ==
  ASSUME NEW x, WorkType(x), Linked(x.t), NEW m
  PROVE  LET y == HandleFin(x, m)
         IN WorkType(y) /\ Linked(y.t)
<1> DEFINE y == HandleFin(x, m)
<1>1. y \in {x, ack_delayed(x)} \/ Finished(x, y)
  BY HandleFinDoes
<1> HIDE DEF y
<1>2. CASE y \in {x, ack_delayed(x)}
  <2>1. WorkType(ack_delayed(x)) /\ Linked(ack_delayed(x).t)
    BY AckDelayedTakes, TakesTyped
  <2> QED BY <1>2, <2>1 DEF y
<1>3. CASE Finished(x, y)
  <2>1. /\ y.t.used = x.t.used /\ y.t.ip = x.t.ip /\ y.t.una = x.t.una /\ y.t.nxt = x.t.nxt /\ y.t.fin_seq = x.t.fin_seq
        /\ y.t.head = x.t.head /\ y.t.tail = x.t.tail /\ y.t.txb = x.t.txb /\ y.t.nagle = x.t.nagle
        /\ y.t.retries = x.t.retries /\ y.t.ka = x.t.ka /\ y.t.fin_pend = x.t.fin_pend /\ y.t.fin_tx = x.t.fin_tx
        /\ y.t.ooo = x.t.ooo /\ y.t.rx = x.t.rx /\ DOMAIN y.t = Fields
    BY <1>3, FieldNames DEF Finished, Same, Timing
  <2>2. y.t.rcv \in SeqNos
    <3>1. x.t.rcv \in Int
      BY DEF WorkType, BlockType, SeqNos
    <3> QED BY <1>3, <3>1, AddSubTyped DEF Finished
  <2>3. BlockType(x.t) /\ x.t.ip # "none"
    BY DEF WorkType, Linked
  <2>4. BlockType(y.t) /\ Linked(y.t)
    BY <2>1, <2>2, <2>3 DEF BlockType, Linked
  <2>5. \A g \in y.out : SegType(g)
    <3>1. x.t.ip \in Hosts /\ << >> \in Seq(Nat)
      BY <2>3 DEF BlockType
    <3>2. \A g : PlainAck(x.t, g) => SegType(g)
      BY <3>1 DEF PlainAck, SegType
    <3> QED BY <1>3, <3>2 DEF Finished, WorkType
  <2> QED BY <1>3, <2>4, <2>5 DEF WorkType, Finished, y
<1> QED BY <1>1, <1>2, <1>3 DEF y

LEMMA HandleSynSentDoes ==
  ASSUME NEW x, WorkType(x), Linked(x.t), NEW m, SegType(m)
  PROVE  LET y == HandleSynSent(x, m)
         IN /\ WorkType(y) /\ Linked(y.t)
            /\ \/ y = x
               \/ /\ {"SYN", "ACK"} \subseteq m.fl /\ m.ack = x.t.nxt
                  /\ Same(x.t, y.t, {"rcv", "una", "wnd", "st", "done", "ok"}) /\ y.out = x.out
                  /\ y.t.rcv = Add(m.seq, 1) /\ y.t.st = "ESTAB" /\ y.t.done = TRUE
<1> DEFINE y == HandleSynSent(x, m)
           w == [x EXCEPT !.t.rcv = Add(m.seq, 1), !.t.una = m.ack, !.t.wnd = m.wnd,
                          !.t.st = "ESTAB", !.t.done = TRUE, !.t.ok = TRUE]
<1>1. y = x \/ ({"SYN", "ACK"} \subseteq m.fl /\ m.ack = x.t.nxt /\ y = w)
  BY Zenon DEF HandleSynSent
<1> HIDE DEF y
<1>2. IsWork(w) /\ w.out = x.out /\ w.t.rcv = Add(m.seq, 1) /\ w.t.una = m.ack /\ w.t.st = "ESTAB"
      /\ w.t.done = TRUE
  BY FieldNames, ZenonT(60) DEF IsWork, WorkType
<1>3. Same(x.t, w.t, {"rcv", "una", "wnd", "st", "done", "ok"})
  BY FieldNames, ZenonT(60) DEF IsWork, WorkType, Same
<1> HIDE DEF w
<1>4. /\ w.t.used = x.t.used /\ w.t.ip = x.t.ip /\ w.t.nxt = x.t.nxt /\ w.t.fin_seq = x.t.fin_seq
      /\ w.t.head = x.t.head /\ w.t.tail = x.t.tail /\ w.t.txb = x.t.txb /\ w.t.nagle = x.t.nagle
      /\ w.t.retries = x.t.retries /\ w.t.ka = x.t.ka /\ w.t.fin_pend = x.t.fin_pend /\ w.t.fin_tx = x.t.fin_tx
      /\ w.t.ooo = x.t.ooo /\ w.t.rx = x.t.rx /\ DOMAIN w.t = Fields
  BY <1>3, FieldNames DEF Same
<1>5. w.t.rcv \in SeqNos /\ w.t.una \in SeqNos
  <2>1. m.seq \in Int /\ m.ack \in SeqNos
    BY DEF SegType, SeqNos
  <2> QED BY <1>2, <2>1, AddSubTyped
<1>6. BlockType(x.t) /\ x.t.ip # "none"
  BY DEF WorkType, Linked
<1>7. BlockType(w.t) /\ Linked(w.t)
  BY <1>4, <1>5, <1>6 DEF BlockType, Linked
<1>8. WorkType(w)
  BY <1>2, <1>7 DEF WorkType
<1> QED BY <1>1, <1>2, <1>3, <1>7, <1>8 DEF y

LEMMA ForgetWork ==
  ASSUME NEW x, WorkType(x)
  PROVE  LET y == [x EXCEPT !.t = Forget(@)]
         IN WorkType(y) /\ y.t = Forget(x.t) /\ y.out = x.out
<1> DEFINE y == [x EXCEPT !.t = Forget(@)]
<1>1. DOMAIN y = {"t", "out"} /\ y.t = Forget(x.t) /\ y.out = x.out
  BY DEF WorkType, IsWork
<1> HIDE DEF y
<1>2. BlockType(y.t)
  BY <1>1, ForgetDoes DEF WorkType
<1> QED BY <1>1, <1>2 DEF WorkType, IsWork, BlockType, y

(* What handle_tcp makes of a segment for a connection that carries data:    *)
(* acknowledgement, bytes and FIN, one after the other.                      *)
Carried(x, m, z, a, d, f) ==
  /\ Mild(x, z) /\ WorkType(z) /\ Linked(z.t) /\ a \in {z, nagle_flush(z)}
  /\ WorkType(a) /\ Linked(a.t) /\ d = HandleData(a, m) /\ Takes(a, d)
  /\ WorkType(d) /\ Linked(d.t) /\ f = HandleFin(d, m) /\ WorkType(f) /\ Linked(f.t)

LEMMA CarriedDoes ==
  ASSUME NEW x, WorkType(x), Linked(x.t), NEW m, SegType(m)
  PROVE  LET a == HandleAck(x, m)
             d == HandleData(a, m)
         IN \E z : Carried(x, m, z, a, d, HandleFin(d, m))
<1> DEFINE a == HandleAck(x, m)
           d == HandleData(a, m)
           f == HandleFin(d, m)
<1>1. PICK z : Mild(x, z) /\ (a = z \/ a = nagle_flush(z))
  BY HandleAckMild, Zenon
<1>2. WorkType(z) /\ Linked(z.t)
  BY <1>1, MildKeepsType
<1> HIDE DEF a
<1>3. WorkType(a) /\ Linked(a.t)
  BY <1>1, <1>2, FlushTyped
<1>4. Takes(a, d)
  BY <1>3, HandleDataTakes
<1>5. WorkType(d) /\ Linked(d.t)
  BY <1>3, <1>4, TakesTyped
<1> HIDE DEF d
<1>6. WorkType(f) /\ Linked(f.t)
  BY <1>5, HandleFinTyped
<1> HIDE DEF f
<1>7. Carried(x, m, z, a, d, f)
  BY <1>1, <1>2, <1>3, <1>4, <1>5, <1>6 DEF Carried, d, f
<1> QED BY <1>7 DEF a, d, f

LEMMA HandleConnTyped ==
  ASSUME NEW x, WorkType(x), Linked(x.t), NEW m, SegType(m)
  PROVE  WorkType(HandleConn(x, m))
<1> DEFINE a == HandleAck(x, m)
           d == HandleData(a, m)
           f == HandleFin(d, m)
<1>1. \/ HandleConn(x, m) = HandleRst(x)
      \/ x.t.st = "SYNSENT" /\ HandleConn(x, m) = HandleSynSent(x, m)
      \/ x.t.st = "SYNRECV" /\ HandleConn(x, m) = HandleSynRecv(x, m)
      \/ HandleConn(x, m) = IF x.t.fin_tx THEN [f EXCEPT !.t = Forget(@)] ELSE f
  BY DEF HandleConn
<1>2. \E z : Carried(x, m, z, a, d, f)
  BY CarriedDoes
<1> HIDE DEF f
<1>3. WorkType(f)
  BY <1>2 DEF Carried
<1>4. WorkType([f EXCEPT !.t = Forget(@)])
  BY <1>3, ForgetWork
<1>5. WorkType(HandleRst(x))
  BY HandleRstMild, MildKeepsType
<1>6. x.t.st = "SYNRECV" => WorkType(HandleSynRecv(x, m))
  BY HandleSynRecvMild, MildKeepsType
<1>7. WorkType(HandleSynSent(x, m))
  BY HandleSynSentDoes
<1> QED BY <1>1, <1>3, <1>4, <1>5, <1>6, <1>7
(* A connection of which the timer says that it has ended. *)
LEMMA EndedDoes ==
  ASSUME NEW x, WorkType(x), NEW w, IsWork(w), w.out = x.out,
         Same(x.t, w.t, {"used", "st", "ok", "done"}), w.t.used = FALSE
  PROVE  LET y == [w EXCEPT !.t = Forget(@)]
         IN WorkType(y) /\ y.t = Forget(w.t) /\ y.out = x.out /\ BlockType(w.t) /\ y.t.done = w.t.done
<1>1. /\ w.t.ip = x.t.ip /\ w.t.una = x.t.una /\ w.t.nxt = x.t.nxt /\ w.t.fin_seq = x.t.fin_seq
      /\ w.t.head = x.t.head /\ w.t.tail = x.t.tail /\ w.t.txb = x.t.txb /\ w.t.nagle = x.t.nagle
      /\ w.t.retries = x.t.retries /\ w.t.ka = x.t.ka /\ w.t.fin_pend = x.t.fin_pend /\ w.t.fin_tx = x.t.fin_tx
      /\ w.t.ooo = x.t.ooo /\ w.t.rx = x.t.rx /\ DOMAIN w.t = Fields
      /\ w.t.wnd = x.t.wnd /\ w.t.cwnd = x.t.cwnd /\ w.t.win_update = x.t.win_update /\ w.t.rcv = x.t.rcv
  BY FieldNames DEF Same
<1>2. BlockType(w.t)
  BY <1>1 DEF WorkType, BlockType
<1>3. WorkType(w)
  BY <1>2 DEF WorkType
<1>4. Forget(w.t).done = w.t.done
  BY <1>2, ForgetDoes
<1> QED BY <1>2, <1>3, <1>4, ForgetWork

LEMMA PollCases ==
  ASSUME NEW x, WorkType(x), NEW due
  PROVE  \/ tcp_poll(x, due) \in {x, PollAck(x), PollProbe(x)}
         \/ tcp_poll(x, due) \in {PollFin(x), PollRto(x), PollKeepalive(x)} /\ x.t.used
         \/ /\ x.t.st \in {"TIMEW", "FINW1", "FINW2"} /\ x.t.used
            /\ \E w : /\ tcp_poll(x, due) = [w EXCEPT !.t = Forget(@)] /\ IsWork(w) /\ w.out = x.out /\ w.t.used = FALSE
                      /\ Same(x.t, w.t, {"used", "st", "ok", "done"}) /\ (x.t.done => w.t.done)
<1> DEFINE w1 == [x EXCEPT !.t.used = FALSE, !.t.st = "CLOSED", !.t.ok = TRUE, !.t.done = TRUE]
           w2 == [x EXCEPT !.t.used = FALSE, !.t.st = "CLOSED"]
           y1 == [x EXCEPT !.t = Forget([@ EXCEPT !.used = FALSE, !.st = "CLOSED", !.ok = TRUE, !.done = TRUE])]
           y2 == [x EXCEPT !.t = Forget([@ EXCEPT !.used = FALSE, !.st = "CLOSED"])]
<1>1. \/ tcp_poll(x, due) \in {x, PollAck(x), PollProbe(x)}
      \/ tcp_poll(x, due) \in {PollFin(x), PollRto(x), PollKeepalive(x)} /\ x.t.used
      \/ x.t.used /\ x.t.st = "TIMEW" /\ tcp_poll(x, due) = y1
      \/ x.t.used /\ x.t.st \in {"FINW1", "FINW2"} /\ tcp_poll(x, due) = y2
  BY Zenon DEF tcp_poll, WorkType
<1>2. IsWork(w1) /\ w1.out = x.out /\ w1.t.used = FALSE /\ Same(x.t, w1.t, {"used", "st", "ok", "done"}) /\ w1.t.done = TRUE
  BY FieldNames DEF IsWork, WorkType, Same
<1>3. IsWork(w2) /\ w2.out = x.out /\ w2.t.used = FALSE /\ Same(x.t, w2.t, {"used", "st", "ok", "done"}) /\ w2.t.done = x.t.done
  BY FieldNames DEF IsWork, WorkType, Same
<1>4. [w1 EXCEPT !.t = Forget(@)] = y1
  BY FieldNames DEF IsWork, WorkType
<1>5. [w2 EXCEPT !.t = Forget(@)] = y2
  BY FieldNames DEF IsWork, WorkType
<1> HIDE DEF y1, y2, w1, w2
<1>6. CASE x.t.used /\ x.t.st = "TIMEW" /\ tcp_poll(x, due) = y1
  BY <1>2, <1>4, <1>6
<1>7. CASE x.t.used /\ x.t.st \in {"FINW1", "FINW2"} /\ tcp_poll(x, due) = y2
  BY <1>3, <1>5, <1>7
<1> QED BY <1>1, <1>6, <1>7

LEMMA PollTyped ==
  ASSUME NEW x, WorkType(x), Linked(x.t), NEW due
  PROVE  WorkType(tcp_poll(x, due))
<1>1. CASE tcp_poll(x, due) \in {x, PollAck(x), PollProbe(x)}
  BY <1>1, PollAckMild, ProbeTyped, MildKeepsType
<1>2. CASE tcp_poll(x, due) \in {PollFin(x), PollRto(x), PollKeepalive(x)} /\ x.t.used
  BY <1>2, PollFinMild, PollRtoMild, PollKeepaliveMild, MildKeepsType
<1>3. ASSUME NEW w, tcp_poll(x, due) = [w EXCEPT !.t = Forget(@)], IsWork(w), w.out = x.out, w.t.used = FALSE,
             Same(x.t, w.t, {"used", "st", "ok", "done"})
      PROVE  WorkType(tcp_poll(x, due))
  BY <1>3, EndedDoes
<1> QED BY <1>1, <1>2, <1>3, PollCases

----------------------------------------------------------------------------
(* New connections. *)
LEMMA ResetDoes ==
  ASSUME NEW t, BlockType(t)
  PROVE  LET r == sock_reset(t)
         IN /\ DOMAIN r = Fields /\ r.used = TRUE /\ r.st = "CLOSED" /\ r.lfd = -1 /\ r.ip = t.ip
            /\ r.ok = FALSE /\ r.done = FALSE /\ r.err = FALSE /\ r.fin_tx = FALSE /\ r.fin_rx = FALSE /\ r.fin_pend = FALSE
            /\ r.una = 0 /\ r.nxt = 0 /\ r.rcv = 0 /\ r.fin_seq = t.fin_seq /\ r.retries = 0 /\ r.nagle = << >> /\ r.ka = 0
            /\ r.head = 0 /\ r.tail = 0 /\ r.rx = << >> /\ r.txb = t.txb /\ r.ooo = t.ooo
<1> DEFINE r == sock_reset(t)
<1>1. DOMAIN r = Fields /\ r.used = TRUE /\ r.st = "CLOSED" /\ r.lfd = -1 /\ r.ip = t.ip
  BY FieldNames DEF sock_reset, BlockType
<1>2. r.ok = FALSE /\ r.done = FALSE /\ r.err = FALSE /\ r.fin_tx = FALSE /\ r.fin_rx = FALSE /\ r.fin_pend = FALSE
  BY FieldNames DEF sock_reset, BlockType
<1>3. r.una = 0 /\ r.nxt = 0 /\ r.rcv = 0 /\ r.fin_seq = t.fin_seq /\ r.retries = 0 /\ r.nagle = << >> /\ r.ka = 0
  BY FieldNames DEF sock_reset, BlockType
<1>4. r.head = 0 /\ r.tail = 0 /\ r.rx = << >> /\ r.txb = t.txb /\ r.ooo = t.ooo
  BY FieldNames DEF sock_reset, BlockType
<1> QED BY <1>1, <1>2, <1>3, <1>4

(* A block that starts afresh for host ip. *)
Fresh(u) ==
  /\ u.used = TRUE /\ u.fin_tx = FALSE /\ u.fin_rx = FALSE /\ u.fin_pend = FALSE /\ u.retries = 0 /\ u.nagle = << >> /\ u.ka = 0
  /\ u.head = 0 /\ u.tail = 0 /\ u.rx = << >>
LEMMA FreshTyped ==
  ASSUME NEW t, BlockType(t), NEW u, DOMAIN u = Fields, Fresh(u), u.txb = t.txb, u.ooo = t.ooo, u.fin_seq = t.fin_seq,
         u.ip \in Hosts, u.una \in SeqNos, u.nxt \in SeqNos, u.rcv \in SeqNos
  PROVE  BlockType(u) /\ Linked(u)
<1>1. u.ip # "none"
  BY DEF Hosts
<1>2. 0 \in 0..TXQ-1 /\ 0 \in 0..MAX_RETRANS+1 /\ 0 \in 0..KA_CNT+1 /\ 0 <= MAX_RETRANS /\ 0 <= KA_CNT /\ 0 <= RING /\ 0 <= MSS
  BY Sizes
<1>3. << >> \in Seq(Nat) /\ Len(<< >>) = 0
  OBVIOUS
<1> QED BY <1>1, <1>2, <1>3 DEF BlockType, Linked, Fresh

LEMMA ListenDoes ==
  ASSUME NEW t, BlockType(t), NEW h \in Hosts, NEW port
  PROVE  LET u == net_tcp_listen(sock_reset(t), h, port)
         IN /\ BlockType(u) /\ Linked(u) /\ Fresh(u) /\ u.st = "LISTEN" /\ u.ip = h /\ u.sport = port /\ u.dport = 0
            /\ u.txb = t.txb /\ u.ooo = t.ooo
<1> DEFINE r == sock_reset(t)
           u == net_tcp_listen(r, h, port)
<1>1. /\ DOMAIN r = Fields /\ r.used = TRUE /\ r.fin_tx = FALSE /\ r.fin_rx = FALSE /\ r.fin_pend = FALSE
      /\ r.una = 0 /\ r.nxt = 0 /\ r.rcv = 0 /\ r.fin_seq = t.fin_seq /\ r.retries = 0 /\ r.nagle = << >> /\ r.ka = 0
      /\ r.head = 0 /\ r.tail = 0 /\ r.rx = << >> /\ r.txb = t.txb /\ r.ooo = t.ooo
  BY ResetDoes
<1> HIDE DEF r
<1>2. /\ DOMAIN u = Fields /\ u.used = TRUE /\ u.fin_tx = FALSE /\ u.fin_rx = FALSE /\ u.fin_pend = FALSE
      /\ u.una = 0 /\ u.nxt = 0 /\ u.rcv = 0 /\ u.fin_seq = t.fin_seq
  BY <1>1, FieldNames DEF net_tcp_listen
<1>3. u.retries = 0 /\ u.nagle = << >> /\ u.ka = 0 /\ u.head = 0 /\ u.tail = 0 /\ u.rx = << >> /\ u.txb = t.txb /\ u.ooo = t.ooo
  BY <1>1, FieldNames DEF net_tcp_listen
<1>4. u.st = "LISTEN" /\ u.ip = h /\ u.sport = port /\ u.dport = 0
  BY <1>1, FieldNames DEF net_tcp_listen
<1> HIDE DEF u
<1>5. 0 \in SeqNos
  BY Sizes DEF SeqNos
<1>6. Fresh(u)
  BY <1>2, <1>3 DEF Fresh
<1>7. BlockType(u) /\ Linked(u)
  BY <1>2, <1>3, <1>4, <1>5, <1>6, FreshTyped
<1> QED BY <1>3, <1>4, <1>6, <1>7 DEF u, r

LEMMA OpenedDoes ==
  ASSUME NEW t, DOMAIN t = Fields, NEW h, NEW sport, NEW dport
  PROVE  LET u == Opened(t, h, sport, dport)
         IN /\ Same(t, u, {"ip", "sport", "dport", "iss", "una", "nxt"}) /\ u.ip = Peer(h) /\ u.sport = sport
            /\ u.dport = dport /\ u.iss = Iss[h] /\ u.una = Add(Iss[h], 1) /\ u.nxt = Add(Iss[h], 1)
<1> DEFINE u == Opened(t, h, sport, dport)
<1>1. u.ip = Peer(h) /\ u.sport = sport /\ u.dport = dport
  BY FieldNames DEF Opened
<1>2. u.iss = Iss[h] /\ u.una = Add(Iss[h], 1) /\ u.nxt = Add(Iss[h], 1)
  BY FieldNames DEF Opened
<1>3. Same(t, u, {"ip", "sport", "dport", "iss", "una", "nxt"})
  BY FieldNames DEF Opened, Same
<1> HIDE DEF u
<1> QED BY <1>1, <1>2, <1>3 DEF u

(* x asks for a connection of host h from a block that was t.                *)
Asks(x, t, h, sport, dport) ==
  /\ WorkType(x) /\ Linked(x.t) /\ Fresh(x.t) /\ x.t.st = "SYNSENT" /\ x.t.ip = Peer(h)
  /\ x.t.sport = sport /\ x.t.dport = dport /\ x.t.iss = Iss[h] /\ x.t.nxt = Add(Iss[h], 1) /\ x.t.una = Add(Iss[h], 1)
  /\ x.t.txb = t.txb /\ x.t.ooo = t.ooo /\ x.t.ok = FALSE
  /\ \A m \in x.out : Segment(x.t, m, Iss[h], {"SYN"}, << >>)

LEMMA ConnectDoes ==
  ASSUME NEW t, BlockType(t), NEW h \in Hosts, NEW sport, NEW dport
  PROVE  Asks(connect_begin(sock_reset(t), h, sport, dport), t, h, sport, dport)
<1> DEFINE r == sock_reset(t)
           o == Opened(r, h, sport, dport)
           u == [o EXCEPT !.st = "SYNSENT"]
           w == Work(u)
           x == connect_begin(r, h, sport, dport)
<1>1. /\ DOMAIN r = Fields /\ r.used = TRUE /\ r.fin_tx = FALSE /\ r.fin_rx = FALSE /\ r.fin_pend = FALSE
      /\ r.rcv = 0 /\ r.fin_seq = t.fin_seq /\ r.retries = 0 /\ r.nagle = << >> /\ r.ka = 0
      /\ r.head = 0 /\ r.tail = 0 /\ r.rx = << >> /\ r.txb = t.txb /\ r.ooo = t.ooo /\ r.ok = FALSE
  BY ResetDoes
<1> HIDE DEF r
<1>16. /\ Same(r, o, {"ip", "sport", "dport", "iss", "una", "nxt"}) /\ o.ip = Peer(h) /\ o.sport = sport
       /\ o.dport = dport /\ o.iss = Iss[h] /\ o.una = Add(Iss[h], 1) /\ o.nxt = Add(Iss[h], 1)
  BY <1>1, OpenedDoes
<1> HIDE DEF o
<1>17. Same(o, u, {"st"}) /\ u.st = "SYNSENT"
  BY <1>16, FieldNames DEF Same
<1> HIDE DEF u
<1>2. /\ DOMAIN u = Fields /\ u.used = TRUE /\ u.fin_tx = FALSE /\ u.fin_rx = FALSE /\ u.fin_pend = FALSE
      /\ u.rcv = 0 /\ u.fin_seq = t.fin_seq /\ u.ok = FALSE
  BY <1>1, <1>16, <1>17, FieldNames DEF Same
<1>3. u.retries = 0 /\ u.nagle = << >> /\ u.ka = 0 /\ u.head = 0 /\ u.tail = 0 /\ u.rx = << >> /\ u.txb = t.txb /\ u.ooo = t.ooo
  BY <1>1, <1>16, <1>17, FieldNames DEF Same
<1>4. /\ u.st = "SYNSENT" /\ u.ip = Peer(h) /\ u.sport = sport /\ u.dport = dport /\ u.iss = Iss[h]
      /\ u.nxt = Add(Iss[h], 1) /\ u.una = Add(Iss[h], 1)
  BY <1>16, <1>17, FieldNames DEF Same
<1>5. 0 \in SeqNos /\ Iss[h] \in SeqNos /\ Iss[h] \in Int
  BY Sizes DEF SeqNos
<1>6. Add(Iss[h], 1) \in SeqNos
  BY <1>5, AddSubTyped
<1>7. Peer(h) \in Hosts
  BY DEF Peer, Hosts
<1>8. Fresh(u)
  BY <1>2, <1>3 DEF Fresh
<1>9. BlockType(u) /\ Linked(u)
  BY <1>2, <1>3, <1>4, <1>5, <1>6, <1>7, <1>8, FreshTyped
<1>10. IsWork(w) /\ w.t = u /\ w.out = {}
  BY <1>2 DEF Work, IsWork
<1>11. x = tcp_emit(w, u.iss, {"SYN"}, << >>, FALSE)
  BY <1>10, Zenon DEF connect_begin, SynOut, w, u, o
<1> HIDE DEF w, x
<1>12. IsWork(x) /\ x.t = u /\ \A m \in x.out : Segment(u, m, Iss[h], {"SYN"}, << >>)
  BY <1>4, <1>10, <1>11, EmitDoes, ZenonT(60)
<1>13. \A m \in x.out : SegType(m)
  <2>1. << >> \in Seq(Nat)
    OBVIOUS
  <2> QED BY <1>2, <1>4, <1>5, <1>7, <1>12, <2>1 DEF Segment, SegType
<1>14. WorkType(x)
  BY <1>9, <1>12, <1>13 DEF WorkType
<1>15. Asks(x, t, h, sport, dport)
  BY <1>3, <1>2, <1>4, <1>8, <1>9, <1>12, <1>14 DEF Asks
<1> QED BY <1>15 DEF x, r

LEMMA SynOutDoes ==
  ASSUME NEW t, BlockType(t), Linked(t), NEW h \in Hosts, t.iss = Iss[h]
  PROVE  LET x == SynOut(Work(t))
         IN WorkType(x) /\ x.t = t /\ \A m \in x.out : Segment(t, m, Iss[h], {"SYN"}, << >>)
<1>1. IsWork(Work(t)) /\ Work(t).t = t /\ Work(t).out = {}
  BY DEF Work, IsWork, BlockType
<1> DEFINE x == SynOut(Work(t))
<1>2. IsWork(x) /\ x.t = t /\ \A m \in x.out : Segment(t, m, Iss[h], {"SYN"}, << >>)
  <2>1. x = tcp_emit(Work(t), Work(t).t.iss, {"SYN"}, << >>, FALSE)
    BY Zenon DEF SynOut
  <2>2. x = tcp_emit(Work(t), Iss[h], {"SYN"}, << >>, FALSE)
    BY <1>1, <2>1
  <2> HIDE DEF x
  <2> QED BY <1>1, <2>2, EmitDoes
<1> HIDE DEF x
<1>3. Iss[h] \in SeqNos /\ << >> \in Seq(Nat) /\ t.ip \in Hosts /\ t.rcv \in SeqNos
  BY Sizes DEF BlockType, Linked
<1>4. \A m \in x.out : SegType(m)
  BY <1>2, <1>3 DEF Segment, SegType
<1> QED BY <1>2, <1>4 DEF WorkType, x

LEMMA ChildDoes ==
  ASSUME NEW h \in Hosts, NEW l, NEW c, NEW m, SegType(m), BlockType(conns[h][c])
  PROVE  LET x == Child(h, l, c, m)
         IN /\ WorkType(x) /\ Linked(x.t) /\ Fresh(x.t) /\ x.t.st = "SYNRECV" /\ x.t.ip = Peer(h) /\ x.t.lfd = l
            /\ x.t.sport = m.dp /\ x.t.dport = m.sp /\ x.t.nxt = Add(Iss[h], 1) /\ x.t.una = Add(Iss[h], 1)
            /\ x.t.rcv = Add(m.seq, 1) /\ x.t.txb = conns[h][c].txb /\ x.t.ooo = conns[h][c].ooo
            /\ \A g \in x.out : Segment(x.t, g, Iss[h], {"SYN", "ACK"}, << >>)
<1> DEFINE b == conns[h][c]
           r == sock_reset(b)
           o == Opened(r, h, m.dp, m.sp)
           t == ChildBlock(b, h, l, m)
           v == [o EXCEPT !.lfd = l, !.rcv = Add(m.seq, 1), !.wnd = 65535, !.st = "SYNRECV"]
           w == Work(t)
           x == Child(h, l, c, m)
<1>1. x = tcp_emit(w, Iss[h], {"SYN", "ACK"}, << >>, FALSE)
  BY Zenon DEF Child
<1>2. /\ DOMAIN r = Fields /\ r.used = TRUE /\ r.fin_tx = FALSE /\ r.fin_rx = FALSE /\ r.fin_pend = FALSE
      /\ r.fin_seq = b.fin_seq /\ r.retries = 0 /\ r.nagle = << >> /\ r.ka = 0
      /\ r.head = 0 /\ r.tail = 0 /\ r.rx = << >> /\ r.txb = b.txb /\ r.ooo = b.ooo
  BY ResetDoes
<1> HIDE DEF b, r, x
<1>16. /\ Same(r, o, {"ip", "sport", "dport", "iss", "una", "nxt"}) /\ o.ip = Peer(h) /\ o.sport = m.dp
       /\ o.dport = m.sp /\ o.una = Add(Iss[h], 1) /\ o.nxt = Add(Iss[h], 1)
  BY <1>2, OpenedDoes
<1>17. t = v
  BY DEF ChildBlock, r
<1> HIDE DEF o, t
<1>18. Same(o, v, {"lfd", "rcv", "wnd", "st"}) /\ v.lfd = l /\ v.rcv = Add(m.seq, 1) /\ v.st = "SYNRECV"
  <2> DEFINE p == [o EXCEPT !.lfd = l, !.rcv = Add(m.seq, 1)]
             q(a, z) == [p EXCEPT !.wnd = a, !.st = z]
  <2>1. v = q(65535, "SYNRECV")
    OBVIOUS
  <2>2. DOMAIN o = Fields
    BY <1>16 DEF Same
  <2> HIDE DEF v
  <2>3. Same(o, p, {"lfd", "rcv"}) /\ p.lfd = l /\ p.rcv = Add(m.seq, 1)
    BY <2>2, FieldNames DEF Same
  <2> HIDE DEF p
  <2>4. DOMAIN p = Fields
    BY <2>3 DEF Same
  <2>5. \A a, z : q(a, z).lfd = p.lfd /\ q(a, z).rcv = p.rcv /\ q(a, z).st = z
    BY <2>4, FieldNames
  <2>6. \A a, z : Same(p, q(a, z), {"wnd", "st"})
    BY <2>4, FieldNames DEF Same
  <2> HIDE DEF q
  <2>7. Same(p, v, {"wnd", "st"}) /\ v.lfd = p.lfd /\ v.rcv = p.rcv /\ v.st = "SYNRECV"
    BY <2>1, <2>5, <2>6
  <2> QED BY <2>3, <2>7 DEF Same
<1> HIDE DEF v
<1>3. /\ DOMAIN t = Fields /\ t.used = TRUE /\ t.fin_tx = FALSE /\ t.fin_rx = FALSE /\ t.fin_pend = FALSE
      /\ t.fin_seq = b.fin_seq /\ t.retries = 0 /\ t.nagle = << >> /\ t.ka = 0
  BY <1>2, <1>16, <1>17, <1>18, FieldNames DEF Same
<1>4. t.head = 0 /\ t.tail = 0 /\ t.rx = << >> /\ t.txb = b.txb /\ t.ooo = b.ooo
  BY <1>2, <1>16, <1>17, <1>18, FieldNames DEF Same
<1>5. t.lfd = l /\ t.ip = Peer(h) /\ t.sport = m.dp /\ t.dport = m.sp /\ t.st = "SYNRECV"
  BY <1>16, <1>17, <1>18, FieldNames DEF Same
<1>6. t.una = Add(Iss[h], 1) /\ t.nxt = Add(Iss[h], 1) /\ t.rcv = Add(m.seq, 1)
  BY <1>16, <1>17, <1>18, FieldNames DEF Same
<1>7. IsWork(w) /\ w.t = t /\ w.out = {}
  BY <1>3 DEF IsWork, Work
<1> HIDE DEF w
<1>8. Fresh(t)
  BY <1>3, <1>4 DEF Fresh
<1>9. Iss[h] \in SeqNos /\ Iss[h] \in Int /\ m.seq \in Int
  BY Sizes DEF SeqNos, SegType
<1>10. Add(Iss[h], 1) \in SeqNos /\ Add(m.seq, 1) \in SeqNos
  BY <1>9, AddSubTyped
<1>11. Peer(h) \in Hosts /\ BlockType(b)
  BY DEF Peer, Hosts, b
<1>12. BlockType(t) /\ Linked(t)
  BY <1>3, <1>4, <1>5, <1>6, <1>8, <1>10, <1>11, FreshTyped
<1>13. IsWork(x) /\ x.t = t /\ \A g \in x.out : Segment(t, g, Iss[h], {"SYN", "ACK"}, << >>)
  BY <1>1, <1>7, EmitDoes
<1>14. \A g \in x.out : SegType(g)
  <2>1. << >> \in Seq(Nat)
    OBVIOUS
  <2> QED BY <1>5, <1>6, <1>9, <1>10, <1>11, <1>13, <2>1 DEF Segment, SegType
<1>15. WorkType(x)
  BY <1>12, <1>13, <1>14 DEF WorkType
<1> QED BY <1>4, <1>5, <1>6, <1>8, <1>12, <1>13, <1>15 DEF x, b

LEMMA WorkOf == ASSUME NEW t, BlockType(t) PROVE WorkType(Work(t)) /\ Work(t).t = t /\ Work(t).out = {}
BY DEF BlockType, Work, WorkType, IsWork

(* Flags of a call, and a block that its owner gives up. *)
LEMMA FlagsTyped ==
  ASSUME NEW t, BlockType(t), NEW u, Same(t, u, {"ok", "done", "err", "st", "lfd"})
  PROVE  BlockType(u) /\ u.ip = t.ip
<1>1. /\ u.used = t.used /\ u.ip = t.ip /\ u.una = t.una /\ u.nxt = t.nxt /\ u.fin_seq = t.fin_seq
      /\ u.head = t.head /\ u.tail = t.tail /\ u.txb = t.txb /\ u.nagle = t.nagle
      /\ u.retries = t.retries /\ u.ka = t.ka /\ u.fin_pend = t.fin_pend /\ u.fin_tx = t.fin_tx
      /\ u.ooo = t.ooo /\ u.rx = t.rx /\ DOMAIN u = Fields
      /\ u.wnd = t.wnd /\ u.cwnd = t.cwnd /\ u.win_update = t.win_update /\ u.rcv = t.rcv
  BY FieldNames DEF Same
<1> QED BY <1>1 DEF BlockType

LEMMA GivenUp ==
  ASSUME NEW t, BlockType(t)
  PROVE  LET u == [t EXCEPT !.used = FALSE, !.st = "CLOSED"]
         IN BlockType(u) /\ u.used = FALSE /\ Same(t, u, {"used", "st"})
<1> DEFINE u == [t EXCEPT !.used = FALSE, !.st = "CLOSED"]
<1>1. u.used = FALSE
  BY FieldNames DEF BlockType
<1>2. Same(t, u, {"used", "st"})
  BY FieldNames DEF BlockType, Same
<1> HIDE DEF u
<1>3. /\ u.ip = t.ip /\ u.una = t.una /\ u.nxt = t.nxt /\ u.fin_seq = t.fin_seq
      /\ u.head = t.head /\ u.tail = t.tail /\ u.txb = t.txb /\ u.nagle = t.nagle
      /\ u.retries = t.retries /\ u.ka = t.ka /\ u.fin_pend = t.fin_pend /\ u.fin_tx = t.fin_tx
      /\ u.ooo = t.ooo /\ u.rx = t.rx /\ DOMAIN u = Fields
      /\ u.wnd = t.wnd /\ u.cwnd = t.cwnd /\ u.win_update = t.win_update /\ u.rcv = t.rcv
  BY <1>2, FieldNames DEF Same
<1>4. BlockType(u)
  BY <1>1, <1>3 DEF BlockType
<1> QED BY <1>1, <1>2, <1>4 DEF u

LEMMA AcceptReturnDoes ==
  ASSUME NEW t, BlockType(t)
  PROVE  LET u == accept_return(t) IN BlockType(u) /\ Same(t, u, {"done", "err"})
<1> DEFINE u == accept_return(t)
<1>1. Same(t, u, {"done", "err"})
  BY FieldNames DEF accept_return, BlockType, Same
<1> HIDE DEF u
<1>2. Same(t, u, {"ok", "done", "err", "st", "lfd"})
  BY <1>1 DEF Same
<1> QED BY <1>1, <1>2, FlagsTyped DEF u

LEMMA ConnectEndDoes ==
  ASSUME NEW t, BlockType(t)
  PROVE  LET u == connect_end(t)
         IN /\ BlockType(u)
            /\ \/ t.ok /\ Same(t, u, {"done", "err"})
               \/ ~t.ok /\ \E g : BlockType(g) /\ g.used = FALSE /\ Same(t, g, {"used", "st"}) /\ u = Forget(g)
<1> DEFINE f == [t EXCEPT !.done = FALSE, !.err = FALSE]
           g == [t EXCEPT !.used = FALSE, !.st = "CLOSED"]
<1>1. connect_end(t) = IF t.ok THEN f ELSE Forget(g)
  BY Zenon DEF connect_end
<1>2. Same(t, f, {"done", "err"})
  BY FieldNames DEF BlockType, Same
<1> HIDE DEF f
<1>3. Same(t, f, {"ok", "done", "err", "st", "lfd"})
  BY <1>2 DEF Same
<1>4. BlockType(f)
  BY <1>3, FlagsTyped
<1>5. BlockType(g) /\ g.used = FALSE /\ Same(t, g, {"used", "st"})
  BY GivenUp
<1> HIDE DEF g
<1>6. BlockType(Forget(g))
  BY <1>5, ForgetDoes
<1>7. CASE t.ok
  BY <1>1, <1>2, <1>4, <1>7
<1>8. CASE ~t.ok
  BY <1>1, <1>5, <1>6, <1>8
<1> QED BY <1>7, <1>8

LEMMA CloseEndDoes ==
  ASSUME NEW t, BlockType(t)
  PROVE  LET u == close_end(t)
         IN /\ BlockType(u)
            /\ \E g : BlockType(g) /\ (g = t \/ (g.used = FALSE /\ Same(t, g, {"used", "st"}))) /\ u = Forget(g)
<1> DEFINE g == [t EXCEPT !.used = FALSE, !.st = "CLOSED"]
<1>1. close_end(t) \in {Forget(t), Forget(g)}
  BY DEF close_end
<1>2. BlockType(g) /\ g.used = FALSE /\ Same(t, g, {"used", "st"})
  BY GivenUp
<1> HIDE DEF g
<1>3. BlockType(Forget(g)) /\ BlockType(Forget(t))
  BY <1>2, ForgetDoes
<1> QED BY <1>1, <1>2, <1>3

(* The FIN of a close takes the next sequence number. *)
Closing(t, u) ==
  /\ Same(t, u, {"fin_tx", "fin_seq", "nxt", "st", "fin_pend"}) /\ u.fin_tx = TRUE /\ u.fin_seq = t.nxt
  /\ u.nxt = Add(t.nxt, 1)
  /\ t.used /\ t.st \in {"ESTAB", "CLOSEW"} /\ u.st \in {"FINW1", "LASTACK"}
LEMMA CloseBeginDoes ==
  ASSUME NEW t, BlockType(t)
  PROVE  LET x == close_begin(t)
         IN /\ WorkType(x)
            /\ \/ x = Work(t)
               \/ Closing(t, x.t) /\ \A m \in x.out : Segment(x.t, m, t.nxt, {"FIN", "ACK"}, << >>)
<1> DEFINE u(st) == [t EXCEPT !.fin_tx = TRUE, !.fin_seq = t.nxt, !.nxt = Add(@, 1), !.st = st, !.fin_pend = TRUE]
           x == close_begin(t)
<1>1. \/ x = Work(t)
      \/ t.used /\ t.st = "ESTAB" /\ x = SendFin(Work(u("FINW1")))
      \/ t.used /\ t.st = "CLOSEW" /\ x = SendFin(Work(u("LASTACK")))
  BY Zenon DEF close_begin
<1> HIDE DEF x
<1>2. CASE x = Work(t)
  BY <1>2, WorkOf DEF x
<1>3. ASSUME NEW st \in {"FINW1", "LASTACK"}, t.used, t.st \in {"ESTAB", "CLOSEW"}, x = SendFin(Work(u(st)))
      PROVE  WorkType(x) /\ Closing(t, x.t) /\ \A m \in x.out : Segment(x.t, m, t.nxt, {"FIN", "ACK"}, << >>)
  <2> DEFINE v == u(st)
  <2>1. v.fin_tx = TRUE /\ v.fin_seq = t.nxt /\ v.nxt = Add(t.nxt, 1) /\ v.st = st
    BY FieldNames DEF BlockType
  <2>2. Same(t, v, {"fin_tx", "fin_seq", "nxt", "st", "fin_pend"})
    BY FieldNames DEF BlockType, Same
  <2>3. x = SendFin(Work(v))
    BY <1>3
  <2> HIDE DEF v, u
  <2>4. /\ v.used = t.used /\ v.ip = t.ip /\ v.una = t.una /\ v.head = t.head /\ v.tail = t.tail /\ v.txb = t.txb
        /\ v.nagle = t.nagle /\ v.retries = t.retries /\ v.ka = t.ka /\ v.ooo = t.ooo /\ v.rx = t.rx /\ DOMAIN v = Fields
        /\ v.wnd = t.wnd /\ v.cwnd = t.cwnd /\ v.win_update = t.win_update /\ v.rcv = t.rcv
    BY <2>2, FieldNames DEF Same
  <2>5. Add(t.nxt, 1) \in SeqNos
    <3>1. t.nxt \in Int
      BY DEF BlockType, SeqNos
    <3> QED BY <3>1, AddSubTyped
  <2>6. BlockType(v)
    BY <2>1, <2>4, <2>5 DEF BlockType
  <2>7. v.ip # "none" /\ Linked(v)
    BY <1>3, <2>4 DEF BlockType, Linked
  <2>8. WorkType(Work(v)) /\ Work(v).t = v /\ Work(v).out = {}
    BY <2>6, WorkOf
  <2>9. IsWork(x) /\ x.t = v /\ \A m \in x.out : Segment(v, m, t.nxt, {"FIN", "ACK"}, << >>)
    <3>1. IsWork(Work(v))
      BY <2>8 DEF WorkType
    <3> QED BY <2>1, <2>3, <2>8, <3>1, SendFinDoes
  <2>10. \A m \in x.out : SegType(m)
    <3>1. << >> \in Seq(Nat) /\ t.nxt \in SeqNos /\ v.ip \in Hosts /\ v.rcv \in SeqNos
      BY <2>6, <2>7 DEF BlockType
    <3> QED BY <2>9, <3>1 DEF Segment, SegType
  <2>11. WorkType(x)
    BY <2>6, <2>9, <2>10 DEF WorkType
  <2>12. Closing(t, v)
    BY <1>3, <2>1, <2>2 DEF Closing
  <2> QED BY <2>9, <2>11, <2>12
<1> HIDE DEF u
<1>4. CASE t.used /\ t.st = "ESTAB" /\ x = SendFin(Work(u("FINW1")))
  BY <1>3, <1>4 DEF x
<1>5. CASE t.used /\ t.st = "CLOSEW" /\ x = SendFin(Work(u("LASTACK")))
  BY <1>3, <1>5 DEF x
<1> QED BY <1>1, <1>2, <1>4, <1>5 DEF x
----------------------------------------------------------------------------
(* Calls that move bytes. *)
Rest(c) == SubSeq(c.data, c.pos + 1, Len(c.data))
CallType(c) == c.data \in Seq(Nat) /\ Len(c.data) <= MSS /\ c.pos \in Nat

LEMMA RestTyped ==
  ASSUME NEW c, CallType(c)
  PROVE  Rest(c) \in Seq(Nat) /\ Len(Rest(c)) <= MSS /\ Len(Rest(c)) = IF c.pos < Len(c.data) THEN Len(c.data) - c.pos ELSE 0
<1>1. c.data \in Seq(Nat) /\ c.pos + 1 \in Nat /\ c.pos + 1 >= 1 /\ Len(c.data) \in Nat /\ Len(c.data) <= MSS /\ c.pos \in Nat
  BY DEF CallType
<1>2. SubSeq(c.data, c.pos + 1, Len(c.data)) \in Seq(Nat)
  BY <1>1
<1>3. Len(SubSeq(c.data, c.pos + 1, Len(c.data))) = IF c.pos < Len(c.data) THEN Len(c.data) - c.pos ELSE 0
  BY <1>1
<1>4. (IF c.pos < Len(c.data) THEN Len(c.data) - c.pos ELSE 0) <= MSS
  BY <1>1, Sizes
<1> QED BY <1>2, <1>3, <1>4 DEF Rest

(* Block u of t with the bytes data waiting in nagle_buf. *)
Waits(t, u, data) == Same(t, u, {"nagle"}) /\ u.nagle = data
LEMMA WaitsTyped ==
  ASSUME NEW t, BlockType(t), NEW data \in Seq(Nat), Len(data) <= MSS, NEW u, Waits(t, u, data)
  PROVE  BlockType(u) /\ u.ip = t.ip /\ u.wnd = t.wnd
<1>1. /\ u.used = t.used /\ u.ip = t.ip /\ u.una = t.una /\ u.nxt = t.nxt /\ u.fin_seq = t.fin_seq
      /\ u.head = t.head /\ u.tail = t.tail /\ u.txb = t.txb
      /\ u.retries = t.retries /\ u.ka = t.ka /\ u.fin_pend = t.fin_pend /\ u.fin_tx = t.fin_tx
      /\ u.ooo = t.ooo /\ u.rx = t.rx /\ DOMAIN u = Fields
      /\ u.wnd = t.wnd /\ u.cwnd = t.cwnd /\ u.win_update = t.win_update /\ u.rcv = t.rcv
  BY FieldNames DEF Waits, Same
<1> QED BY <1>1 DEF BlockType, Waits

(* A turn of net_tcp_send for call c on block t: nothing is left, bytes join *)
(* nagle_buf (and leave it, if they fill a segment), they are all put there, *)
(* the call waits, or they are sent.                                         *)
TurnDone(t, c, q) == Len(Rest(c)) = 0 /\ q.x = Work(t) /\ q.pos = c.pos /\ q.r = "true"
TurnJoins(t, c, q) ==
  \E w : \E n \in 0..Len(Rest(c)) :
    /\ n = Min({Len(Rest(c)), MSS - Len(t.nagle)}) /\ t.nagle # << >> /\ Len(Rest(c)) > 0
    /\ WorkType(w) /\ w.out = {} /\ Waits(t, w.t, t.nagle \o SubSeq(Rest(c), 1, n))
    /\ q.x = nagle_flush(w) /\ q.pos = c.pos + n /\ q.r = IF q.x.t.nagle # << >> THEN "true" ELSE "more"
TurnKeeps(t, c, q) ==
  /\ t.nagle = << >> /\ Len(Rest(c)) > 0 /\ WorkType(q.x) /\ q.x.out = {} /\ Waits(t, q.x.t, Rest(c))
  /\ q.pos = Len(c.data) /\ q.r = "true"
TurnWaits(t, c, q) == q.x = Work(t) /\ q.pos = c.pos /\ q.r = "wait"
TurnSends(t, c, q) ==
  /\ t.nagle = << >> /\ Linked(t) /\ ~RingFull(t) /\ Len(Rest(c)) > 0 /\ q.pos = Len(c.data) /\ q.r = "true"
  /\ WorkType(q.x) /\ Linked(q.x.t) /\ Sends(t, q.x.t, Rest(c), {"lt"})
  /\ \A m \in q.x.out : Segment(t, m, t.nxt, {"ACK", "PSH"}, Rest(c))

LEMMA JoinTyped ==
  ASSUME NEW t, BlockType(t), NEW d \in Seq(Nat), d # << >>
  PROVE  LET n == Min({Len(d), MSS - Len(t.nagle)})
             w == Work([t EXCEPT !.nagle = @ \o SubSeq(d, 1, n)])
         IN /\ n \in 0..Len(d) /\ WorkType(w) /\ w.out = {} /\ Waits(t, w.t, t.nagle \o SubSeq(d, 1, n))
<1> DEFINE n == Min({Len(d), MSS - Len(t.nagle)})
           s == t.nagle \o SubSeq(d, 1, n)
           u == [t EXCEPT !.nagle = @ \o SubSeq(d, 1, n)]
<1>1. t.nagle \in Seq(Nat) /\ Len(t.nagle) \in Nat /\ Len(t.nagle) <= MSS /\ Len(d) \in Nat
  BY DEF BlockType
<1>2. MSS - Len(t.nagle) \in Nat
  BY <1>1, Sizes
<1>3. n \in Nat /\ n <= Len(d) /\ n <= MSS - Len(t.nagle)
  <2>1. n = IF Len(d) <= MSS - Len(t.nagle) THEN Len(d) ELSE MSS - Len(t.nagle)
    BY <1>1, <1>2, MinOfTwo
  <2> HIDE DEF n
  <2> QED BY <1>1, <1>2, <2>1
<1>4. u.nagle = s /\ Same(t, u, {"nagle"})
  <2>1. DOMAIN t = Fields
    BY DEF BlockType
  <2> HIDE DEF n
  <2>2. u.nagle = s
    BY <2>1, FieldNames
  <2>3. Same(t, u, {"nagle"})
    BY <2>1, FieldNames DEF Same
  <2> QED BY <2>2, <2>3
<1> HIDE DEF n, u
<1>5. SubSeq(d, 1, n) \in Seq(Nat) /\ Len(SubSeq(d, 1, n)) = n
  BY <1>1, <1>3
<1>6. s \in Seq(Nat) /\ Len(s) = Len(t.nagle) + n
  BY <1>1, <1>5, Joined
<1> HIDE DEF s
<1>7. Len(s) <= MSS
  <2>1. \A k, j, z \in Nat : j <= z - k => k + j <= z
    OBVIOUS
  <2>2. MSS \in Nat
    BY Sizes
  <2> QED BY <1>1, <1>3, <1>6, <2>1, <2>2
<1>8. BlockType(u)
  BY <1>4, <1>6, <1>7, WaitsTyped DEF Waits
<1>9. WorkType(Work(u)) /\ Work(u).t = u /\ Work(u).out = {}
  BY <1>8, WorkOf
<1>10. n \in 0..Len(d) /\ WorkType(Work(u)) /\ Work(u).out = {} /\ Waits(t, Work(u).t, s)
  BY <1>1, <1>3, <1>4, <1>9 DEF Waits
<1> QED BY <1>10 DEF s, u, n

LEMMA KeepTyped ==
  ASSUME NEW t, BlockType(t), NEW d \in Seq(Nat), Len(d) <= MSS
  PROVE  LET w == Work([t EXCEPT !.nagle = d])
         IN WorkType(w) /\ w.out = {} /\ Waits(t, w.t, d)
<1> DEFINE u == [t EXCEPT !.nagle = d]
<1>1. DOMAIN t = Fields
  BY DEF BlockType
<1>2. u.nagle = d /\ Same(t, u, {"nagle"})
  BY <1>1, FieldNames DEF Same
<1> HIDE DEF u
<1>3. BlockType(u)
  BY <1>2, WaitsTyped DEF Waits
<1>4. WorkType(Work(u)) /\ Work(u).t = u /\ Work(u).out = {}
  BY <1>3, WorkOf
<1> QED BY <1>2, <1>4 DEF Waits, u

LEMMA SendNow ==
  ASSUME NEW t, BlockType(t), Linked(t), NEW d \in Seq(Nat), d # << >>, Len(d) <= MSS
  PROVE  LET x == [Transmit(Work(t), d) EXCEPT !.t.lt = Max({@ - 1, 0})]
         IN /\ WorkType(x) /\ Linked(x.t) /\ Sends(t, x.t, d, {"lt"})
            /\ \A m \in x.out : Segment(t, m, t.nxt, {"ACK", "PSH"}, d)
<1> DEFINE y == Transmit(Work(t), d)
           x == [y EXCEPT !.t.lt = Max({@ - 1, 0})]
<1>1. WorkType(Work(t)) /\ Work(t).t = t /\ Work(t).out = {}
  BY WorkOf
<1>2. IsWork(y) /\ Sends(t, y.t, d, {}) /\ WorkType(y) /\ Linked(y.t) /\ \A m \in y.out : Segment(t, m, t.nxt, {"ACK", "PSH"}, d)
  BY <1>1, TransmitTyped
<1> HIDE DEF y
<1>3. IsWork(x) /\ x.out = y.out /\ Same(y.t, x.t, {"lt"})
  BY <1>2, FieldNames DEF IsWork, Same
<1> HIDE DEF x
<1>4. x.t.txb = y.t.txb /\ x.t.nxt = y.t.nxt /\ x.t.head = y.t.head /\ x.t.nagle = y.t.nagle
  BY <1>3, FieldNames DEF Same
<1>5. Same(t, x.t, {"txb", "nxt", "head"} \cup {"lt"}) /\ y.t.nagle = t.nagle
  BY <1>2, <1>3, FieldNames DEF Same, Sends
<1>6. Sends(t, x.t, d, {"lt"})
  BY <1>2, <1>4, <1>5 DEF Sends
<1>7. WorkType(x) /\ Linked(x.t)
  <2>1. WorkType(Work(t)) /\ Linked(Work(t).t) /\ Sends(Work(t).t, x.t, d, {"lt"}) /\ x.t.nagle \in {Work(t).t.nagle, << >>}
    BY <1>1, <1>4, <1>5, <1>6
  <2>2. \A m \in x.out : m \in Work(t).out \/ Segment(Work(t).t, m, Work(t).t.nxt, {"ACK", "PSH"}, d)
    BY <1>1, <1>2, <1>3
  <2>3. {"lt"} \in SUBSET {"nagle", "lt"}
    OBVIOUS
  <2> QED BY <1>3, <2>1, <2>2, <2>3, SendsTyped
<1> QED BY <1>2, <1>3, <1>6, <1>7 DEF x, y
LEMMA NoRoom ==
  ASSUME NEW t, BlockType(t), ~Linked(t), NEW n \in Nat, n > 0
  PROVE  ~(Sub(t.nxt, t.una) + n <= Min({t.wnd, t.cwnd})) /\ ~(Sub(t.nxt, t.una) + n <= t.wnd)
<1>1. t.wnd = 0 /\ t.cwnd = 0 /\ t.nxt \in Int /\ t.una \in Int
  BY DEF BlockType, Linked, SeqNos
<1>2. Min({t.wnd, t.cwnd}) = 0
  <2>1. Min({0, 0}) = 0
    BY MinOfTwo
  <2> QED BY <1>1, <2>1
<1>3. Sub(t.nxt, t.una) \in SeqNos
  BY <1>1, AddSubTyped
<1>4. Sub(t.nxt, t.una) \in Nat
  BY <1>3, Sizes DEF SeqNos
<1> QED BY <1>1, <1>2, <1>4

LEMMA SendTurnDoes ==
  ASSUME NEW t, BlockType(t), NEW c, CallType(c)
  PROVE  LET q == send_turn(t, c)
         IN TurnDone(t, c, q) \/ TurnJoins(t, c, q) \/ TurnKeeps(t, c, q) \/ TurnWaits(t, c, q) \/ TurnSends(t, c, q)
<1> DEFINE rem == Rest(c)
           n == Len(rem)
           add == Min({n, MSS - Len(t.nagle)})
           w == Work([t EXCEPT !.nagle = @ \o SubSeq(rem, 1, add)])
           joined == nagle_flush(w)
           kept == Work([t EXCEPT !.nagle = rem])
           flight == Sub(t.nxt, t.una)
           room == ~RingFull(t) /\ \/ flight + n <= Min({t.wnd, t.cwnd})
                                   \/ t.lt > 0 /\ flight + n <= t.wnd
           sent == [Transmit(Work(t), rem) EXCEPT !.t.lt = Max({@ - 1, 0})]
           ret(x, p, r) == [x |-> x, pos |-> p, r |-> r]
           q == send_turn(t, c)
<1>1. q = CASE n = 0 -> ret(Work(t), c.pos, "true")
            [] n > 0 /\ t.nagle # << >> -> ret(joined, c.pos + add, IF joined.t.nagle # << >> THEN "true" ELSE "more")
            [] n > 0 /\ t.nagle = << >> /\ n < MSS /\ c.inflight -> ret(kept, Len(c.data), "true")
            [] n > 0 /\ t.nagle = << >> /\ ~(n < MSS /\ c.inflight) /\ ~room -> ret(Work(t), c.pos, "wait")
            [] OTHER -> ret(sent, Len(c.data), "true")
  BY Zenon DEF send_turn, Rest
<1>2. rem \in Seq(Nat) /\ n \in Nat /\ n <= MSS /\ (n > 0 => rem # << >>)
  BY RestTyped
<1> HIDE DEF rem, n, q, joined, kept, sent, room, ret
<1>3. CASE n = 0
  <2>1. q = ret(Work(t), c.pos, "true")
    BY <1>1, <1>3
  <2> QED BY <1>3, <2>1 DEF TurnDone, rem, n, q, ret
<1>4. CASE n > 0 /\ t.nagle # << >>
  <2>1. q = ret(joined, c.pos + add, IF joined.t.nagle # << >> THEN "true" ELSE "more")
    <3>1. n # 0
      BY <1>2, <1>4
    <3> HIDE DEF add
    <3> QED BY <1>1, <1>4, <3>1
  <2>2. q.x = nagle_flush(w) /\ q.pos = c.pos + add /\ q.r = IF q.x.t.nagle # << >> THEN "true" ELSE "more"
    <3> HIDE DEF add, w
    <3> QED BY <2>1 DEF joined, ret
  <2>3. add \in 0..n /\ WorkType(w) /\ w.out = {} /\ Waits(t, w.t, t.nagle \o SubSeq(rem, 1, add))
    BY <1>2, <1>4, JoinTyped DEF n
  <2> HIDE DEF w
  <2>4. add = Min({Len(rem), MSS - Len(t.nagle)})
    BY DEF n
  <2> HIDE DEF add
  <2>5. TurnJoins(t, c, q)
    BY <1>4, <2>2, <2>3, <2>4 DEF TurnJoins, rem, n
  <2> QED BY <2>5 DEF q
<1>5. CASE n > 0 /\ t.nagle = << >> /\ n < MSS /\ c.inflight
  <2>1. q = ret(kept, Len(c.data), "true")
    <3>1. n # 0
      BY <1>2, <1>5
    <3> QED BY <1>1, <1>5, <3>1
  <2>2. WorkType(kept) /\ kept.out = {} /\ Waits(t, kept.t, rem)
    BY <1>2, KeepTyped DEF n, kept
  <2>3. TurnKeeps(t, c, q)
    BY <1>5, <2>1, <2>2 DEF TurnKeeps, rem, n, ret
  <2> QED BY <2>3 DEF q
<1>6. CASE n > 0 /\ t.nagle = << >> /\ ~(n < MSS /\ c.inflight) /\ ~room
  <2>1. q = ret(Work(t), c.pos, "wait")
    <3>1. n # 0
      BY <1>2, <1>6
    <3> QED BY <1>1, <1>6, <3>1
  <2> QED BY <2>1 DEF TurnWaits, q, ret
<1>7. CASE n > 0 /\ t.nagle = << >> /\ ~(n < MSS /\ c.inflight) /\ room
  <2>1. q = ret(sent, Len(c.data), "true")
    <3>1. n # 0
      BY <1>2, <1>7
    <3> QED BY <1>1, <1>7, <3>1
  <2>2. Linked(t)
    BY <1>2, <1>7, NoRoom DEF room
  <2>3. ~RingFull(t)
    BY <1>7 DEF room
  <2>4. /\ WorkType(sent) /\ Linked(sent.t) /\ Sends(t, sent.t, rem, {"lt"})
        /\ \A m \in sent.out : Segment(t, m, t.nxt, {"ACK", "PSH"}, rem)
    BY <1>2, <1>7, <2>2, SendNow DEF n, sent
  <2>5. TurnSends(t, c, q)
    BY <1>7, <2>1, <2>2, <2>3, <2>4 DEF TurnSends, rem, n, ret
  <2> QED BY <2>5 DEF q
<1>8. n = 0 \/ n > 0
  BY <1>2
<1> QED BY <1>3, <1>4, <1>5, <1>6, <1>7, <1>8

LEMMA SendTurnTyped ==
  ASSUME NEW t, BlockType(t), NEW c, CallType(c)
  PROVE  WorkType(send_turn(t, c).x) /\ send_turn(t, c).pos \in Nat
<1> DEFINE q == send_turn(t, c)
<1>1. TurnDone(t, c, q) \/ TurnJoins(t, c, q) \/ TurnKeeps(t, c, q) \/ TurnWaits(t, c, q) \/ TurnSends(t, c, q)
  BY SendTurnDoes
<1> HIDE DEF q
<1>2. c.pos \in Nat /\ Len(c.data) \in Nat
  BY DEF CallType
<1>3. WorkType(Work(t))
  BY WorkOf
<1>4. CASE TurnJoins(t, c, q)
  <2>1. PICK w : \E n \in 0..Len(Rest(c)) : WorkType(w) /\ Waits(t, w.t, t.nagle \o SubSeq(Rest(c), 1, n))
                                        /\ q.x = nagle_flush(w) /\ q.pos = c.pos + n
    BY <1>4 DEF TurnJoins
  <2>2. Linked(w.t) \/ w.t.wnd = 0
    <3>1. w.t.wnd = t.wnd /\ w.t.ip = t.ip
      BY <2>1, FieldNames DEF Waits, Same
    <3> QED BY <3>1 DEF Linked, BlockType
  <2>3. WorkType(q.x)
    BY <2>1, <2>2, FlushTyped
  <2> QED BY <1>2, <2>1, <2>3 DEF q
<1>5. CASE TurnDone(t, c, q) \/ TurnWaits(t, c, q)
  BY <1>2, <1>3, <1>5 DEF TurnDone, TurnWaits, q
<1>6. CASE TurnKeeps(t, c, q) \/ TurnSends(t, c, q)
  BY <1>2, <1>6 DEF TurnKeeps, TurnSends, q
<1> QED BY <1>1, <1>4, <1>5, <1>6

(* net_tcp_recv takes bytes from the front of the ring. *)
LEMMA RecvDoes ==
  ASSUME NEW t, BlockType(t), NEW cap \in Nat
  PROVE  LET x == net_tcp_recv(t, cap)
             n == Min({cap, Len(t.rx)})
         IN /\ WorkType(x) /\ Same(t, x.t, Timing \cup {"rx", "win_update"}) /\ x.t.rx = SubSeq(t.rx, n + 1, Len(t.rx))
            /\ \A m \in x.out : PlainAck(t, m)
<1> DEFINE n == Min({cap, Len(t.rx)})
           y == [t EXCEPT !.rx = SubSeq(@, n + 1, Len(@))]
           z == [y EXCEPT !.win_update = FALSE]
           x == net_tcp_recv(t, cap)
           rest == SubSeq(t.rx, n + 1, Len(t.rx))
<1>1. \/ x = Work(y)
      \/ y.win_update /\ x = tcp_ack_now(Work(z))
  BY Zenon DEF net_tcp_recv
<1>2. DOMAIN t = Fields /\ t.rx \in Seq(Nat) /\ Len(t.rx) \in Nat /\ Len(t.rx) <= RING
  BY DEF BlockType
<1>3. n \in Nat /\ n <= Len(t.rx)
  <2>1. n = IF cap <= Len(t.rx) THEN cap ELSE Len(t.rx)
    BY <1>2, MinOfTwo
  <2> HIDE DEF n
  <2> QED BY <1>2, <2>1
<1> HIDE DEF n, x
<1>4. rest \in Seq(Nat) /\ Len(rest) <= RING
  <2>1. rest \in Seq(Nat) /\ Len(rest) <= Len(t.rx)
    BY <1>2, <1>3
  <2>2. RING \in Nat /\ Len(rest) \in Nat
    BY <2>1, Sizes
  <2> HIDE DEF rest
  <2> QED BY <1>2, <2>1, <2>2
<1>5. y.rx = rest /\ Same(t, y, {"rx"})
  <2>1. y.rx = rest
    BY <1>2, FieldNames
  <2>2. Same(t, y, {"rx"})
    BY <1>2, FieldNames DEF Same
  <2> QED BY <2>1, <2>2
<1> HIDE DEF y, rest
<1>6. z.win_update = FALSE /\ Same(y, z, {"win_update"})
  BY <1>5, FieldNames DEF Same
<1> HIDE DEF z
<1>7. /\ y.used = t.used /\ y.ip = t.ip /\ y.una = t.una /\ y.nxt = t.nxt /\ y.fin_seq = t.fin_seq
      /\ y.head = t.head /\ y.tail = t.tail /\ y.txb = t.txb /\ y.nagle = t.nagle
      /\ y.retries = t.retries /\ y.ka = t.ka /\ y.fin_pend = t.fin_pend /\ y.fin_tx = t.fin_tx
      /\ y.ooo = t.ooo /\ DOMAIN y = Fields
      /\ y.wnd = t.wnd /\ y.cwnd = t.cwnd /\ y.win_update = t.win_update /\ y.rcv = t.rcv
  BY <1>5, FieldNames DEF Same
<1>8. BlockType(y)
  BY <1>4, <1>5, <1>7 DEF BlockType
<1>9. /\ z.used = t.used /\ z.ip = t.ip /\ z.una = t.una /\ z.nxt = t.nxt /\ z.fin_seq = t.fin_seq
      /\ z.head = t.head /\ z.tail = t.tail /\ z.txb = t.txb /\ z.nagle = t.nagle
      /\ z.retries = t.retries /\ z.ka = t.ka /\ z.fin_pend = t.fin_pend /\ z.fin_tx = t.fin_tx
      /\ z.ooo = t.ooo /\ DOMAIN z = Fields /\ z.sport = t.sport /\ z.dport = t.dport
      /\ z.wnd = t.wnd /\ z.cwnd = t.cwnd /\ z.rcv = t.rcv /\ z.rx = rest
  BY <1>5, <1>6, FieldNames DEF Same
<1>10. BlockType(z)
  BY <1>4, <1>6, <1>9 DEF BlockType
<1>11. CASE x = Work(y)
  <2>1. WorkType(x) /\ x.t = y /\ x.out = {}
    BY <1>8, <1>11, WorkOf
  <2>2. Same(t, x.t, Timing \cup {"rx", "win_update"})
    BY <1>5, <2>1 DEF Same
  <2> QED BY <1>5, <2>1, <2>2 DEF x, rest, n
<1>12. CASE y.win_update /\ x = tcp_ack_now(Work(z))
  <2>1. WorkType(Work(z)) /\ Work(z).t = z /\ Work(z).out = {}
    BY <1>10, WorkOf
  <2>2. Linked(z)
    BY <1>7, <1>9, <1>12 DEF BlockType, Linked
  <2>3. Takes(Work(z), x)
    BY <1>12, <2>1, AckNowTakes
  <2>4. WorkType(x)
    BY <2>1, <2>2, <2>3, TakesTyped
  <2>5. Same(z, x.t, Timing)
    BY <1>12, <2>1, AckNowDoes DEF WorkType
  <2>6. x.t.rx = rest
    BY <1>9, <2>5, FieldNames DEF Same, Timing
  <2>7. Same(t, x.t, Timing \cup {"rx", "win_update"})
    BY <1>5, <1>6, <2>5 DEF Same
  <2>8. \A m \in x.out : PlainAck(t, m)
    BY <1>9, <2>1, <2>3 DEF Takes, PlainAck
  <2> QED BY <2>4, <2>6, <2>7, <2>8 DEF x, rest, n
<1> QED BY <1>1, <1>11, <1>12
----------------------------------------------------------------------------
(* A call that waits for done is not made to wait again. *)
LEMMA PollKeepsDone ==
  ASSUME NEW x, WorkType(x), Linked(x.t), x.t.done, NEW due
  PROVE  tcp_poll(x, due).t.done
<1>1. CASE tcp_poll(x, due) \in {x, PollAck(x), PollProbe(x)}
  <2>1. PollProbe(x).t = x.t
    <3>1. PollProbe(x) = x \/ PollProbe(x) = tcp_emit(x, x.t.nxt, {"ACK", "PSH"}, <<ProbeByte>>, FALSE)
      BY Zenon DEF PollProbe
    <3>2. tcp_emit(x, x.t.nxt, {"ACK", "PSH"}, <<ProbeByte>>, FALSE).t = x.t
      BY EmitDoes DEF WorkType
    <3> QED BY <3>1, <3>2
  <2>2. PollAck(x).t.done
    BY PollAckMild DEF Mild, Ranges
  <2> QED BY <1>1, <2>1, <2>2
<1>2. CASE tcp_poll(x, due) \in {PollFin(x), PollRto(x), PollKeepalive(x)} /\ x.t.used
  <2>1. Mild(x, tcp_poll(x, due))
    BY <1>2, PollFinMild, PollRtoMild, PollKeepaliveMild
  <2> QED BY <2>1 DEF Mild, Ranges
<1>3. CASE /\ x.t.st \in {"TIMEW", "FINW1", "FINW2"} /\ x.t.used
           /\ \E w : /\ tcp_poll(x, due) = [w EXCEPT !.t = Forget(@)] /\ IsWork(w) /\ w.out = x.out /\ w.t.used = FALSE
                     /\ Same(x.t, w.t, {"used", "st", "ok", "done"}) /\ (x.t.done => w.t.done)
  <2>1. PICK w : /\ tcp_poll(x, due) = [w EXCEPT !.t = Forget(@)] /\ IsWork(w) /\ w.out = x.out /\ w.t.used = FALSE
                 /\ Same(x.t, w.t, {"used", "st", "ok", "done"}) /\ w.t.done
    BY <1>3
  <2>2. tcp_poll(x, due).t.done = w.t.done
    BY <2>1, EndedDoes
  <2> QED BY <2>1, <2>2
<1> QED BY <1>1, <1>2, <1>3, PollCases

LEMMA HandleConnKeepsDone ==
  ASSUME NEW x, WorkType(x), Linked(x.t), x.t.done, NEW m, SegType(m)
  PROVE  HandleConn(x, m).t.done
<1> DEFINE a == HandleAck(x, m)
           d == HandleData(a, m)
           f == HandleFin(d, m)
<1>1. \/ HandleConn(x, m) = HandleRst(x)
      \/ x.t.st = "SYNSENT" /\ HandleConn(x, m) = HandleSynSent(x, m)
      \/ x.t.st = "SYNRECV" /\ HandleConn(x, m) = HandleSynRecv(x, m)
      \/ HandleConn(x, m) = IF x.t.fin_tx THEN [f EXCEPT !.t = Forget(@)] ELSE f
  BY DEF HandleConn
<1>2. PICK z : Carried(x, m, z, a, d, f)
  BY CarriedDoes
<1>3. HandleFin(d, m) \in {d, ack_delayed(d)} \/ Finished(d, HandleFin(d, m))
  BY <1>2, HandleFinDoes DEF Carried
<1> HIDE DEF f, d, a
<1>4. z.t.done
  BY <1>2 DEF Carried, Mild, Ranges
<1>5. a.t.done
  <2>1. CASE a = z
    BY <1>4, <2>1
  <2>2. CASE a # z
    <3>1. Sends(z.t, a.t, z.t.nagle, {"nagle"})
      BY <1>2, <2>2, FlushTyped DEF Carried
    <3>2. a.t.done = z.t.done
      BY <3>1, FieldNames DEF Sends, Same
    <3> QED BY <1>4, <3>2
  <2> QED BY <2>1, <2>2
<1>6. d.t.done
  BY <1>2, <1>5, ReceivedKeeps DEF Carried, Takes
<1>7. f.t.done
  <2>1. ack_delayed(d).t.done
    BY <1>2, <1>6, AckDelayedTakes, ReceivedKeeps DEF Carried, Takes
  <2> QED BY <1>3, <1>6, <2>1 DEF Finished, f
<1>8. [f EXCEPT !.t = Forget(@)].t.done
  <2>1. [f EXCEPT !.t = Forget(@)].t = Forget(f.t) /\ BlockType(f.t)
    BY <1>2, ForgetWork DEF Carried, WorkType
  <2> QED BY <1>7, <2>1, ForgetDoes
<1>9. HandleRst(x).t.done
  BY HandleRstMild DEF Mild, Ranges
<1>10. x.t.st = "SYNRECV" => HandleSynRecv(x, m).t.done
  BY HandleSynRecvMild DEF Mild, Ranges
<1>11. HandleSynSent(x, m).t.done
  BY HandleSynSentDoes
<1> QED BY <1>1, <1>7, <1>8, <1>9, <1>10, <1>11

(* A connection that is being opened by host h: it waits for the answer, and *)
(* the wait is over as soon as anything else has happened.                   *)
Asking(h, t) == t.done \/ (Linked(t) /\ t.st = "SYNSENT" /\ t.iss = Iss[h])

LEMMA PollAsking ==
  ASSUME NEW x, WorkType(x), Linked(x.t), NEW due, NEW h, Asking(h, x.t)
  PROVE  Asking(h, tcp_poll(x, due).t)
<1>1. CASE x.t.done
  BY <1>1, PollKeepsDone DEF Asking
<1>2. CASE x.t.st = "SYNSENT"
  <2>1. tcp_poll(x, due) = x
    BY <1>2 DEF tcp_poll
  <2> QED BY <2>1
<1> QED BY <1>1, <1>2 DEF Asking

LEMMA HandleConnAsking ==
  ASSUME NEW x, WorkType(x), Linked(x.t), NEW m, SegType(m), NEW h, Asking(h, x.t)
  PROVE  Asking(h, HandleConn(x, m).t)
<1>1. CASE x.t.done
  BY <1>1, HandleConnKeepsDone DEF Asking
<1>2. CASE x.t.st = "SYNSENT" /\ Asking(h, x.t)
  <2>1. HandleConn(x, m) \in {tcp_abort(x), HandleSynSent(x, m)}
    BY <1>2 DEF HandleConn, HandleRst
  <2>2. tcp_abort(x).t.done
    BY FieldNames DEF tcp_abort, IsWork, WorkType
  <2>3. HandleSynSent(x, m) = x \/ HandleSynSent(x, m).t.done
    BY HandleSynSentDoes
  <2> QED BY <1>2, <2>1, <2>2, <2>3 DEF Asking
<1> QED BY <1>1, <1>2 DEF Asking

LEMMA HandleRstAsking ==
  ASSUME NEW x, WorkType(x), NEW h, Asking(h, x.t)
  PROVE  Asking(h, HandleRst(x).t)
<1>1. HandleRst(x) \in {x, tcp_abort(x)}
  BY DEF HandleRst
<1>2. tcp_abort(x).t.done
  BY FieldNames DEF tcp_abort, IsWork, WorkType
<1> QED BY <1>1, <1>2 DEF Asking
----------------------------------------------------------------------------
(* A block keeps its connection or forgets it, and sends to its peer only.   *)
Serves(t) == t.used /\ t.st = "LISTEN"
At(t, u) == u.ip = t.ip /\ u.sport = t.sport /\ u.dport = t.dport /\ (Serves(u) => Serves(t))
Routed(t, m) == m.to = t.ip /\ m.sp = t.sport /\ m.dp = t.dport
Placed(x, y) ==
  /\ At(x.t, y.t) \/ (~y.t.used /\ ~Linked(y.t) /\ y.t.sport = 0 /\ y.t.dport = 0)
  /\ \A m \in y.out : m \in x.out \/ Routed(x.t, m)

LEMMA MildPlaced == ASSUME NEW x, NEW y, Mild(x, y) PROVE Placed(x, y) /\ At(x.t, y.t)
<1>1. At(x.t, y.t)
  BY MildKeepsFields DEF Mild, At, Serves, Moves, Ranges
<1>2. \A m : Routine(x.t, m) => Routed(x.t, m)
  BY DEF Routine, Segment, Routed
<1> QED BY <1>1, <1>2 DEF Mild, Placed

LEMMA TakesPlaced == ASSUME NEW x, NEW y, Takes(x, y) PROVE Placed(x, y) /\ At(x.t, y.t)
BY ReceivedKeeps DEF Takes, At, Serves, Placed, PlainAck, Routed

LEMMA PlacedTwice ==
  ASSUME NEW x, NEW y, NEW z, Placed(x, y), At(x.t, y.t), Placed(y, z)
  PROVE  Placed(x, z)
BY DEF Placed, At, Routed

LEMMA ForgetPlaced ==
  ASSUME NEW x, WorkType(x), NEW w, BlockType(w.t), Placed(x, w), At(x.t, w.t), NEW y, y.t = Forget(w.t), y.out = w.out
  PROVE  Placed(x, y)
<1>1. CASE w.t.used
  BY <1>1, ForgetDoes DEF Placed, At
<1>2. CASE ~w.t.used
  BY <1>2, ForgetDoes DEF Placed, At
<1> QED BY <1>1, <1>2

LEMMA CarriedPlaced ==
  ASSUME NEW x, WorkType(x), NEW m, NEW z, NEW a, NEW d, NEW f, Carried(x, m, z, a, d, f)
  PROVE  Placed(x, f) /\ At(x.t, f.t)
<1>1. Placed(x, z) /\ At(x.t, z.t)
  BY MildPlaced DEF Carried
<1>2. Placed(z, a) /\ At(z.t, a.t)
  <2>1. CASE a = z
    BY <2>1 DEF Placed, At
  <2>2. CASE a # z
    <3>1. /\ Sends(z.t, a.t, z.t.nagle, {"nagle"})
          /\ \A g \in a.out : g \in z.out \/ Segment(z.t, g, z.t.nxt, {"ACK", "PSH"}, z.t.nagle)
      BY <2>2, FlushTyped DEF Carried
    <3>2. At(z.t, a.t)
      BY <3>1, FieldNames DEF Sends, Same, At, Serves
    <3> QED BY <3>1, <3>2 DEF Placed, Segment, Routed
  <2> QED BY <2>1, <2>2
<1>3. Placed(a, d) /\ At(a.t, d.t)
  BY TakesPlaced DEF Carried
<1>4. Placed(d, f) /\ At(d.t, f.t)
  <2>1. f \in {d, ack_delayed(d)} \/ Finished(d, f)
    BY HandleFinDoes DEF Carried
  <2>2. Placed(d, d) /\ At(d.t, d.t)
    BY DEF Placed, At
  <2>3. Placed(d, ack_delayed(d)) /\ At(d.t, ack_delayed(d).t)
    BY AckDelayedTakes, TakesPlaced DEF Carried
  <2>4. ASSUME Finished(d, f) PROVE Placed(d, f) /\ At(d.t, f.t)
    <3>1. At(d.t, f.t)
      BY <2>4, FieldNames DEF Finished, Same, Timing, At, Serves
    <3> QED BY <2>4, <3>1 DEF Finished, Placed, PlainAck, Routed
  <2> QED BY <2>1, <2>2, <2>3, <2>4
<1>5. Placed(x, a) /\ At(x.t, a.t)
  BY <1>1, <1>2, PlacedTwice DEF At
<1>6. Placed(x, d) /\ At(x.t, d.t)
  BY <1>3, <1>5, PlacedTwice DEF At
<1> QED BY <1>4, <1>6, PlacedTwice DEF At

LEMMA HandleConnPlaced ==
  ASSUME NEW x, WorkType(x), Linked(x.t), NEW m, SegType(m)
  PROVE  Placed(x, HandleConn(x, m))
<1> DEFINE a == HandleAck(x, m)
           d == HandleData(a, m)
           f == HandleFin(d, m)
           g == [f EXCEPT !.t = Forget(@)]
<1>1. \/ HandleConn(x, m) = HandleRst(x)
      \/ x.t.st = "SYNSENT" /\ HandleConn(x, m) = HandleSynSent(x, m)
      \/ x.t.st = "SYNRECV" /\ HandleConn(x, m) = HandleSynRecv(x, m)
      \/ HandleConn(x, m) \in {f, g}
  BY DEF HandleConn
<1>2. PICK z : Carried(x, m, z, a, d, f)
  BY CarriedDoes
<1> HIDE DEF f
<1>3. Placed(x, f) /\ At(x.t, f.t)
  BY <1>2, CarriedPlaced
<1>4. WorkType(f) /\ g.t = Forget(f.t) /\ g.out = f.out
  BY <1>2, ForgetWork DEF Carried
<1> HIDE DEF g
<1>5. Placed(x, g)
  BY <1>3, <1>4, ForgetPlaced DEF WorkType
<1>6. Placed(x, HandleRst(x))
  BY HandleRstMild, MildPlaced
<1>7. x.t.st = "SYNRECV" => Placed(x, HandleSynRecv(x, m))
  BY HandleSynRecvMild, MildPlaced
<1>8. Placed(x, HandleSynSent(x, m))
  <2>1. \/ HandleSynSent(x, m) = x
        \/ /\ Same(x.t, HandleSynSent(x, m).t, {"rcv", "una", "wnd", "st", "done", "ok"})
           /\ HandleSynSent(x, m).out = x.out /\ HandleSynSent(x, m).t.st = "ESTAB"
    BY HandleSynSentDoes
  <2>2. /\ Same(x.t, HandleSynSent(x, m).t, {"rcv", "una", "wnd", "st", "done", "ok"})
        /\ HandleSynSent(x, m).t.st = "ESTAB"
        => At(x.t, HandleSynSent(x, m).t)
    BY FieldNames DEF Same, At, Serves
  <2> QED BY <2>1, <2>2 DEF Placed, At
<1> QED BY <1>1, <1>3, <1>5, <1>6, <1>7, <1>8

LEMMA PollPlaced ==
  ASSUME NEW x, WorkType(x), Linked(x.t), NEW due
  PROVE  Placed(x, tcp_poll(x, due))
<1>1. CASE tcp_poll(x, due) \in {x, PollAck(x), PollProbe(x)}
  <2>1. Placed(x, PollProbe(x))
    <3>1. PollProbe(x) = x \/ PollProbe(x) = tcp_emit(x, x.t.nxt, {"ACK", "PSH"}, <<ProbeByte>>, FALSE)
      BY Zenon DEF PollProbe
    <3>2. /\ tcp_emit(x, x.t.nxt, {"ACK", "PSH"}, <<ProbeByte>>, FALSE).t = x.t
          /\ \A m \in tcp_emit(x, x.t.nxt, {"ACK", "PSH"}, <<ProbeByte>>, FALSE).out :
               m \in x.out \/ Segment(x.t, m, x.t.nxt, {"ACK", "PSH"}, <<ProbeByte>>)
      BY EmitDoes DEF WorkType
    <3> QED BY <3>1, <3>2 DEF Placed, At, Segment, Routed
  <2>2. Placed(x, PollAck(x)) /\ Placed(x, x)
    BY PollAckMild, MildNone, MildPlaced
  <2> QED BY <1>1, <2>1, <2>2
<1>2. CASE tcp_poll(x, due) \in {PollFin(x), PollRto(x), PollKeepalive(x)} /\ x.t.used
  BY <1>2, PollFinMild, PollRtoMild, PollKeepaliveMild, MildPlaced
<1>3. CASE /\ x.t.st \in {"TIMEW", "FINW1", "FINW2"} /\ x.t.used
           /\ \E w : /\ tcp_poll(x, due) = [w EXCEPT !.t = Forget(@)] /\ IsWork(w) /\ w.out = x.out /\ w.t.used = FALSE
                     /\ Same(x.t, w.t, {"used", "st", "ok", "done"}) /\ (x.t.done => w.t.done)
  <2>1. PICK w : /\ tcp_poll(x, due) = [w EXCEPT !.t = Forget(@)] /\ IsWork(w) /\ w.out = x.out /\ w.t.used = FALSE
                 /\ Same(x.t, w.t, {"used", "st", "ok", "done"})
    BY <1>3
  <2>2. BlockType(w.t) /\ tcp_poll(x, due).t = Forget(w.t) /\ tcp_poll(x, due).out = w.out
    BY <2>1, EndedDoes
  <2>3. Placed(x, w) /\ At(x.t, w.t)
    BY <2>1, FieldNames DEF Same, At, Serves, Placed
  <2> QED BY <2>2, <2>3, ForgetPlaced
<1> QED BY <1>1, <1>2, <1>3, PollCases
LEMMA CloseBeginPlaced == ASSUME NEW t, BlockType(t) PROVE Placed(Work(t), close_begin(t))
<1> DEFINE x == close_begin(t)
<1>1. x = Work(t) \/ (Closing(t, x.t) /\ \A m \in x.out : Segment(x.t, m, t.nxt, {"FIN", "ACK"}, << >>))
  BY CloseBeginDoes
<1> HIDE DEF x
<1>2. Work(t).t = t
  BY DEF Work
<1>3. CASE x = Work(t)
  BY <1>3 DEF Placed, At, x
<1>4. CASE Closing(t, x.t) /\ \A m \in x.out : Segment(x.t, m, t.nxt, {"FIN", "ACK"}, << >>)
  <2>1. At(t, x.t)
    BY <1>4, FieldNames DEF Closing, Same, At, Serves
  <2> QED BY <1>2, <1>4, <2>1 DEF Placed, Segment, Routed, At, x
<1> QED BY <1>1, <1>3, <1>4

LEMMA SendTurnPlaced == ASSUME NEW t, BlockType(t), NEW c, CallType(c) PROVE Placed(Work(t), send_turn(t, c).x)
<1> DEFINE q == send_turn(t, c)
<1>1. TurnDone(t, c, q) \/ TurnJoins(t, c, q) \/ TurnKeeps(t, c, q) \/ TurnWaits(t, c, q) \/ TurnSends(t, c, q)
  BY SendTurnDoes
<1> HIDE DEF q
<1>2. Work(t).t = t /\ Work(t).out = {}
  BY DEF Work
<1>3. \A u, d : Waits(t, u, d) => At(t, u) /\ u.wnd = t.wnd
  BY FieldNames DEF Waits, Same, At, Serves
<1>4. CASE TurnJoins(t, c, q)
  <2>1. PICK w : WorkType(w) /\ w.out = {} /\ At(t, w.t) /\ w.t.wnd = t.wnd /\ q.x = nagle_flush(w)
    BY <1>3, <1>4 DEF TurnJoins
  <2>2. Linked(w.t) \/ w.t.wnd = 0
    BY <2>1 DEF Linked, At, BlockType
  <2>3. \/ q.x = w
        \/ /\ Sends(w.t, q.x.t, w.t.nagle, {"nagle"})
           /\ \A m \in q.x.out : m \in w.out \/ Segment(w.t, m, w.t.nxt, {"ACK", "PSH"}, w.t.nagle)
    BY <2>1, <2>2, FlushTyped
  <2>4. Sends(w.t, q.x.t, w.t.nagle, {"nagle"}) => At(w.t, q.x.t)
    BY FieldNames DEF Sends, Same, At, Serves
  <2> QED BY <1>2, <2>1, <2>3, <2>4 DEF Placed, At, Segment, Routed, q
<1>5. CASE TurnDone(t, c, q) \/ TurnWaits(t, c, q)
  BY <1>2, <1>5 DEF TurnDone, TurnWaits, Placed, At, q
<1>6. CASE TurnKeeps(t, c, q)
  BY <1>2, <1>3, <1>6 DEF TurnKeeps, Placed, q
<1>7. CASE TurnSends(t, c, q)
  <2>1. At(t, q.x.t)
    BY <1>7, FieldNames DEF TurnSends, Sends, Same, At, Serves
  <2> QED BY <1>2, <1>7, <2>1 DEF TurnSends, Placed, Segment, Routed, q
<1> QED BY <1>1, <1>4, <1>5, <1>6, <1>7

LEMMA RecvPlaced == ASSUME NEW t, BlockType(t), NEW cap \in Nat PROVE Placed(Work(t), net_tcp_recv(t, cap))
<1> DEFINE x == net_tcp_recv(t, cap)
<1>1. Same(t, x.t, Timing \cup {"rx", "win_update"}) /\ \A m \in x.out : PlainAck(t, m)
  BY RecvDoes
<1> HIDE DEF x
<1>2. At(t, x.t)
  BY <1>1, FieldNames DEF Same, Timing, At, Serves
<1>3. Work(t).t = t
  BY DEF Work
<1> QED BY <1>1, <1>2, <1>3 DEF Placed, PlainAck, Routed, x

LEMMA EndPlaced ==
  ASSUME NEW t, BlockType(t)
  PROVE  Placed(Work(t), Work(connect_end(t))) /\ Placed(Work(t), Work(close_end(t)))
<1>1. \A u : Work(u).t = u /\ Work(u).out = {}
  BY DEF Work
<1>2. \A u : Same(t, u, {"done", "err"}) \/ (Same(t, u, {"used", "st"}) /\ u.used = FALSE) => At(t, u)
  BY FieldNames DEF Same, At, Serves
<1>3. ASSUME NEW g, BlockType(g), At(t, g) PROVE Placed(Work(t), Work(Forget(g)))
  <2>1. Placed(Work(t), Work(g)) /\ At(Work(t).t, Work(g).t) /\ BlockType(Work(g).t)
    BY <1>1, <1>3 DEF Placed
  <2>2. WorkType(Work(t))
    BY WorkOf
  <2>3. Work(Forget(g)).t = Forget(Work(g).t) /\ Work(Forget(g)).out = Work(g).out
    BY <1>1
  <2> QED BY <2>1, <2>2, <2>3, ForgetPlaced
<1>4. Placed(Work(t), Work(connect_end(t)))
  <2>1. \/ Same(t, connect_end(t), {"done", "err"})
        \/ \E g : BlockType(g) /\ g.used = FALSE /\ Same(t, g, {"used", "st"}) /\ connect_end(t) = Forget(g)
    BY ConnectEndDoes
  <2>2. CASE Same(t, connect_end(t), {"done", "err"})
    <3>1. At(t, connect_end(t))
      BY <1>2, <2>2
    <3> QED BY <1>1, <3>1 DEF Placed
  <2>3. CASE \E g : BlockType(g) /\ g.used = FALSE /\ Same(t, g, {"used", "st"}) /\ connect_end(t) = Forget(g)
    BY <1>2, <1>3, <2>3
  <2> QED BY <2>1, <2>2, <2>3
<1>5. Placed(Work(t), Work(close_end(t)))
  <2>1. PICK g : BlockType(g) /\ (g = t \/ (g.used = FALSE /\ Same(t, g, {"used", "st"}))) /\ close_end(t) = Forget(g)
    BY CloseEndDoes
  <2>2. At(t, g)
    BY <1>2, <2>1 DEF At
  <2> QED BY <1>3, <2>1, <2>2
<1> QED BY <1>4, <1>5
=============================================================================
