-------------------------------- MODULE Http --------------------------------
(* A client (net_http_get, src/kernel/net.cpp 3252-3305) and a server (the   *)
(* httpd command, src/kernel/shell.cpp 536-687) on two hosts, composed with  *)
(* the kernel's TCP of each (module Tcp).  Each is one thread: it is in at   *)
(* most one blocking call, while the interrupts of its host go on.  What a   *)
(* time-out ends may end at any time.                                        *)
EXTENDS Tcp

CONSTANTS
  HTTPD_MAX,  \* connections httpd serves at a time
  ReqLen,     \* bytes of a request, at most one segment
  RespLen,    \* bytes of a response
  MaxGets     \* bound: requests of the client

ASSUME HttpAssumption ==
  {HTTPD_MAX, ReqLen, RespLen, MaxGets} \subseteq Nat \ {0} /\ ReqLen <= MSS

VARIABLES
  cli,    \* the client: [pc, s, tries, get]
  srv,    \* the server: [lfd, hc, pc, at, call]
  sent,   \* history: sent[h][k], the bytes that send took on connection k
  got,    \* history: got[h][k], the bytes that recv returned on connection k
  late    \* history: late[h][k], bytes were still in nagle_buf when h closed k

appVars == <<cli, srv, sent, got, late>>
vars == <<conns, net, faults, cli, srv, sent, got, late>>

Gets == 1..MaxGets
Slots == 1..HTTPD_MAX
NoCall == [data |-> << >>, pos |-> 0, inflight |-> FALSE]
FreeSlot == [fd |-> -1, st |-> "FREE", rn |-> 0, off |-> 0]
(* Connections are told apart by the client's port, 1, 2, ...; byte i of     *)
(* connection k is 10 * k + i.                                               *)
ConnId(h, t) == IF h = "cli" THEN t.sport ELSE t.dport
Bytes(k, a, b) == [i \in 1..(b - a + 1) |-> 10 * k + a + i - 1]

Init ==
  /\ TcpInit
  /\ cli = [pc |-> "idle", s |-> 0, tries |-> 0, get |-> 0]
  /\ srv = [lfd |-> -1, hc |-> [i \in Slots |-> FreeSlot], pc |-> "loop", at |-> 1, call |-> NoCall]
  /\ sent = [h \in Hosts |-> [k \in Gets |-> << >>]]
  /\ got = [h \in Hosts |-> [k \in Gets |-> << >>]]
  /\ late = [h \in Hosts |-> [k \in Gets |-> FALSE]]

Took(h, k, data) == sent' = [sent EXCEPT ![h][k] = @ \o data]
Read(h, k, data) == got' = [got EXCEPT ![h][k] = @ \o data]
(* Bytes of call c taken by a turn that ended at position pos with result r: *)
(* a call that returns true has accepted all of its bytes.                   *)
Accepted(c, pos, r) == SubSeq(c.data, c.pos + 1, IF r = "true" THEN Len(c.data) ELSE pos)

----------------------------------------------------------------------------
(* The client. *)
C == conns["cli"][cli.s]

HttpGet ==
  /\ cli.pc = "idle" /\ cli.get < MaxGets
  /\ \E i \in FreeBlocks("cli") :
       /\ Put("cli", i, connect_begin(sock_reset(conns["cli"][i]), "cli", cli.get + 1, Port))
       /\ cli' = [cli EXCEPT !.pc = "connect", !.s = i, !.tries = 1, !.get = @ + 1]
  /\ UNCHANGED <<faults, srv, sent, got, late>>

ConnectAgain ==
  /\ cli.pc = "connect" /\ ~C.done /\ cli.tries < SYN_TRIES /\ Quiet
  /\ Put("cli", cli.s, SynOut(Work(C)))
  /\ cli' = [cli EXCEPT !.tries = @ + 1]
  /\ UNCHANGED <<faults, srv, sent, got, late>>

ConnectEnd ==
  /\ cli.pc = "connect" /\ (C.done \/ (Quiet /\ cli.tries = SYN_TRIES))
  /\ Put("cli", cli.s, Work(connect_end(C)))
  /\ cli' = [cli EXCEPT !.pc = IF C.ok THEN "send" ELSE "idle", !.tries = 0]
  /\ UNCHANGED <<faults, srv, sent, got, late>>

(* The request fits in the first window of a new connection: its send does   *)
(* not wait.  It fails if the connection has been reset.                     *)
ClientSend ==
  /\ cli.pc = "send"
  /\ LET q == send_turn(C, send_begin(C, Bytes(cli.get, 1, ReqLen)))
     IN \/ /\ CanSend(C) /\ q.r = "true"
           /\ Put("cli", cli.s, q.x)
           /\ Took("cli", cli.get, Bytes(cli.get, 1, ReqLen))
           /\ cli' = [cli EXCEPT !.pc = "read"]
        \/ /\ ~CanSend(C)
           /\ cli' = [cli EXCEPT !.pc = "close"]
           /\ UNCHANGED <<conns, net, sent>>
  /\ UNCHANGED <<faults, srv, got, late>>

ClientRecv(pc, next) ==
  /\ cli.pc = pc
  /\ Put("cli", cli.s, net_tcp_recv(C, RING))
  /\ Read("cli", cli.get, C.rx)
  /\ cli' = [cli EXCEPT !.pc = next]
  /\ UNCHANGED <<faults, srv, sent, late>>
ClientRead == C.rx # << >> /\ ~C.done /\ ~C.err /\ ClientRecv("read", "read")
ClientReadEnd == (C.done \/ C.err \/ Settled) /\ ClientRecv("read", "close")   \* the last recv

ClientClose ==
  /\ cli.pc = "close"
  /\ Put("cli", cli.s, close_begin(C))
  /\ late' = [late EXCEPT !["cli"][cli.get] = C.nagle # << >>]
  /\ cli' = [cli EXCEPT !.pc = "closewait"]
  /\ UNCHANGED <<faults, srv, sent, got>>
ClientCloseEnd ==
  /\ cli.pc = "closewait" /\ (~CloseWaits(C) \/ Quiet)
  /\ Put("cli", cli.s, Work(close_end(C)))
  /\ cli' = [cli EXCEPT !.pc = "idle"]
  /\ UNCHANGED <<faults, srv, sent, got, late>>

----------------------------------------------------------------------------
(* The server: one turn of its loop accepts, then serves the slots in use.   *)
S(i) == conns["srv"][srv.hc[i].fd]
InUse(i) == srv.pc = "loop" /\ srv.hc[i].st # "FREE"
Over(i) == S(i).done \/ S(i).err

HttpdListen ==
  /\ srv.lfd = -1
  /\ \E i \in FreeBlocks("srv") :
       /\ Put("srv", i, Work(net_tcp_listen(sock_reset(conns["srv"][i]), "srv", Port)))
       /\ srv' = [srv EXCEPT !.lfd = i]
  /\ UNCHANGED <<faults, cli, sent, got, late>>

HttpdAccept ==
  /\ srv.pc = "loop" /\ srv.lfd # -1
  /\ LET free == {i \in Slots : srv.hc[i].st = "FREE"}
     IN /\ free # {}
        /\ \E c \in Acceptable("srv", srv.lfd) :
             /\ Put("srv", c, Work(accept_return(conns["srv"][c])))
             /\ srv' = [srv EXCEPT !.hc[Min(free)] = [fd |-> c, st |-> "READ", rn |-> 0, off |-> 0]]
  /\ UNCHANGED <<faults, cli, sent, got, late>>

(* close_conn of slot i; the slot is free once net_tcp_close returns. *)
CloseConn(i) ==
  /\ Put("srv", srv.hc[i].fd, close_begin(S(i)))
  /\ late' = [late EXCEPT !["srv"][ConnId("srv", S(i))] = @ \/ S(i).nagle # << >>]
  /\ srv' = [srv EXCEPT !.pc = "closewait", !.at = i, !.call = NoCall]
HttpdCloseEnd ==
  /\ srv.pc = "closewait" /\ (~CloseWaits(S(srv.at)) \/ Quiet)
  /\ Put("srv", srv.hc[srv.at].fd, Work(close_end(S(srv.at))))
  /\ srv' = [srv EXCEPT !.pc = "loop", !.hc[srv.at] = FreeSlot]
  /\ UNCHANGED <<faults, cli, sent, got, late>>

(* The connection is over, or the client was slow, or the response is out    *)
(* and the client did not close in time.                                     *)
HttpdClose(i) ==
  /\ InUse(i) /\ (Over(i) \/ (Settled /\ srv.hc[i].st \in {"READ", "WAIT"}))
  /\ CloseConn(i)
  /\ UNCHANGED <<faults, cli, sent, got>>

HttpdRead(i) ==
  /\ InUse(i) /\ srv.hc[i].st = "READ" /\ ~Over(i) /\ S(i).rx # << >>
  /\ Put("srv", srv.hc[i].fd, net_tcp_recv(S(i), 1))
  /\ Read("srv", ConnId("srv", S(i)), <<Head(S(i).rx)>>)
  /\ srv' = [srv EXCEPT !.hc[i].rn = @ + 1, !.hc[i].st = IF srv.hc[i].rn + 1 = ReqLen THEN "SEND" ELSE "READ"]
  /\ UNCHANGED <<faults, cli, sent, late>>

HttpdSendBegin(i) ==
  LET off == srv.hc[i].off
      chunk == Min({MSS, RespLen - off})
  IN /\ InUse(i) /\ srv.hc[i].st = "SEND" /\ ~Over(i)
     /\ CanSend(S(i))
     /\ srv' = [srv EXCEPT !.pc = "send", !.at = i,
                  !.call = send_begin(S(i), Bytes(ConnId("srv", S(i)), off + 1, off + chunk))]
     /\ UNCHANGED <<tcpVars, cli, sent, got, late>>

HttpdSend ==
  LET i == srv.at
      c == srv.call
      q == send_turn(S(i), c)
      off == srv.hc[i].off + Len(c.data)
  IN /\ srv.pc = "send"
     /\ \/ /\ q.r # "wait"
           /\ Put("srv", srv.hc[i].fd, q.x)
           /\ Took("srv", ConnId("srv", S(i)), Accepted(c, q.pos, q.r))
           /\ srv' = IF q.r = "more" THEN [srv EXCEPT !.call.pos = q.pos]
                     ELSE [srv EXCEPT !.pc = "loop", !.call = NoCall, !.hc[i].off = off,
                             !.hc[i].st = IF off >= RespLen THEN "WAIT" ELSE "SEND"]
           /\ UNCHANGED late
        \/ q.r = "wait" /\ (Over(i) \/ Settled) /\ CloseConn(i) /\ UNCHANGED sent    \* send returned false
     /\ UNCHANGED <<faults, cli, got>>

----------------------------------------------------------------------------
TimerPoll ==
  /\ \E h \in Hosts, i \in Socks, due \in Timers : Poll(h, i, due)
  /\ UNCHANGED appVars
Network ==
  /\ Deliver \/ Lose \/ \E h \in Hosts, i \in Socks : Reset(h, i)
  /\ UNCHANGED appVars

Client == \/ HttpGet \/ ConnectAgain \/ ConnectEnd \/ ClientSend
          \/ ClientRead \/ ClientReadEnd \/ ClientClose \/ ClientCloseEnd
Server == \/ HttpdListen \/ HttpdAccept \/ HttpdCloseEnd \/ HttpdSend
          \/ \E i \in Slots : HttpdClose(i) \/ HttpdRead(i) \/ HttpdSendBegin(i)

Next == TimerPoll \/ Network \/ Client \/ Server
Spec == Init /\ [][Next]_vars

----------------------------------------------------------------------------
(* Types and bounds of the blocks; a block is aborted, not retried, beyond    *)
(* the limits of retransmissions and keepalive probes.                       *)
TypeOK ==
  /\ \A h \in Hosts, i \in Socks :
       LET t == conns[h][i]
       IN /\ t.head \in 0..TXQ-1 /\ t.tail \in 0..TXQ-1
          /\ Len(t.rx) <= RING /\ Len(t.nagle) <= MSS
          /\ {t.una, t.nxt, t.rcv, t.fin_seq} \subseteq 0..SeqSpace-1
          /\ t.retries <= MAX_RETRANS + 1 /\ t.ka <= KA_CNT + 1
          /\ \A j \in 0..TXQ-1 : t.txb[j].pend => Len(t.txb[j].data) \in 1..MSS
  /\ faults \in 0..MaxFaults
  /\ cli.pc \in {"idle", "connect", "send", "read", "close", "closewait"}
  /\ srv.pc \in {"loop", "send", "closewait"}

(* The block that connection k has on host h, if there is one. *)
BlockOf(h, k) ==
  {i \in Socks : conns[h][i].used /\ conns[h][i].st # "LISTEN" /\ ConnId(h, conns[h][i]) = k}

(* Bytes arrive once and in order: what an application has read, with what   *)
(* waits in the ring for it, is a prefix of what its peer handed to          *)
(* net_tcp_send, however segments are lost, reordered and sent again         *)
(* (HandleData, ooo_store, ooo_drain, the retransmissions, Nagle's buffer).  *)
InOrder ==
  \A h \in Hosts, k \in Gets :
    /\ IsPrefix(got[h][k], sent[Peer(h)][k])
    /\ \A i \in BlockOf(h, k) : IsPrefix(got[h][k] \o conns[h][i].rx, sent[Peer(h)][k])

(* The end of the stream is its end: once a FIN has been accepted, every     *)
(* byte that the peer's sends had accepted is here, provided that no byte    *)
(* was left in the peer's nagle_buf by net_tcp_close (which does not flush   *)
(* it: the byte then follows the FIN, and is not sent again if lost).        *)
EofComplete ==
  \A h \in Hosts, k \in Gets : \A i \in BlockOf(h, k) :
    (conns[h][i].fin_rx /\ ~late[Peer(h)][k]) => got[h][k] \o conns[h][i].rx = sent[Peer(h)][k]

(* Until a FIN has been accepted, a host acknowledges nothing that its peer  *)
(* has not sent.  (A second copy of a FIN advances rcv_nxt again, so this    *)
(* ends with the first FIN.)                                                 *)
AckWithinSent ==
  \A h \in Hosts, k \in Gets : \A i \in BlockOf(h, k), j \in BlockOf(Peer(h), k) :
    LET t == conns[h][i]
    IN (t.st \notin {"CLOSED", "SYNSENT"} /\ ~t.fin_rx) => t.rcv <= conns[Peer(h)][j].nxt

(* Whatever is unacknowledged can be sent again: each byte from snd_una to   *)
(* snd_nxt is in a pending slot or is the FIN, and while the connection      *)
(* carries data the slot that the retransmission timer watches is the one at *)
(* snd_una, which the timer requires (line 1022).                            *)
Recoverable ==
  \A h \in Hosts, k \in Gets : \A i \in BlockOf(h, k) :
    LET t == conns[h][i]
        slot(j) == t.txb[j]
    IN /\ \A q \in t.una..(t.nxt - 1) :
            \/ t.fin_tx /\ q = t.fin_seq
            \/ \E j \in 0..TXQ-1 : slot(j).pend /\ q - slot(j).seq \in 0..(Len(slot(j).data) - 1)
       /\ (t.st \in {"ESTAB", "CLOSEW"} /\ t.una # t.nxt) => slot(ts_pick(t)).seq = t.una

(* httpd serves HTTPD_MAX connections, each in a slot of its own: no two     *)
(* slots hold one descriptor.                                                *)
OneSlotPerConnection ==
  \A i, j \in Slots : (i # j /\ srv.hc[i].st # "FREE" /\ srv.hc[j].st # "FREE") => srv.hc[i].fd # srv.hc[j].fd
=============================================================================
