----------------------------- MODULE HttpProofs -----------------------------
(* Proofs about module Http, for every number of blocks, connections and     *)
(* bytes: the types of the control blocks, of the segments in flight and of  *)
(* the two programs.                                                         *)
EXTENDS Http, TcpLemmas

(* A block or segment of the two hosts, with ports that are numbers.         *)
Block(t) == BlockType(t) /\ t.sport \in Nat /\ t.dport \in Nat
Wire(m) == SegType(m) /\ m.sp \in Nat /\ m.dp \in Nat

Tables ==
  /\ DOMAIN conns = Hosts /\ \A h \in Hosts : DOMAIN conns[h] = Socks
  /\ \A h \in Hosts, i \in Socks : Block(conns[h][i])
  /\ \A m \in net : Wire(m)
  /\ faults \in 0..MaxFaults

CliType ==
  [pc : {"idle", "connect", "send", "read", "close", "closewait"}, s : Socks, tries : Nat, get : Nat]
SlotRec == [fd : Socks \cup {-1}, st : {"FREE", "READ", "SEND", "WAIT"}, rn : Nat, off : Nat]
CallRec == [data : Seq(Nat), pos : Nat, inflight : BOOLEAN]
SrvType ==
  [lfd : Socks \cup {-1}, hc : [Slots -> SlotRec], pc : {"loop", "send", "closewait"}, at : Slots, call : CallRec]

(* The client has no listener, so a SYN never takes the block it connects    *)
(* with; that block asks for its connection until it is done.                *)
ClientOK ==
  /\ cli \in CliType
  /\ cli.pc = "connect" => Asking("cli", C)
  /\ \A i \in Socks : ~Serves(conns["cli"][i])
(* A slot in use has a descriptor, the slot of a blocked call is in use, and *)
(* what is left of a response fits in Nat.                                   *)
ServerOK ==
  /\ srv \in SrvType /\ CallType(srv.call)
  /\ \A i \in Slots : srv.hc[i].st # "FREE" => srv.hc[i].fd \in Socks
  /\ \A i \in Slots : srv.hc[i].st \in {"READ", "SEND"} => srv.hc[i].off < RespLen
  /\ srv.pc # "loop" => srv.hc[srv.at].st # "FREE"

HttpInv == Tables /\ ClientOK /\ ServerOK
----------------------------------------------------------------------------
(* Writing one block. *)
Written(h, i, t) ==
  /\ conns'[h][i] = t
  /\ \A g \in Hosts, j \in Socks : (g # h \/ j # i) => conns'[g][j] = conns[g][j]

(* Whatever is still in flight was in flight or has just been sent.          *)
LEMMA LiveIsPart == ASSUME NEW cs, NEW ms PROVE Live(cs, ms) \subseteq ms
BY DEF Live

(* A step that writes a typed block with numbers as its ports, and sends     *)
(* typed segments, leaves the tables typed.                                  *)
LEMMA AnswerKeeps ==
  ASSUME Tables, NEW h \in Hosts, NEW i \in Socks, NEW x, WorkType(x), x.t.sport \in Nat, x.t.dport \in Nat,
         \A m \in x.out : m.sp \in Nat /\ m.dp \in Nat,
         NEW rest \in SUBSET net, Answer(h, i, x, rest), faults' \in 0..MaxFaults
  PROVE  Tables' /\ Written(h, i, x.t)
<1>1. conns' = [conns EXCEPT ![h][i] = x.t] /\ net' \subseteq rest \cup x.out
  BY LiveIsPart DEF Answer
<1>2. Written(h, i, x.t)
  BY <1>1 DEF Written, Tables
<1>3. DOMAIN conns' = Hosts /\ \A g \in Hosts : DOMAIN conns'[g] = Socks
  BY <1>1 DEF Tables
<1>4. \A g \in Hosts, j \in Socks : Block(conns'[g][j])
  BY <1>2 DEF Written, Tables, Block, WorkType
<1>5. \A m \in net' : Wire(m)
  BY <1>1 DEF Tables, WorkType, Wire
<1> QED BY <1>2, <1>3, <1>4, <1>5 DEF Tables

(* So does a step that places what it makes of a block.                      *)
LEMMA PlacedKeeps ==
  ASSUME Tables, NEW h \in Hosts, NEW i \in Socks, NEW y, WorkType(y), Placed(Work(conns[h][i]), y),
         NEW rest \in SUBSET net, Answer(h, i, y, rest), faults' \in 0..MaxFaults
  PROVE  Tables' /\ Written(h, i, y.t) /\ (Serves(y.t) => Serves(conns[h][i]))
<1>1. Block(conns[h][i]) /\ Work(conns[h][i]).t = conns[h][i] /\ Work(conns[h][i]).out = {}
  BY DEF Tables, Work
<1>2. y.t.sport \in Nat /\ y.t.dport \in Nat /\ \A m \in y.out : m.sp \in Nat /\ m.dp \in Nat
  BY <1>1 DEF Placed, At, Routed, Block
<1>3. Serves(y.t) => Serves(conns[h][i])
  BY <1>1 DEF Placed, At, Serves
<1> QED BY <1>2, <1>3, AnswerKeeps

(* What the two programs know stands when the other host's blocks change.    *)
LEMMA ClientApart ==
  ASSUME ClientOK, NEW i \in Socks, NEW t, Written("srv", i, t), cli' = cli
  PROVE  ClientOK'
<1>1. \A j \in Socks : conns'["cli"][j] = conns["cli"][j]
  BY DEF Written, Hosts
<1>2. cli.s \in Socks
  BY DEF ClientOK, CliType
<1> QED BY <1>1, <1>2 DEF ClientOK, C

(* A step of the client that is not connecting afterwards.                   *)
LEMMA ClientMoves ==
  ASSUME ClientOK, NEW i \in Socks, NEW t, Written("cli", i, t), Serves(t) => Serves(conns["cli"][i]),
         cli' \in CliType, cli'.pc # "connect"
  PROVE  ClientOK'
BY DEF ClientOK, Written, Hosts

(* The number of blocks, so that 0 is the number of one.                     *)
LEMMA FirstNumbers == 0 \in Socks /\ 1 \in Slots /\ 0 \in 0..MaxFaults /\ ReqLen \in Nat /\ RespLen \in Nat \ {0} /\ ReqLen <= MSS
BY Sizes, HttpAssumption DEF Socks, Slots

(* The bytes of a request or of a piece of a response.                       *)
LEMMA BytesTyped ==
  ASSUME NEW k \in Nat, NEW a \in Nat \ {0}, NEW b \in Nat, b - a + 1 \in Nat
  PROVE  Bytes(k, a, b) \in Seq(Nat) /\ Len(Bytes(k, a, b)) = b - a + 1
<1> DEFINE d == Bytes(k, a, b)
<1>1. d = [i \in 1..(b - a + 1) |-> 10 * k + a + i - 1]
  BY DEF Bytes
<1> HIDE DEF d
<1>2. \A i \in 1..(b - a + 1) : 10 * k + a + i - 1 \in Nat
  OBVIOUS
<1>3. d \in [1..(b - a + 1) -> Nat]
  BY <1>1, <1>2
<1>4. d \in Seq(Nat) /\ Len(d) = b - a + 1
  BY <1>3
<1> QED BY <1>4 DEF d

----------------------------------------------------------------------------
(* The initial state. *)
LEMMA Tcb0Typed == Block(Tcb0)
<1>1. 0 \in SeqNos /\ 0 \in 0..TXQ-1 /\ 0 \in 0..MAX_RETRANS+1 /\ 0 \in 0..KA_CNT+1 /\ 0 <= RING /\ 0 <= MSS
      /\ 0 <= MAX_RETRANS /\ 0 <= KA_CNT
  BY Sizes DEF SeqNos
<1>2. << >> \in Seq(Nat) /\ Len(<< >>) = 0
  OBVIOUS
<1>3. NoSlot \in Slot
  BY <1>1, <1>2 DEF NoSlot, Slot
<1>4. NoSlice \in Slice
  BY <1>1, <1>2 DEF NoSlice, Slice
<1>5. Tcb0.txb \in [0..TXQ-1 -> Slot] /\ Tcb0.ooo \in [1..OOO -> Slice]
  BY <1>3, <1>4 DEF Tcb0
<1>6. /\ Tcb0.used = FALSE /\ Tcb0.ip = "none" /\ Tcb0.wnd = 0 /\ Tcb0.cwnd = 0 /\ Tcb0.win_update = FALSE
      /\ Tcb0.una = 0 /\ Tcb0.nxt = 0 /\ Tcb0.rcv = 0 /\ Tcb0.fin_seq = 0 /\ Tcb0.head = 0 /\ Tcb0.tail = 0
      /\ Tcb0.rx = << >> /\ Tcb0.nagle = << >> /\ Tcb0.retries = 0 /\ Tcb0.ka = 0
      /\ Tcb0.fin_pend = FALSE /\ Tcb0.sport = 0 /\ Tcb0.dport = 0
  BY DEF Tcb0
<1>7. DOMAIN Tcb0 = Fields
  BY DEF Fields
<1> DEFINE t == Tcb0
<1>8. DOMAIN t = Fields /\ t.used \in BOOLEAN /\ t.ip \in Hosts \cup {"none"} /\ t.rx \in Seq(Nat) /\ t.nagle \in Seq(Nat)
  BY <1>2, <1>6, <1>7
<1>9. /\ Len(t.rx) <= RING /\ Len(t.nagle) <= MSS /\ t.retries \in 0..MAX_RETRANS+1 /\ t.ka \in 0..KA_CNT+1
      /\ t.una \in SeqNos /\ t.nxt \in SeqNos /\ t.rcv \in SeqNos /\ t.fin_seq \in SeqNos
      /\ t.head \in 0..TXQ-1 /\ t.tail \in 0..TXQ-1
  BY <1>1, <1>2, <1>6
<1>10. ~t.used /\ t.wnd = 0 /\ t.cwnd = 0 /\ t.win_update = FALSE /\ ~t.fin_pend /\ t.sport \in Nat /\ t.dport \in Nat
  BY <1>6
<1> HIDE DEF t
<1>11. BlockType(t)
  BY <1>5, <1>8, <1>9, <1>10 DEF BlockType, t
<1> QED BY <1>10, <1>11 DEF Block, t

LEMMA HttpInit == Init => HttpInv
<1> SUFFICES ASSUME Init PROVE HttpInv
  OBVIOUS
<1>1. Tables
  BY Tcb0Typed, FirstNumbers DEF Init, TcpInit, Tables
<1>2. ClientOK
  <2>1. cli \in CliType /\ cli.pc # "connect"
    BY FirstNumbers DEF Init, CliType
  <2>2. \A i \in Socks : ~Serves(conns["cli"][i])
    BY DEF Init, TcpInit, Hosts, Serves, Tcb0
  <2> QED BY <2>1, <2>2 DEF ClientOK
<1>3. ServerOK
  <2>1. FreeSlot \in SlotRec /\ FreeSlot.st = "FREE"
    BY DEF FreeSlot, SlotRec
  <2>2. NoCall \in CallRec /\ NoCall.data = << >> /\ NoCall.pos = 0
    BY DEF NoCall, CallRec
  <2>3. CallType(NoCall)
    BY <2>2, Sizes DEF CallType
  <2>4. srv = [lfd |-> -1, hc |-> [i \in Slots |-> FreeSlot], pc |-> "loop", at |-> 1, call |-> NoCall]
    BY DEF Init
  <2>5. srv \in SrvType
    BY <2>1, <2>2, <2>4, FirstNumbers DEF SrvType
  <2> QED BY <2>1, <2>3, <2>4, <2>5 DEF ServerOK
<1> QED BY <1>1, <1>2, <1>3 DEF HttpInv

----------------------------------------------------------------------------
(* The steps of the network and of the interrupts. *)
LEMMA KernelKeepsClient ==
  ASSUME ClientOK, NEW h \in Hosts, NEW i \in Socks, NEW t, Written(h, i, t), Serves(t) => Serves(conns[h][i]),
         Asking("cli", conns[h][i]) => Asking("cli", t), cli' = cli
  PROVE  ClientOK'
<1>1. CASE h = "srv"
  BY <1>1, ClientApart
<1>2. CASE h = "cli"
  <2>1. \A j \in Socks : conns'["cli"][j] = IF j = i THEN t ELSE conns["cli"][j]
    BY <1>2 DEF Written, Hosts
  <2>2. cli.s \in Socks /\ "cli" \in Hosts
    BY DEF ClientOK, CliType, Hosts
  <2>3. cli.pc = "connect" => Asking("cli", C')
    BY <1>2, <2>1, <2>2 DEF ClientOK, C
  <2>4. \A j \in Socks : ~Serves(conns'["cli"][j])
    BY <1>2, <2>1 DEF ClientOK
  <2> QED BY <2>3, <2>4 DEF ClientOK
<1> QED BY <1>1, <1>2 DEF Hosts

LEMMA ServerSame == ASSUME ServerOK, srv' = srv PROVE ServerOK'
BY DEF ServerOK

LEMMA UsedIsLinked ==
  ASSUME Tables, NEW h \in Hosts, NEW i \in Socks, conns[h][i].used
  PROVE  WorkType(Work(conns[h][i])) /\ Linked(Work(conns[h][i]).t) /\ Work(conns[h][i]).t = conns[h][i]
BY WorkOf DEF Tables, Block, BlockType, Linked

LEMMA FreeAreSocks == ASSUME NEW h PROVE FreeBlocks(h) \subseteq Socks
<1> DEFINE free == {i \in Socks : ~conns[h][i].used}
<1>1. free # {} => Min(free) \in free
  <2>1. free \in SUBSET Nat
    BY Sizes DEF Socks
  <2> QED BY <2>1, MinIsLeast
<1>2. FreeBlocks(h) = IF free # {} THEN {Min(free)} ELSE {i \in Socks : conns[h][i].used /\ conns[h][i].st = "TIMEW"}
  BY Zenon DEF FreeBlocks
<1> QED BY <1>1, <1>2

LEMMA PollStep ==
  ASSUME HttpInv, NEW h \in Hosts, NEW i \in Socks, NEW due, Poll(h, i, due), UNCHANGED appVars
  PROVE  HttpInv'
<1> DEFINE x == Work(conns[h][i])
           y == tcp_poll(x, due)
<1>1. conns[h][i].used /\ Put(h, i, y) /\ faults' \in {faults, faults + 1} /\ faults' <= MaxFaults
  BY DEF Poll
<1>2. WorkType(x) /\ Linked(x.t) /\ x.t = conns[h][i]
  BY <1>1, UsedIsLinked DEF HttpInv
<1>3. WorkType(y) /\ Placed(x, y) /\ (Asking("cli", x.t) => Asking("cli", y.t))
  BY <1>2, PollTyped, PollPlaced, PollAsking
<1>4. faults' \in 0..MaxFaults
  BY <1>1, Sizes DEF HttpInv, Tables
<1> HIDE DEF y
<1>5. Tables' /\ Written(h, i, y.t) /\ (Serves(y.t) => Serves(conns[h][i]))
  BY <1>1, <1>3, <1>4, PlacedKeeps DEF Put, HttpInv
<1>6. ClientOK'
  BY <1>2, <1>3, <1>5, KernelKeepsClient DEF HttpInv, appVars
<1>7. ServerOK'
  BY ServerSame DEF HttpInv, appVars
<1> QED BY <1>5, <1>6, <1>7 DEF HttpInv

LEMMA ResetStep ==
  ASSUME HttpInv, NEW h \in Hosts, NEW i \in Socks, Reset(h, i), UNCHANGED appVars
  PROVE  HttpInv'
<1> DEFINE x == Work(conns[h][i])
           y == HandleRst(x)
<1>1. conns[h][i].used /\ Put(h, i, y) /\ faults < MaxFaults /\ faults' = faults + 1
  BY DEF Reset
<1>2. WorkType(x) /\ Linked(x.t) /\ x.t = conns[h][i]
  BY <1>1, UsedIsLinked DEF HttpInv
<1>3. WorkType(y) /\ Placed(x, y) /\ (Asking("cli", x.t) => Asking("cli", y.t))
  BY <1>2, HandleRstMild, MildKeepsType, MildPlaced, HandleRstAsking
<1>4. faults' \in 0..MaxFaults
  BY <1>1, Sizes DEF HttpInv, Tables
<1> HIDE DEF y
<1>5. Tables' /\ Written(h, i, y.t) /\ (Serves(y.t) => Serves(conns[h][i]))
  BY <1>1, <1>3, <1>4, PlacedKeeps DEF Put, HttpInv
<1>6. ClientOK'
  BY <1>2, <1>3, <1>5, KernelKeepsClient DEF HttpInv, appVars
<1>7. ServerOK'
  BY ServerSame DEF HttpInv, appVars
<1> QED BY <1>5, <1>6, <1>7 DEF HttpInv

LEMMA DropStep ==
  ASSUME HttpInv, net' \subseteq net, UNCHANGED conns, faults' \in 0..MaxFaults, UNCHANGED appVars
  PROVE  HttpInv'
<1>1. Tables'
  BY DEF HttpInv, Tables
<1>2. ClientOK'
  BY DEF HttpInv, ClientOK, C, appVars
<1> QED BY <1>1, <1>2, ServerSame DEF HttpInv, appVars

(* A SYN opens a connection of the host that listens.                        *)
LEMMA ChildStep ==
  ASSUME HttpInv, NEW m \in net, NEW l, NEW c \in FreeBlocks(m.to), ListenerOf(m.to, m) # {},
         Answer(m.to, c, Child(m.to, l, c, m), net \ {m}), UNCHANGED faults, UNCHANGED appVars
  PROVE  HttpInv'
<1> DEFINE x == Child(m.to, l, c, m)
<1>1. Wire(m) /\ m.to \in Hosts /\ c \in Socks
  BY FreeAreSocks DEF HttpInv, Tables, Wire, SegType
<1>2. BlockType(conns[m.to][c])
  BY <1>1 DEF HttpInv, Tables, Block
<1>3. WorkType(x) /\ x.t.sport = m.dp /\ x.t.dport = m.sp
      /\ \A g \in x.out : Segment(x.t, g, Iss[m.to], {"SYN", "ACK"}, << >>)
  BY <1>1, <1>2, ChildDoes DEF Wire
<1> HIDE DEF x
<1>4. x.t.sport \in Nat /\ x.t.dport \in Nat /\ \A g \in x.out : g.sp \in Nat /\ g.dp \in Nat
  BY <1>1, <1>3 DEF Wire, Segment
<1>5. Tables' /\ Written(m.to, c, x.t)
  <2>1. net \ {m} \in SUBSET net /\ faults' \in 0..MaxFaults
    BY DEF HttpInv, Tables
  <2>2. Answer(m.to, c, x, net \ {m})
    BY DEF x
  <2> QED BY <1>1, <1>3, <1>4, <2>1, <2>2, AnswerKeeps DEF HttpInv
<1>6. m.to = "srv"
  <2>1. m.to # "cli"
    BY DEF HttpInv, ClientOK, ListenerOf, Serves
  <2> QED BY <1>1, <2>1 DEF Hosts
<1>7. ClientOK'
  BY <1>1, <1>5, <1>6, ClientApart DEF HttpInv, appVars
<1> QED BY <1>5, <1>7, ServerSame DEF HttpInv, appVars

LEMMA DeliverStep ==
  ASSUME HttpInv, Deliver, UNCHANGED appVars
  PROVE  HttpInv'
<1>1. PICK m \in net : handle_tcp(m, net \ {m}) /\ UNCHANGED faults
  BY DEF Deliver
<1> DEFINE h == m.to
           conn == ConnOf(conns, m)
           c == Min(conn)
           x == Work(conns[h][c])
           y == HandleConn(x, m)
<1>2. \/ conn # {} /\ Answer(h, c, y, net \ {m})
      \/ \E l : /\ ListenerOf(h, m) # {}
                /\ \E b \in FreeBlocks(h) : Answer(h, b, Child(h, l, b, m), net \ {m})
      \/ net' = net \ {m} /\ UNCHANGED conns
  BY <1>1 DEF handle_tcp
<1>3. CASE conn # {} /\ Answer(h, c, y, net \ {m})
  <2>1. c \in conn /\ c \in Socks /\ h \in Hosts /\ SegType(m)
    <3>1. conn \in SUBSET Nat
      BY Sizes DEF ConnOf, Socks
    <3>2. c \in conn
      BY <1>3, <3>1, MinIsLeast
    <3> QED BY <3>2 DEF ConnOf, HttpInv, Tables, Wire, SegType
  <2>2. WorkType(x) /\ Linked(x.t) /\ x.t = conns[h][c]
    <3>1. conns[h][c].used
      BY <2>1 DEF ConnOf
    <3> QED BY <2>1, <3>1, UsedIsLinked DEF HttpInv
  <2> HIDE DEF c
  <2>3. WorkType(y) /\ Placed(x, y) /\ (Asking("cli", x.t) => Asking("cli", y.t))
    BY <2>1, <2>2, HandleConnTyped, HandleConnPlaced, HandleConnAsking
  <2>4. faults' \in 0..MaxFaults /\ net \ {m} \in SUBSET net
    BY <1>1 DEF HttpInv, Tables
  <2> HIDE DEF y
  <2>5. Tables' /\ Written(h, c, y.t) /\ (Serves(y.t) => Serves(conns[h][c]))
    BY <1>3, <2>1, <2>3, <2>4, PlacedKeeps DEF HttpInv
  <2>6. ClientOK'
    BY <2>1, <2>2, <2>3, <2>5, KernelKeepsClient DEF HttpInv, appVars
  <2> QED BY <2>5, <2>6, ServerSame DEF HttpInv, appVars
<1>4. CASE \E l : /\ ListenerOf(h, m) # {}
                  /\ \E b \in FreeBlocks(h) : Answer(h, b, Child(h, l, b, m), net \ {m})
  BY <1>1, <1>4, ChildStep
<1>5. CASE net' = net \ {m} /\ UNCHANGED conns
  <2>1. faults' \in 0..MaxFaults
    BY <1>1 DEF HttpInv, Tables
  <2> QED BY <1>5, <2>1, DropStep
<1> QED BY <1>2, <1>3, <1>4, <1>5

LEMMA LoseStep ==
  ASSUME HttpInv, Lose, UNCHANGED appVars
  PROVE  HttpInv'
<1>1. faults' \in 0..MaxFaults /\ net' \subseteq net /\ UNCHANGED conns
  BY Sizes DEF Lose, HttpInv, Tables
<1> QED BY <1>1, DropStep
----------------------------------------------------------------------------
(* The steps of the client. *)
LEMMA ClientBlock ==
  ASSUME HttpInv
  PROVE  /\ Block(C) /\ cli.s \in Socks /\ cli.get \in Nat /\ cli.tries \in Nat /\ "cli" \in Hosts /\ net \in SUBSET net
         /\ faults \in 0..MaxFaults
BY DEF HttpInv, Tables, ClientOK, CliType, C, Hosts

LEMMA HttpGetStep == ASSUME HttpInv, HttpGet PROVE HttpInv'
<1>1. PICK i \in FreeBlocks("cli") :
        /\ Put("cli", i, connect_begin(sock_reset(conns["cli"][i]), "cli", cli.get + 1, Port))
        /\ cli' = [cli EXCEPT !.pc = "connect", !.s = i, !.tries = 1, !.get = @ + 1]
  BY DEF HttpGet
<1> DEFINE y == connect_begin(sock_reset(conns["cli"][i]), "cli", cli.get + 1, Port)
<1>2. i \in Socks /\ "cli" \in Hosts /\ cli.get \in Nat
  BY FreeAreSocks, ClientBlock
<1>3. /\ WorkType(y) /\ Linked(y.t) /\ y.t.st = "SYNSENT" /\ y.t.iss = Iss["cli"] /\ y.t.sport = cli.get + 1 /\ y.t.dport = Port
      /\ \A m \in y.out : Segment(y.t, m, Iss["cli"], {"SYN"}, << >>)
  <2>1. BlockType(conns["cli"][i])
    BY <1>2 DEF HttpInv, Tables, Block
  <2>2. Asks(y, conns["cli"][i], "cli", cli.get + 1, Port)
    BY <1>2, <2>1, ConnectDoes
  <2> HIDE DEF y
  <2> QED BY <2>2 DEF Asks
<1>4. Put("cli", i, y)
  BY <1>1
<1> HIDE DEF y
<1>5. y.t.sport \in Nat /\ y.t.dport \in Nat /\ \A m \in y.out : m.sp \in Nat /\ m.dp \in Nat
  BY <1>2, <1>3 DEF Port, Segment
<1>6. Tables' /\ Written("cli", i, y.t)
  BY <1>2, <1>3, <1>4, <1>5, AnswerKeeps, ClientBlock DEF HttpGet, Put, HttpInv
<1>7. cli' \in CliType /\ cli'.s = i
  <2>1. cli \in CliType /\ cli.get + 1 \in Nat /\ i \in Socks
    BY <1>2 DEF HttpInv, ClientOK
  <2>2. cli' = [pc |-> "connect", s |-> i, tries |-> 1, get |-> cli.get + 1]
    BY <1>1, <2>1 DEF CliType
  <2> QED BY <2>1, <2>2 DEF CliType
<1>8. \A j \in Socks : ~Serves(conns'["cli"][j])
  BY <1>2, <1>3, <1>6 DEF Written, HttpInv, ClientOK, Serves
<1>9. Asking("cli", C')
  BY <1>2, <1>3, <1>6, <1>7 DEF Written, C, Asking
<1>10. ServerOK'
  BY ServerSame DEF HttpInv, HttpGet
<1> QED BY <1>6, <1>7, <1>8, <1>9, <1>10 DEF HttpInv, ClientOK

LEMMA ConnectAgainStep == ASSUME HttpInv, ConnectAgain PROVE HttpInv'
<1> DEFINE y == SynOut(Work(C))
<1>1. Put("cli", cli.s, y) /\ cli' = [cli EXCEPT !.tries = @ + 1] /\ cli.pc = "connect" /\ ~C.done /\ UNCHANGED <<faults, srv>>
  BY DEF ConnectAgain
<1>2. Block(C) /\ Linked(C) /\ C.iss = Iss["cli"]
  BY <1>1, ClientBlock DEF HttpInv, ClientOK, Asking
<1>3. WorkType(y) /\ y.t = C /\ \A m \in y.out : Segment(C, m, Iss["cli"], {"SYN"}, << >>)
  BY <1>2, SynOutDoes, ClientBlock DEF Block
<1> HIDE DEF y
<1>4. \A m \in y.out : m.sp \in Nat /\ m.dp \in Nat
  BY <1>2, <1>3 DEF Segment, Block
<1>5. Tables' /\ Written("cli", cli.s, C)
  BY <1>1, <1>2, <1>3, <1>4, AnswerKeeps, ClientBlock DEF Put, HttpInv, Block
<1>6. cli' \in CliType /\ cli'.s = cli.s
  BY <1>1 DEF HttpInv, ClientOK, CliType
<1>7. \A j \in Socks : conns'["cli"][j] = conns["cli"][j]
  BY <1>5, ClientBlock DEF Written, C
<1>8. C' = C
  BY <1>6, <1>7, ClientBlock DEF C
<1>9. ClientOK'
  BY <1>1, <1>6, <1>7, <1>8 DEF HttpInv, ClientOK
<1> QED BY <1>1, <1>5, <1>9, ServerSame DEF HttpInv

(* A step that writes the client's block with something placed, and is not   *)
(* connecting afterwards.                                                    *)
LEMMA ClientWrites ==
  ASSUME HttpInv, NEW y, WorkType(y), Placed(Work(C), y), Put("cli", cli.s, y), cli' \in CliType, cli'.pc # "connect",
         UNCHANGED <<faults, srv>>
  PROVE  HttpInv'
<1>1. Tables' /\ Written("cli", cli.s, y.t) /\ (Serves(y.t) => Serves(C))
  BY ClientBlock, PlacedKeeps DEF Put, HttpInv, C
<1>2. ClientOK'
  BY <1>1, ClientMoves, ClientBlock DEF HttpInv, C
<1> QED BY <1>1, <1>2, ServerSame DEF HttpInv

LEMMA ConnectEndStep == ASSUME HttpInv, ConnectEnd PROVE HttpInv'
<1>1. /\ Put("cli", cli.s, Work(connect_end(C))) /\ cli' = [cli EXCEPT !.pc = IF C.ok THEN "send" ELSE "idle", !.tries = 0]
      /\ UNCHANGED <<faults, srv>>
  BY DEF ConnectEnd
<1>2. WorkType(Work(connect_end(C))) /\ Placed(Work(C), Work(connect_end(C)))
  BY ClientBlock, ConnectEndDoes, WorkOf, EndPlaced DEF Block
<1>3. cli' \in CliType /\ cli'.pc # "connect"
  BY <1>1 DEF HttpInv, ClientOK, CliType
<1> QED BY <1>1, <1>2, <1>3, ClientWrites

LEMMA ClientSendStep == ASSUME HttpInv, ClientSend PROVE HttpInv'
<1> DEFINE d == Bytes(cli.get, 1, ReqLen)
           c == send_begin(C, d)
           q == send_turn(C, c)
<1>1. /\ \/ Put("cli", cli.s, q.x) /\ cli' = [cli EXCEPT !.pc = "read"]
         \/ cli' = [cli EXCEPT !.pc = "close"] /\ UNCHANGED <<conns, net>>
      /\ UNCHANGED <<faults, srv>>
  BY DEF ClientSend
<1>2. CallType(c)
  <2>1. d \in Seq(Nat) /\ Len(d) = ReqLen
    <3>1. ReqLen - 1 + 1 = ReqLen /\ ReqLen \in Nat
      BY FirstNumbers
    <3>2. cli.get \in Nat /\ 1 \in Nat \ {0} /\ ReqLen - 1 + 1 \in Nat
      BY <3>1, ClientBlock
    <3>3. d \in Seq(Nat) /\ Len(d) = ReqLen - 1 + 1
      BY <3>1, <3>2, BytesTyped, Zenon
    <3> QED BY <3>1, <3>3
  <2>2. c.data = d /\ c.pos = 0
    BY DEF send_begin
  <2> QED BY <2>1, <2>2, FirstNumbers DEF CallType
<1>3. WorkType(q.x) /\ Placed(Work(C), q.x)
  BY <1>2, ClientBlock, SendTurnTyped, SendTurnPlaced DEF Block
<1> HIDE DEF q
<1>4. CASE Put("cli", cli.s, q.x) /\ cli' = [cli EXCEPT !.pc = "read"]
  <2>1. cli' \in CliType /\ cli'.pc # "connect"
    BY <1>4 DEF HttpInv, ClientOK, CliType
  <2> QED BY <1>1, <1>3, <1>4, <2>1, ClientWrites
<1>5. CASE cli' = [cli EXCEPT !.pc = "close"] /\ UNCHANGED <<conns, net>>
  <2>1. cli' \in CliType /\ cli'.pc # "connect"
    BY <1>5 DEF HttpInv, ClientOK, CliType
  <2>2. ClientOK'
    BY <1>5, <2>1 DEF HttpInv, ClientOK
  <2>3. Tables'
    BY <1>1, <1>5 DEF HttpInv, Tables
  <2> QED BY <1>1, <2>2, <2>3, ServerSame DEF HttpInv
<1> QED BY <1>1, <1>4, <1>5

LEMMA ClientReadStep == ASSUME HttpInv, ClientRead \/ ClientReadEnd PROVE HttpInv'
<1>1. PICK next \in {"read", "close"} :
        Put("cli", cli.s, net_tcp_recv(C, RING)) /\ cli' = [cli EXCEPT !.pc = next] /\ UNCHANGED <<faults, srv>>
  BY DEF ClientRead, ClientReadEnd, ClientRecv
<1>2. WorkType(net_tcp_recv(C, RING)) /\ Placed(Work(C), net_tcp_recv(C, RING))
  BY Sizes, ClientBlock, RecvDoes, RecvPlaced DEF Block
<1>3. cli' \in CliType /\ cli'.pc # "connect"
  BY <1>1 DEF HttpInv, ClientOK, CliType
<1> QED BY <1>1, <1>2, <1>3, ClientWrites

LEMMA ClientCloseStep == ASSUME HttpInv, ClientClose PROVE HttpInv'
<1>1. Put("cli", cli.s, close_begin(C)) /\ cli' = [cli EXCEPT !.pc = "closewait"] /\ UNCHANGED <<faults, srv>>
  BY DEF ClientClose
<1>2. WorkType(close_begin(C)) /\ Placed(Work(C), close_begin(C))
  BY ClientBlock, CloseBeginDoes, CloseBeginPlaced DEF Block
<1>3. cli' \in CliType /\ cli'.pc # "connect"
  BY <1>1 DEF HttpInv, ClientOK, CliType
<1> QED BY <1>1, <1>2, <1>3, ClientWrites

LEMMA ClientCloseEndStep == ASSUME HttpInv, ClientCloseEnd PROVE HttpInv'
<1>1. Put("cli", cli.s, Work(close_end(C))) /\ cli' = [cli EXCEPT !.pc = "idle"] /\ UNCHANGED <<faults, srv>>
  BY DEF ClientCloseEnd
<1>2. WorkType(Work(close_end(C))) /\ Placed(Work(C), Work(close_end(C)))
  BY ClientBlock, CloseEndDoes, WorkOf, EndPlaced DEF Block
<1>3. cli' \in CliType /\ cli'.pc # "connect"
  BY <1>1 DEF HttpInv, ClientOK, CliType
<1> QED BY <1>1, <1>2, <1>3, ClientWrites
----------------------------------------------------------------------------
(* The steps of the server. *)
LEMMA ServerBlock ==
  ASSUME HttpInv, NEW i \in Slots, srv.hc[i].st # "FREE"
  PROVE  Block(S(i)) /\ srv.hc[i].fd \in Socks /\ "srv" \in Hosts /\ net \in SUBSET net /\ faults \in 0..MaxFaults
BY DEF HttpInv, Tables, ServerOK, S, Hosts

LEMMA ServerWrites ==
  ASSUME HttpInv, NEW i \in Socks, NEW y, WorkType(y), Placed(Work(conns["srv"][i]), y), Put("srv", i, y),
         ServerOK', UNCHANGED <<faults, cli>>
  PROVE  HttpInv'
<1>1. "srv" \in Hosts /\ net \in SUBSET net /\ faults' \in 0..MaxFaults
  BY DEF HttpInv, Tables, Hosts
<1>2. Tables' /\ Written("srv", i, y.t)
  BY <1>1, PlacedKeeps DEF Put, HttpInv
<1>3. ClientOK'
  BY <1>2, ClientApart DEF HttpInv
<1> QED BY <1>2, <1>3 DEF HttpInv

LEMMA NoCallTyped == NoCall \in CallRec /\ CallType(NoCall)
<1>1. NoCall \in CallRec /\ NoCall.data = << >> /\ NoCall.pos = 0
  BY DEF NoCall, CallRec
<1> QED BY <1>1, Sizes DEF CallType

LEMMA HttpdListenStep == ASSUME HttpInv, HttpdListen PROVE HttpInv'
<1>1. PICK i \in FreeBlocks("srv") :
        /\ Put("srv", i, Work(net_tcp_listen(sock_reset(conns["srv"][i]), "srv", Port)))
        /\ srv' = [srv EXCEPT !.lfd = i]
  BY DEF HttpdListen
<1> DEFINE u == net_tcp_listen(sock_reset(conns["srv"][i]), "srv", Port)
<1>2. i \in Socks /\ "srv" \in Hosts /\ UNCHANGED <<faults, cli>>
  BY FreeAreSocks DEF Hosts, HttpdListen
<1>3. BlockType(u) /\ u.sport = Port /\ u.dport = 0
  <2>1. BlockType(conns["srv"][i])
    BY <1>2 DEF HttpInv, Tables, Block
  <2> QED BY <1>2, <2>1, ListenDoes
<1>4. Put("srv", i, Work(u))
  BY <1>1
<1> HIDE DEF u
<1>5. WorkType(Work(u)) /\ Work(u).t = u /\ Work(u).out = {}
  BY <1>3, WorkOf
<1>6. u.sport \in Nat /\ u.dport \in Nat
  BY <1>3 DEF Port
<1>7. net \in SUBSET net /\ faults' \in 0..MaxFaults
  BY <1>2 DEF HttpInv, Tables
<1>8. Tables' /\ Written("srv", i, u)
  BY <1>2, <1>4, <1>5, <1>6, <1>7, AnswerKeeps DEF Put, HttpInv
<1>9. ClientOK'
  BY <1>2, <1>8, ClientApart DEF HttpInv
<1>10. ServerOK'
  BY <1>1, <1>2 DEF HttpInv, ServerOK, SrvType
<1> QED BY <1>8, <1>9, <1>10 DEF HttpInv

(* A turn of the loop that gives slot k the record s.                        *)
LEMMA SlotWritten ==
  ASSUME ServerOK, NEW k \in Slots, NEW s \in SlotRec, s.st # "FREE" => s.fd \in Socks,
         s.st \in {"READ", "SEND"} => s.off < RespLen,
         NEW c \in CallRec, CallType(c), srv' = [srv EXCEPT !.pc = "loop", !.call = c, !.hc = [srv.hc EXCEPT ![k] = s]]
  PROVE  ServerOK'
<1>1. srv \in SrvType
  BY DEF ServerOK
<1>2. /\ srv' \in SrvType /\ srv'.call = c /\ srv'.pc = "loop"
      /\ \A j \in Slots : srv'.hc[j] = IF j = k THEN s ELSE srv.hc[j]
  BY <1>1 DEF SrvType
<1> QED BY <1>2 DEF ServerOK

LEMMA HttpdAcceptStep == ASSUME HttpInv, HttpdAccept PROVE HttpInv'
<1> DEFINE free == {i \in Slots : srv.hc[i].st = "FREE"}
           k == Min(free)
           s(c) == [fd |-> c, st |-> "READ", rn |-> 0, off |-> 0]
<1>1. PICK c \in Acceptable("srv", srv.lfd) :
        /\ Put("srv", c, Work(accept_return(conns["srv"][c])))
        /\ srv' = [srv EXCEPT !.hc[k] = s(c)] /\ free # {} /\ srv.pc = "loop" /\ UNCHANGED <<faults, cli>>
  BY DEF HttpdAccept
<1>2. k \in Slots
  <2>1. free \in SUBSET Nat
    BY DEF Slots
  <2>2. k \in free
    BY <1>1, <2>1, MinIsLeast
  <2> QED BY <2>2
<1> HIDE DEF k, free
<1>3. c \in Socks /\ "srv" \in Hosts
  BY DEF Acceptable, Hosts
<1> DEFINE t == conns["srv"][c]
<1>4. BlockType(t)
  BY <1>3 DEF HttpInv, Tables, Block
<1>5. BlockType(accept_return(t)) /\ Same(t, accept_return(t), {"done", "err"})
  BY <1>4, AcceptReturnDoes
<1>6. At(t, accept_return(t))
  BY <1>5, FieldNames DEF Same, At, Serves
<1>7. WorkType(Work(accept_return(t))) /\ Placed(Work(t), Work(accept_return(t)))
  BY <1>5, <1>6, WorkOf DEF Placed, Work
<1>8. ServerOK'
  <2>1. srv \in SrvType /\ ServerOK
    BY DEF HttpInv, ServerOK
  <2>2. srv' = [srv EXCEPT !.pc = "loop", !.call = srv.call, !.hc = [srv.hc EXCEPT ![k] = s(c)]]
    BY <1>1, <2>1 DEF SrvType
  <2>3. s(c) \in SlotRec /\ s(c).st = "READ" /\ s(c).fd \in Socks /\ s(c).off < RespLen
    BY <1>3, FirstNumbers DEF SlotRec
  <2>4. srv.call \in CallRec /\ CallType(srv.call)
    BY <2>1 DEF SrvType, ServerOK
  <2> HIDE DEF s
  <2> QED BY <1>2, <2>1, <2>2, <2>3, <2>4, SlotWritten
<1> QED BY <1>1, <1>3, <1>7, <1>8, ServerWrites

(* close_conn of a slot in use. *)
LEMMA CloseConnStep ==
  ASSUME HttpInv, NEW i \in Slots, srv.hc[i].st # "FREE", CloseConn(i), UNCHANGED <<faults, cli>>
  PROVE  HttpInv'
<1>1. Put("srv", srv.hc[i].fd, close_begin(S(i))) /\ srv' = [srv EXCEPT !.pc = "closewait", !.at = i, !.call = NoCall]
  BY DEF CloseConn
<1>2. WorkType(close_begin(S(i))) /\ Placed(Work(S(i)), close_begin(S(i)))
  BY ServerBlock, CloseBeginDoes, CloseBeginPlaced DEF Block
<1>3. ServerOK'
  <2>1. srv \in SrvType
    BY DEF HttpInv, ServerOK
  <2>2. srv'.hc = srv.hc /\ srv'.at = i /\ srv'.call = NoCall /\ srv' \in SrvType
    BY <1>1, <2>1, NoCallTyped DEF SrvType
  <2> QED BY <2>2, NoCallTyped DEF HttpInv, ServerOK
<1> QED BY <1>1, <1>2, <1>3, ServerBlock, ServerWrites DEF S

LEMMA HttpdCloseStep == ASSUME HttpInv, NEW i \in Slots, HttpdClose(i) PROVE HttpInv'
BY CloseConnStep DEF HttpdClose, InUse

LEMMA HttpdCloseEndStep == ASSUME HttpInv, HttpdCloseEnd PROVE HttpInv'
<1> DEFINE i == srv.at
<1>1. /\ Put("srv", srv.hc[i].fd, Work(close_end(S(i)))) /\ srv' = [srv EXCEPT !.pc = "loop", !.hc[i] = FreeSlot]
      /\ srv.pc = "closewait" /\ UNCHANGED <<faults, cli>>
  BY DEF HttpdCloseEnd
<1>2. i \in Slots /\ srv.hc[i].st # "FREE" /\ srv \in SrvType /\ ServerOK
  BY <1>1 DEF HttpInv, ServerOK, SrvType
<1>3. Block(S(i)) /\ srv.hc[i].fd \in Socks
  BY <1>2, ServerBlock
<1>4. WorkType(Work(close_end(S(i)))) /\ Placed(Work(S(i)), Work(close_end(S(i))))
  BY <1>3, CloseEndDoes, WorkOf, EndPlaced DEF Block
<1>5. ServerOK'
  <2>1. srv' = [srv EXCEPT !.pc = "loop", !.call = srv.call, !.hc = [srv.hc EXCEPT ![i] = FreeSlot]]
    BY <1>1, <1>2 DEF SrvType
  <2>2. FreeSlot \in SlotRec /\ FreeSlot.st = "FREE"
    BY DEF FreeSlot, SlotRec
  <2>3. srv.call \in CallRec /\ CallType(srv.call)
    BY <1>2 DEF SrvType, ServerOK
  <2> HIDE DEF i
  <2> QED BY <1>2, <2>1, <2>2, <2>3, SlotWritten
<1> QED BY <1>1, <1>3, <1>4, <1>5, ServerWrites DEF S

LEMMA HttpdReadStep == ASSUME HttpInv, NEW i \in Slots, HttpdRead(i) PROVE HttpInv'
<1> DEFINE r == srv.hc[i]
           st == IF r.rn + 1 = ReqLen THEN "SEND" ELSE "READ"
           s == [r EXCEPT !.rn = r.rn + 1, !.st = st]
<1>1. /\ Put("srv", r.fd, net_tcp_recv(S(i), 1)) /\ srv' = [srv EXCEPT !.hc[i].rn = @ + 1, !.hc[i].st = st]
      /\ r.st = "READ" /\ srv.pc = "loop" /\ UNCHANGED <<faults, cli>>
  BY DEF HttpdRead, InUse
<1>2. srv \in SrvType /\ ServerOK /\ r \in SlotRec /\ r.fd \in Socks /\ r.off < RespLen
  BY <1>1 DEF HttpInv, ServerOK, SrvType
<1>3. WorkType(net_tcp_recv(S(i), 1)) /\ Placed(Work(S(i)), net_tcp_recv(S(i), 1))
  BY <1>1, ServerBlock, RecvDoes, RecvPlaced DEF Block
<1>4. ServerOK'
  <2>1. s \in SlotRec /\ s.fd = r.fd /\ s.off = r.off
    <3>1. st \in {"READ", "SEND"} /\ r.rn + 1 \in Nat
      BY <1>2 DEF SlotRec
    <3> HIDE DEF st
    <3> QED BY <1>2, <3>1 DEF SlotRec
  <2>2. srv' = [srv EXCEPT !.pc = "loop", !.call = srv.call, !.hc = [srv.hc EXCEPT ![i] = s]]
    <3>1. srv.hc \in [Slots -> SlotRec]
      BY <1>2 DEF SrvType
    <3>2. srv' = [srv EXCEPT !.hc = [srv.hc EXCEPT ![i] = s]]
      <4> HIDE DEF st
      <4> QED BY <1>1, <1>2, <3>1 DEF SlotRec, SrvType
    <3> HIDE DEF s
    <3> QED BY <1>1, <1>2, <3>2 DEF SrvType
  <2>3. srv.call \in CallRec /\ CallType(srv.call)
    BY <1>2 DEF SrvType, ServerOK
  <2> HIDE DEF s
  <2> QED BY <1>2, <2>1, <2>2, <2>3, SlotWritten
<1> QED BY <1>1, <1>2, <1>3, <1>4, ServerWrites DEF S
LEMMA HttpdSendBeginStep == ASSUME HttpInv, NEW i \in Slots, HttpdSendBegin(i) PROVE HttpInv'
<1> DEFINE off == srv.hc[i].off
           chunk == Min({MSS, RespLen - off})
           d == Bytes(ConnId("srv", S(i)), off + 1, off + chunk)
           c == send_begin(S(i), d)
<1>1. /\ srv' = [srv EXCEPT !.pc = "send", !.at = i, !.call = c] /\ srv.hc[i].st = "SEND"
      /\ UNCHANGED <<conns, net, faults, cli>>
  BY DEF HttpdSendBegin, tcpVars
<1>2. srv \in SrvType /\ ServerOK /\ off \in Nat /\ off < RespLen /\ Block(S(i))
  BY <1>1, ServerBlock DEF HttpInv, ServerOK, SrvType, SlotRec
<1>3. chunk \in Nat /\ chunk <= MSS
  <2>1. RespLen - off \in Nat /\ MSS \in Nat
    BY <1>2, Sizes, FirstNumbers
  <2> QED BY <2>1, MinOfTwo
<1> HIDE DEF chunk, off
<1>4. CallType(c) /\ c \in CallRec
  <2>1. off + 1 \in Nat \ {0} /\ off + chunk \in Nat /\ (off + chunk) - (off + 1) + 1 = chunk
    BY <1>2, <1>3
  <2>2. ConnId("srv", S(i)) \in Nat
    BY <1>2 DEF ConnId, Block
  <2>3. (off + chunk) - (off + 1) + 1 \in Nat
    BY <1>3, <2>1
  <2>4. d \in Seq(Nat) /\ Len(d) = (off + chunk) - (off + 1) + 1
    BY <2>1, <2>2, <2>3, BytesTyped, Zenon
  <2>5. Len(d) <= MSS
    BY <1>3, <2>1, <2>4
  <2> HIDE DEF d
  <2>6. c = [data |-> d, pos |-> 0, inflight |-> S(i).una # S(i).nxt]
    BY DEF send_begin
  <2> QED BY <2>4, <2>5, <2>6 DEF CallType, CallRec
<1> HIDE DEF c
<1>5. srv'.hc = srv.hc /\ srv'.at = i /\ srv'.call = c /\ srv' \in SrvType
  BY <1>1, <1>2, <1>4 DEF SrvType
<1>6. ServerOK'
  BY <1>1, <1>4, <1>5 DEF HttpInv, ServerOK
<1>7. Tables'
  BY <1>1 DEF HttpInv, Tables
<1>8. ClientOK'
  BY <1>1 DEF HttpInv, ClientOK, C
<1> QED BY <1>6, <1>7, <1>8 DEF HttpInv

LEMMA HttpdSendStep == ASSUME HttpInv, HttpdSend PROVE HttpInv'
<1> DEFINE i == srv.at
           c == srv.call
           q == send_turn(S(i), c)
           r == srv.hc[i]
           off == r.off + Len(c.data)
           st == IF off >= RespLen THEN "WAIT" ELSE "SEND"
           s == [r EXCEPT !.off = off, !.st = st]
<1>1. /\ srv.pc = "send" /\ UNCHANGED <<faults, cli>>
      /\ \/ /\ Put("srv", r.fd, q.x)
            /\ \/ srv' = [srv EXCEPT !.call.pos = q.pos]
               \/ srv' = [srv EXCEPT !.pc = "loop", !.call = NoCall, !.hc[i].off = off, !.hc[i].st = st]
         \/ CloseConn(i)
  BY DEF HttpdSend
<1>2. i \in Slots /\ r.st # "FREE" /\ srv \in SrvType /\ ServerOK /\ CallType(c) /\ c \in CallRec /\ r \in SlotRec /\ r.fd \in Socks
  BY <1>1 DEF HttpInv, ServerOK, SrvType
<1>3. Block(S(i))
  BY <1>2, ServerBlock
<1>4. WorkType(q.x) /\ Placed(Work(S(i)), q.x) /\ q.pos \in Nat
  BY <1>2, <1>3, SendTurnTyped, SendTurnPlaced DEF Block
<1> HIDE DEF q
<1>5. CASE CloseConn(i)
  BY <1>1, <1>2, <1>5, CloseConnStep
<1>6. CASE Put("srv", r.fd, q.x) /\ srv' = [srv EXCEPT !.call.pos = q.pos]
  <2>1. srv' = [srv EXCEPT !.call = [c EXCEPT !.pos = q.pos]]
    BY <1>2, <1>6 DEF SrvType
  <2>2. [c EXCEPT !.pos = q.pos] \in CallRec /\ CallType([c EXCEPT !.pos = q.pos])
    BY <1>2, <1>4 DEF CallRec, CallType
  <2>3. /\ srv' \in SrvType /\ srv'.hc = srv.hc /\ srv'.at = srv.at /\ srv'.pc = srv.pc
        /\ srv'.call = [c EXCEPT !.pos = q.pos]
    BY <1>2, <2>1, <2>2 DEF SrvType
  <2>4. ServerOK'
    BY <1>2, <2>2, <2>3 DEF ServerOK
  <2> QED BY <1>1, <1>2, <1>4, <1>6, <2>4, ServerWrites DEF S
<1>7. CASE /\ Put("srv", r.fd, q.x)
           /\ srv' = [srv EXCEPT !.pc = "loop", !.call = NoCall, !.hc[i].off = off, !.hc[i].st = st]
  <2>1. off \in Nat /\ st \in {"WAIT", "SEND"} /\ (st = "SEND" => off < RespLen)
    <3>1. r.off \in Nat /\ Len(c.data) \in Nat
      BY <1>2 DEF SlotRec, CallRec
    <3> QED BY <3>1, FirstNumbers
  <2> HIDE DEF off, st
  <2>2. s \in SlotRec /\ s.fd = r.fd /\ s.off = off /\ s.st = st
    BY <1>2, <2>1 DEF SlotRec
  <2>3. srv' = [srv EXCEPT !.pc = "loop", !.call = NoCall, !.hc = [srv.hc EXCEPT ![i] = s]]
    BY <1>2, <1>7, ZenonT(60) DEF SlotRec, SrvType
  <2> HIDE DEF s
  <2>4. s.st # "FREE" /\ (s.st \in {"READ", "SEND"} => s.off < RespLen) /\ s.fd \in Socks
    BY <1>2, <2>1, <2>2
  <2>5. ServerOK'
    <3> HIDE DEF i
    <3> QED BY <1>2, <2>2, <2>3, <2>4, NoCallTyped, SlotWritten
  <2> QED BY <1>1, <1>2, <1>4, <1>7, <2>5, ServerWrites DEF S
<1> QED BY <1>1, <1>5, <1>6, <1>7

----------------------------------------------------------------------------
LEMMA HttpStep == ASSUME HttpInv, [Next]_vars PROVE HttpInv'
<1>1. CASE TimerPoll
  BY <1>1, PollStep DEF TimerPoll
<1>2. CASE Network
  BY <1>2, DeliverStep, LoseStep, ResetStep DEF Network
<1>3. CASE Client
  BY <1>3, HttpGetStep, ConnectAgainStep, ConnectEndStep, ClientSendStep, ClientReadStep, ClientCloseStep,
     ClientCloseEndStep DEF Client
<1>4. CASE Server
  BY <1>4, HttpdListenStep, HttpdAcceptStep, HttpdCloseEndStep, HttpdSendStep, HttpdCloseStep, HttpdReadStep,
     HttpdSendBeginStep DEF Server
<1>5. CASE UNCHANGED vars
  <2>1. Tables'
    BY <1>5 DEF HttpInv, Tables, vars
  <2>2. ClientOK'
    BY <1>5 DEF HttpInv, ClientOK, C, vars
  <2>3. ServerOK'
    BY <1>5, ServerSame DEF HttpInv, vars
  <2> QED BY <2>1, <2>2, <2>3 DEF HttpInv
<1> QED BY <1>1, <1>2, <1>3, <1>4, <1>5 DEF Next

LEMMA HttpInvTypes == HttpInv => TypeOK
<1> SUFFICES ASSUME HttpInv PROVE TypeOK
  OBVIOUS
<1>1. ASSUME NEW h \in Hosts, NEW i \in Socks
      PROVE  LET t == conns[h][i]
             IN /\ t.head \in 0..TXQ-1 /\ t.tail \in 0..TXQ-1
                /\ Len(t.rx) <= RING /\ Len(t.nagle) <= MSS
                /\ {t.una, t.nxt, t.rcv, t.fin_seq} \subseteq 0..SeqSpace-1
                /\ t.retries <= MAX_RETRANS + 1 /\ t.ka <= KA_CNT + 1
                /\ \A j \in 0..TXQ-1 : t.txb[j].pend => Len(t.txb[j].data) \in 1..MSS
  <2> DEFINE t == conns[h][i]
  <2>1. BlockType(t)
    BY DEF HttpInv, Tables, Block
  <2> HIDE DEF t
  <2>2. ASSUME NEW j \in 0..TXQ-1, t.txb[j].pend PROVE Len(t.txb[j].data) \in 1..MSS
    <3>1. t.txb[j] \in Slot
      BY <2>1 DEF BlockType
    <3>2. t.txb[j].data \in Seq(Nat) /\ t.txb[j].data # << >> /\ Len(t.txb[j].data) <= MSS
      BY <2>2, <3>1 DEF Slot
    <3> QED BY <3>2, Sizes
  <2>3. t.retries <= MAX_RETRANS + 1 /\ t.ka <= KA_CNT + 1
    BY <2>1, Sizes DEF BlockType
  <2> QED BY <2>1, <2>2, <2>3 DEF BlockType, SeqNos, t
<1>2. faults \in 0..MaxFaults
  BY DEF HttpInv, Tables
<1>3. cli.pc \in {"idle", "connect", "send", "read", "close", "closewait"}
  BY DEF HttpInv, ClientOK, CliType
<1>4. srv.pc \in {"loop", "send", "closewait"}
  BY DEF HttpInv, ServerOK, SrvType
<1> QED BY <1>1, <1>2, <1>3, <1>4 DEF TypeOK

(* Every block keeps its ring and its bounds: positions of the queue within  *)
(* the queue, sequence numbers within the sequence space, buffers no longer  *)
(* than they are, and no retransmission or probe beyond the limit that       *)
(* aborts (TypeOK), for any number of blocks, sizes, losses and requests.    *)
THEOREM HttpTypes == Spec => []TypeOK
<1>1. Init => HttpInv
  BY HttpInit
<1>2. HttpInv /\ [Next]_vars => HttpInv'
  BY HttpStep
<1>3. HttpInv => TypeOK
  BY HttpInvTypes
<1> QED BY <1>1, <1>2, <1>3, PTL DEF Spec
=============================================================================
