--------------------------------- MODULE Rx ---------------------------------
(* A datagram's way in: the card and its driver (Nic), the reassembly of     *)
(* IPv4 fragments (src/kernel/net.cpp 1428-1536), the queue of a UDP socket  *)
(* (Udp) and a process that reads it (the system calls of sched.cpp).        *)
(*                                                                           *)
(* A datagram is a name; fragment k of it is [d, k].  A reassembly buffer    *)
(* keeps what earlier datagrams left in it, so that a place holds the        *)
(* fragment last copied to it, or Blank.  The air loses, doubles, damages    *)
(* and reorders frames, the first three at most MaxFaults times.             *)
EXTENDS Udp, Nic

CONSTANTS
  Count,      \* Count[d]: the fragments of datagram d
  BufSize,    \* fragments that a reassembly buffer has room for
  Summed,     \* datagrams that carry a UDP checksum
  Loads,      \* sets of fragments that may be on their way together
  Shape(_),   \* Shape(fragment): [words, ragged, long] of its frame
  MaxFaults,  \* bound on the faults of the air
  MaxOpens    \* bound on the sockets that the process opens

Datagrams == DOMAIN Count
Places == 0..BufSize-1
Fragment == {f \in [d : Datagrams, k : Places] : f.k < Count[f.d]}
Frame(f, err) == [f |-> f, words |-> Shape(f).words, ragged |-> Shape(f).ragged, long |-> Shape(f).long, err |-> err]

ASSUME RxAssumption ==
  /\ BufSize \in Nat \ {0} /\ {MaxFaults, MaxOpens} \subseteq Nat
  /\ \A d \in Datagrams : Count[d] \in 1..BufSize
  /\ Summed \subseteq Datagrams /\ Loads \subseteq SUBSET Fragment /\ None \notin Fragment
  /\ \A f \in Fragment : Shape(f) \in [words : Nat, ragged : BOOLEAN, long : BOOLEAN]
  /\ \A f \in Fragment, err \in BOOLEAN : Frame(f, err) # None
  (* A frame, at most 1522 bytes, is shorter than the ring of 64 KB.         *)
  /\ \A f \in Fragment : ~Shape(f).long => Shape(f).words + 1 < RX_WORDS

VARIABLES
  air,      \* frames on their way to the card
  faults,
  frags,    \* ipfrags with their buffers
  armed,    \* ipf_armed
  proc,     \* the process: [fd, opens]
  inorder,  \* history: inorder[d] fragments of d have come in order
  whole,    \* history: datagrams that came whole and in order
  up,       \* history: the datagrams that handle_udp had for the open socket
  got       \* history: what the process has read from it

stackVars == <<frags, armed, socks, inorder, whole, up>>
vars == <<air, faults, frags, armed, proc, inorder, whole, up, got, socks, driver, e1000, rtl, irq, accepted>>

Port == 7
Last(f) == f.k = Count[f.d] - 1
Blank == None
NoFrag == [used |-> FALSE, d |-> None, got |-> 0, tot |-> 0, parts |-> [k \in Places |-> Blank]]
Slots == 1..2

Init ==
  /\ NicInit
  /\ air \in Loads /\ faults = 0
  /\ frags = [s \in Slots |-> NoFrag] /\ armed = FALSE
  /\ socks = [s \in Fds |-> Sock0] /\ proc = [fd |-> -1, opens |-> 0]
  /\ inorder = [d \in Datagrams |-> 0] /\ whole = {}
  /\ up = << >> /\ got = << >>

----------------------------------------------------------------------------
(* The air. *)
Air ==
  \E f \in air, how \in {"whole", "doubled", "damaged", "lost"} :
    /\ \/ how = "whole" /\ UNCHANGED faults
       \/ how # "whole" /\ faults < MaxFaults /\ faults' = faults + 1
    /\ air' = IF how = "doubled" THEN air ELSE air \ {f}
    /\ \/ how = "lost" /\ UNCHANGED nicVars
       \/ how # "lost" /\ E1000Receive(Frame(f, how = "damaged"))
       \/ how # "lost" /\ RtlReceive(Frame(f, how = "damaged"))
    /\ UNCHANGED <<stackVars, proc, got>>
Card == E1000Rest /\ UNCHANGED <<air, faults, stackVars, proc, got>>

----------------------------------------------------------------------------
(* handle_udp for the tot parts of a datagram.  Its length is that of the    *)
(* part with the UDP header, and so is its port; nothing listens on the port *)
(* of a Blank one.                                                           *)
Intact(parts, tot) ==
  LET d == parts[0].d
  IN Count[d] <= tot /\ \A k \in 0..Count[d]-1 : parts[k] = [d |-> d, k |-> k]
handle_udp(parts, tot) ==
  IF parts[0] = Blank \/ (parts[0].d \in Summed /\ ~Intact(parts, tot)) \/ udp_sock_bound(Port) = {}
  THEN UNCHANGED <<socks, up>>
  ELSE LET dgram == [d |-> parts[0].d, intact |-> Intact(parts, tot)]
       IN socks' = Handled(Port, dgram) /\ up' = Append(up, dgram)

(* handle_ipv4: the slot that fragment f goes to, or none. *)
Matching(f) == {s \in Slots : frags[s].used /\ frags[s].d = f.d}
Unused == {s \in Slots : ~frags[s].used}

\* A plausible bug: a fragment that matches no slot goes to the first one.
SlotOfFirst(f) == IF Matching(f) # {} THEN Matching(f) ELSE {1}

SlotOf(f) == IF Matching(f) # {} THEN {Min(Matching(f))}
             ELSE IF Unused # {} THEN {Min(Unused)} ELSE {}
(* Only the first fragment claims its slot and starts the counts anew; the   *)
(* bytes are counted up to the furthest one, whether or not all have come.   *)
Stored(F, f) ==
  LET G == IF f.k = 0 THEN [F EXCEPT !.used = TRUE, !.d = f.d, !.got = 0, !.tot = 0] ELSE F
  IN [G EXCEPT !.parts[f.k] = f, !.got = Max({@, f.k + 1}), !.tot = IF Last(f) THEN f.k + 1 ELSE @]
Complete(F) == F.tot # 0 /\ F.got >= F.tot
ipf_clear(F) == [F EXCEPT !.used = FALSE, !.got = 0, !.tot = 0]

handle_ipv4(f) ==
  \/ /\ Count[f.d] = 1
     /\ handle_udp([k \in Places |-> f], 1)
     /\ UNCHANGED <<frags, armed>>
  \/ /\ Count[f.d] > 1 /\ SlotOf(f) = {}
     /\ UNCHANGED <<frags, armed, socks, up>>
  \/ /\ Count[f.d] > 1
     /\ \E s \in SlotOf(f) :
          LET F == Stored(frags[s], f)
          IN \/ ~Complete(F) /\ frags' = [frags EXCEPT ![s] = F] /\ UNCHANGED <<socks, up>>
             \/ Complete(F) /\ frags' = [frags EXCEPT ![s] = ipf_clear(F)] /\ handle_udp(F.parts, F.tot)
     /\ armed' = TRUE

(* History: the fragments that came in order since a slot was had for the    *)
(* first.  One that comes again changes nothing, one that comes too early    *)
(* breaks the order.                                                         *)
InOrder(f) ==
  LET n == CASE f.k = 0 -> IF inorder[f.d] = 0 /\ Matching(f) \cup Unused = {} THEN 0 ELSE Max({inorder[f.d], 1})
             [] f.k > 0 /\ f.k < inorder[f.d] -> inorder[f.d]
             [] f.k > 0 /\ f.k = inorder[f.d] -> f.k + 1
             [] OTHER -> 0
  IN /\ inorder' = [inorder EXCEPT ![f.d] = IF n = Count[f.d] THEN 0 ELSE n]
     /\ whole' = IF n = Count[f.d] /\ udp_sock_bound(Port) # {} THEN whole \cup {f.d} ELSE whole

Interrupt == (E1000Begin \/ RtlBegin) /\ UNCHANGED <<air, faults, stackVars, proc, got>>
Return == (E1000End \/ RtlEnd) /\ UNCHANGED <<air, faults, stackVars, proc, got>>
Handle ==
  /\ E1000Step \/ RtlStep
  /\ \/ Given = None /\ UNCHANGED stackVars
     \/ \E f \in {Given} \ {None} : handle_ipv4(f) /\ InOrder(f)
  /\ UNCHANGED <<air, faults, proc, got>>

\* A plausible bug: only the first slot is given up.
frag_expiry_poll_first ==
  /\ irq.pc = "out" /\ armed
  /\ frags' = [frags EXCEPT ![1] = ipf_clear(@)]
  /\ armed' = FALSE /\ inorder' = [d \in Datagrams |-> 0]
  /\ UNCHANGED <<air, faults, proc, socks, whole, up, got, nicVars>>

(* The timer: nothing came for 200 ticks. *)
frag_expiry_poll ==
  /\ irq.pc = "out" /\ armed
  /\ frags' = [s \in Slots |-> ipf_clear(frags[s])]
  /\ armed' = FALSE /\ inorder' = [d \in Datagrams |-> 0]
  /\ UNCHANGED <<air, faults, proc, socks, whole, up, got, nicVars>>

----------------------------------------------------------------------------
(* The process: its system calls run with interrupts off. *)
SysUdpSocket ==
  /\ proc.fd = -1 /\ proc.opens < MaxOpens
  /\ \E s \in FreeFds : udp_sock_alloc(s) /\ proc' = [fd |-> s, opens |-> proc.opens + 1]
  /\ up' = << >> /\ got' = << >> /\ whole' = {}
SysUdpBind ==
  /\ proc.fd # -1 /\ CanBind(proc.fd, Port)
  /\ socks' = [socks EXCEPT ![proc.fd] = Bound(@, Port)]
  /\ UNCHANGED <<proc, up, got, whole>>
SysUdpRecvFrom ==
  /\ proc.fd # -1 /\ socks[proc.fd].qn > 0
  /\ LET u == socks[proc.fd]
     IN got' = Append(got, u.q[u.qr]) /\ socks' = [socks EXCEPT ![proc.fd] = Counted(Taken(u), u.qn)]
  /\ UNCHANGED <<proc, up, whole>>
SysUdpClose ==
  /\ proc.fd # -1
  /\ socks' = [socks EXCEPT ![proc.fd] = Closed(@)]
  /\ proc' = [proc EXCEPT !.fd = -1]
  /\ up' = << >> /\ got' = << >> /\ whole' = {}
Process ==
  /\ irq.pc = "out"
  /\ SysUdpSocket \/ SysUdpBind \/ SysUdpRecvFrom \/ SysUdpClose
  /\ UNCHANGED <<air, faults, frags, armed, inorder, nicVars>>

Next == Air \/ Card \/ Interrupt \/ Handle \/ Return \/ frag_expiry_poll \/ Process
(* Handlers end; the timer's interrupt, the first in rank, is taken when the *)
(* one that held it off returns.                                             *)
Spec == Init /\ [][Next]_vars /\ WF_vars(Handle) /\ WF_vars(Return) /\ SF_vars(frag_expiry_poll)

----------------------------------------------------------------------------
(* Types; the counts of the ring and of the reassembly stay in their arrays. *)
TypeOK ==
  /\ \A s \in Fds : socks[s].qn \in 0..UDP_QLEN /\ {socks[s].qr, socks[s].qw} \subseteq 0..UDP_QLEN-1
  /\ \A s \in Slots : {frags[s].got, frags[s].tot} \subseteq 0..BufSize
  /\ {e1000.rx_next, e1000.rdh, e1000.rdt} \subseteq 0..RX_SLOTS-1
  /\ {rtl.rx_cur, rtl.cbr, rtl.capr} \subseteq 0..RX_WORDS-1
  /\ irq.pc \in {"out", "e1000", "rtl8139", "wild"}

(* A datagram whose fragments reach handle_ipv4 in order is handed on whole, *)
(* though fragments of others come in between in any order, lost, doubled or *)
(* into the same buffer; until then its slot keeps what has come of it.      *)
InOrderIsDelivered ==
  /\ \A d \in whole : \E i \in DOMAIN up : up[i] = [d |-> d, intact |-> TRUE]
  /\ \A d \in Datagrams : inorder[d] > 0 =>
       \E s \in Slots : /\ frags[s].used /\ frags[s].d = d
                        /\ \A k \in 0..inorder[d]-1 : frags[s].parts[k] = [d |-> d, k |-> k]

Queued(u) == [i \in 1..u.qn |-> u.q[(u.qr + i - 1) % UDP_QLEN]]
(* The process reads the datagrams in the order in which they were handed to *)
(* its socket, each once; some are missing only if the queue may have been   *)
(* full.                                                                     *)
QueueInOrder ==
  proc.fd # -1 =>
    LET all == got \o Queued(socks[proc.fd])
    IN \E kept \in SUBSET (DOMAIN up) :
         /\ Len(up) <= UDP_QLEN => kept = DOMAIN up
         /\ Cardinality(kept) = Len(all)
         /\ \A i \in kept : up[i] = all[Cardinality({j \in kept : j <= i})]

(* A datagram that never becomes complete does not hold its slot for ever.   *)
SlotsFreed == \A s \in Slots : (frags[s].used /\ irq.pc # "wild") ~> (~frags[s].used \/ irq.pc = "wild")
=============================================================================
