-------------------------------- MODULE Nic --------------------------------
(* How the two network cards and their drivers hand received frames over:    *)
(* e1000 (src/kernel/e1000.cpp), a ring of descriptors, and rtl8139          *)
(* (src/kernel/rtl8139.cpp), a ring of words that a frame may cross.         *)
(*                                                                           *)
(* The driver runs in an interrupt, one iteration of its loop a step, while  *)
(* the card goes on writing.  A frame is [f, words, ragged, long, err]: what *)
(* it carries, its words with the CRC, whether the last one is partly used,  *)
(* whether it takes two descriptors, whether the card found it damaged.      *)
(* accepted is a history variable: what the card wrote and the driver has    *)
(* not passed yet.                                                           *)
EXTENDS Integers, Sequences

CONSTANTS
  RX_SLOTS,   \* descriptors (16 in the code)
  RX_WORDS,   \* words of the other card's ring (16384)
  None

ASSUME NicAssumption == RX_SLOTS \in Nat \ {0, 1} /\ RX_WORDS \in Nat \ 0..4

VARIABLES
  driver,     \* the card that is active
  e1000,      \* [ring, rx_next, rdh, rdt, rest]
  rtl,        \* [mem, rx_cur, cbr, capr, isr]
  irq,        \* the interrupt: [pc, skipping]
  accepted

nicVars == <<driver, e1000, rtl, irq, accepted>>

NoDesc == [dd |-> FALSE, eop |-> FALSE, frame |-> None]
OutOfIrq == [pc |-> "out", skipping |-> FALSE]
(* What the middle of a long frame looks like to the stack. *)
Middle(frame) == [frame EXCEPT !.f = None]

NicInit ==
  /\ driver \in {"e1000", "rtl8139"}
  /\ e1000 = [ring |-> [i \in 0..RX_SLOTS-1 |-> NoDesc], rx_next |-> 0, rdh |-> 0, rdt |-> RX_SLOTS - 1, rest |-> None]
  /\ rtl = [mem |-> [i \in 0..RX_WORDS-1 |-> None], rx_cur |-> 0, cbr |-> 0, capr |-> RX_WORDS - 4, isr |-> {}]
  /\ irq = OutOfIrq
  /\ accepted = << >>

----------------------------------------------------------------------------
(* The e1000 card: it fills the descriptors from rdh up to rdt.              *)
Free == (e1000.rdt - e1000.rdh) % RX_SLOTS
Desc(frame, eop) == [dd |-> TRUE, eop |-> eop, frame |-> frame]
Fill(desc, rest) ==
  /\ e1000' = [e1000 EXCEPT !.ring[e1000.rdh] = desc, !.rdh = (@ + 1) % RX_SLOTS, !.rest = rest]
  /\ accepted' = Append(accepted, desc)
  /\ UNCHANGED <<driver, rtl, irq>>
E1000Receive(frame) ==
  /\ driver = "e1000" /\ e1000.rest = None
  /\ \/ ~frame.long /\ Free >= 1 /\ Fill(Desc(frame, TRUE), None)
     \/ frame.long /\ Free >= 2 /\ Fill(Desc(frame, FALSE), frame)
     \/ Free < (IF frame.long THEN 2 ELSE 1) /\ UNCHANGED nicVars   \* lost
E1000Rest == driver = "e1000" /\ e1000.rest # None /\ Fill(Desc(Middle(e1000.rest), TRUE), None)

(* e1000_poll and rx_process: skipping is a local variable, so that it does  *)
(* not outlive the call.                                                     *)
Pending == e1000.ring[e1000.rx_next]
E1000Begin ==
  /\ driver = "e1000" /\ irq.pc = "out" /\ Pending.dd   \* a poll that finds nothing is left out
  /\ irq' = [pc |-> "e1000", skipping |-> FALSE]
  /\ UNCHANGED <<driver, e1000, rtl, accepted>>

\* A plausible bug: the status of a descriptor is not cleared.
ConsumedKeepsStatus == [e1000 EXCEPT !.rdt = e1000.rx_next, !.rx_next = (@ + 1) % RX_SLOTS]

Consumed == [e1000 EXCEPT !.ring[e1000.rx_next] = NoDesc, !.rdt = e1000.rx_next, !.rx_next = (@ + 1) % RX_SLOTS]
(* One iteration; Given is the frame that it hands up, or None.              *)
Hands == ~irq.skipping /\ Pending.eop /\ ~Pending.frame.err
E1000Step ==
  /\ irq.pc = "e1000" /\ Pending.dd
  /\ irq' = [irq EXCEPT !.skipping = ~Pending.eop]
  /\ e1000' = Consumed
  /\ accepted' = Tail(accepted)
  /\ UNCHANGED <<driver, rtl>>
E1000End ==
  /\ irq.pc = "e1000" /\ ~Pending.dd
  /\ irq' = OutOfIrq
  /\ UNCHANGED <<driver, e1000, rtl, accepted>>

----------------------------------------------------------------------------
(* The rtl8139 card: it writes a header word and the frame at cbr if they    *)
(* are less than what is free up to the word that capr stands for.  Long and *)
(* damaged frames it keeps to itself (AcceptErr is off).                     *)
Room(frame) ==
  LET avail == (rtl.capr + 4 - rtl.cbr) % RX_WORDS
  IN avail = 0 \/ frame.words + 1 < avail
Kept(frame) == frame.long \/ frame.err
Covered(start, n) == {(start + i) % RX_WORDS : i \in 0..n-1}
RtlReceive(frame) ==
  /\ driver = "rtl8139"
  /\ \/ /\ ~Kept(frame) /\ Room(frame)
        /\ rtl' = [rtl EXCEPT !.mem = [i \in 0..RX_WORDS-1 |->
                                         IF i = rtl.cbr THEN frame
                                         ELSE IF i \in Covered(rtl.cbr, frame.words + 1) THEN None ELSE rtl.mem[i]],
                              !.cbr = (@ + frame.words + 1) % RX_WORDS, !.isr = @ \cup {"ROK"}]
        /\ accepted' = Append(accepted, frame)
     \/ ~Kept(frame) /\ ~Room(frame) /\ rtl' = [rtl EXCEPT !.isr = @ \cup {"RXOVW"}] /\ UNCHANGED accepted
     \/ Kept(frame) /\ UNCHANGED <<rtl, accepted>>
  /\ UNCHANGED <<driver, e1000, irq>>

(* rtl8139_irq and rtl8139_poll; a reported overflow drops what is pending.  *)
rx_overflow_recover(r) == [r EXCEPT !.rx_cur = r.cbr, !.capr = (r.cbr - 4) % RX_WORDS]
RtlBegin ==
  /\ driver = "rtl8139" /\ irq.pc = "out" /\ rtl.isr # {}
  /\ LET r == [rtl EXCEPT !.isr = {}]
     IN \/ "RXOVW" \in rtl.isr /\ rtl' = rx_overflow_recover(r) /\ accepted' = << >>
        \/ "RXOVW" \notin rtl.isr /\ rtl' = r /\ UNCHANGED accepted
  /\ irq' = IF "ROK" \in rtl.isr THEN [OutOfIrq EXCEPT !.pc = "rtl8139"] ELSE OutOfIrq
  /\ UNCHANGED <<driver, e1000>>

(* One iteration of process_rx; None is a header without RXT_OK.  When the   *)
(* ring ends inside the CRC, remain is below zero and the copy runs over the *)
(* kernel's memory: pc "wild".                                               *)
AtCur == rtl.mem[rtl.rx_cur]
Part1 == RX_WORDS - rtl.rx_cur - 1
Wild(frame) == frame.ragged /\ Part1 = frame.words - 1
Passed(r, frame) == [r EXCEPT !.rx_cur = (@ + 1 + frame.words) % RX_WORDS]
NothingNew == rtl.rx_cur = rtl.cbr \/ AtCur = None
RtlStep ==
  /\ irq.pc = "rtl8139" /\ ~NothingNew
  /\ \/ Wild(AtCur) /\ irq' = [irq EXCEPT !.pc = "wild"] /\ UNCHANGED <<rtl, accepted>>
     \/ ~Wild(AtCur) /\ rtl' = Passed(rtl, AtCur) /\ accepted' = Tail(accepted) /\ UNCHANGED irq
  /\ UNCHANGED <<driver, e1000>>
RtlEnd ==
  /\ irq.pc = "rtl8139" /\ NothingNew
  /\ rtl' = [rtl EXCEPT !.capr = IF rtl.rx_cur >= 4 THEN rtl.rx_cur - 4 ELSE 0]
  /\ irq' = OutOfIrq
  /\ UNCHANGED <<driver, e1000, accepted>>

----------------------------------------------------------------------------
(* The fragment that net_handle_eth gets in this step, or None.              *)
Given ==
  CASE irq.pc = "e1000" /\ Hands -> Pending.frame.f
    [] irq.pc = "rtl8139" /\ ~Wild(AtCur) -> AtCur.f
    [] OTHER -> None

----------------------------------------------------------------------------
(* The driver and the card agree on the ring: whatever the card writes while *)
(* the driver reads, what the driver takes next is the first frame it has    *)
(* not taken, whole and once, and behind it come the others in order.        *)
RingInOrder ==
  /\ driver = "e1000" =>
       \A i \in 0..RX_SLOTS-1 :
         e1000.ring[(e1000.rx_next + i) % RX_SLOTS] = IF i < Len(accepted) THEN accepted[i + 1] ELSE NoDesc
  /\ driver = "rtl8139" =>
       LET at[i \in 1..Len(accepted) + 1] ==
             IF i = 1 THEN rtl.rx_cur ELSE (at[i - 1] + accepted[i - 1].words + 1) % RX_WORDS
       IN /\ \A i \in 1..Len(accepted) : rtl.mem[at[i]] = accepted[i]
          /\ at[Len(accepted) + 1] = rtl.cbr
=============================================================================
