------------------------------ MODULE RxProofs ------------------------------
(* Proofs about module Rx, for any rings, datagrams, sockets and faults:     *)
(* that a datagram whose fragments come in order is delivered whole          *)
(* (InOrderIsDelivered), that card and driver agree on the rings             *)
(* (RingInOrder), that a process reads the datagrams of its socket in the    *)
(* order in which they were handed to it (QueueInOrder), and that the counts *)
(* of the rings and buffers stay in range (TypeOK).                          *)
EXTENDS Rx, LeastNumbers, FiniteSetTheorems, TLAPS


-----------------------------------------------------------------------------
(* Reassembly.                                                               *)
Frames == [f : Fragment \cup {None}, words : Nat, ragged : BOOLEAN, long : BOOLEAN, err : BOOLEAN]
Descs == {NoDesc} \cup [dd : {TRUE}, eop : BOOLEAN, frame : Frames]
Indices == 0..RX_SLOTS-1
Words == 0..RX_WORDS-1
Dgrams == [d : Datagrams, intact : BOOLEAN]
Reassemblies ==
  [used : BOOLEAN, d : Datagrams \cup {None}, got : Nat, tot : Nat,
   parts : [Places -> Fragment \cup {None}]]

(* Types of what leads to the reassembly.                                    *)
E1000Inv ==
  e1000 \in [ring : [Indices -> Descs], rx_next : Indices, rdh : Indices, rdt : Indices,
             rest : Frames \cup {None}]
RtlInv ==
  rtl \in [mem : [Words -> Frames \cup {None}], rx_cur : Words, cbr : Words, capr : Words,
           isr : SUBSET {"ROK", "RXOVW"}]
CardInv == air \subseteq Fragment /\ E1000Inv /\ RtlInv
FragInv ==
  /\ frags \in [Slots -> Reassemblies]
  /\ inorder \in [Datagrams -> Nat]
  /\ up \in Seq(Dgrams)

(* A slot that has seen the end of its datagram was given up in that step;   *)
(* no datagram has two slots; a datagram that has come is not still coming.  *)
NoneComplete == \A s \in Slots : frags[s].tot = 0
OneSlotEach == \A s, t \in Slots : frags[s].used /\ frags[t].used /\ frags[s].d = frags[t].d => s = t
NotYetWhole == \A d \in Datagrams : inorder[d] < Count[d]

(* The two parts of InOrderIsDelivered. *)
Delivered(d) == \E i \in DOMAIN up : up[i] = [d |-> d, intact |-> TRUE]
Keeps(F, d, n) == F.used /\ F.d = d /\ \A k \in 0..n-1 : F.parts[k] = [d |-> d, k |-> k]
Held(d) == inorder[d] > 0 => \E s \in Slots : Keeps(frags[s], d, inorder[d])

StackInv ==
  /\ FragInv /\ NoneComplete /\ OneSlotEach /\ NotYetWhole
  /\ \A d \in whole : Delivered(d)
  /\ \A d \in Datagrams : Held(d)

RxInv == CardInv /\ StackInv

-----------------------------------------------------------------------------
(* The larger of two numbers, and the first of some slots.                   *)
LEMMA MaxOfTwo == \A m, n \in Nat : Max({m, n}) \in Nat /\ Max({m, n}) = IF m >= n THEN m ELSE n
<1> SUFFICES ASSUME NEW m \in Nat, NEW n \in Nat
             PROVE Max({m, n}) \in Nat /\ Max({m, n}) = IF m >= n THEN m ELSE n
  OBVIOUS
<1>1. \E x \in {m, n} : \A y \in {m, n} : x >= y
  OBVIOUS
<1>2. Max({m, n}) \in {m, n} /\ \A y \in {m, n} : Max({m, n}) >= y
  BY <1>1 DEF Max
<1> QED BY <1>2

(* The least of some slots is one of them. *)
LEMMA MinOfSlots == \A S \in SUBSET Slots : S # {} => Min(S) \in S
<1> SUFFICES ASSUME NEW S \in SUBSET Slots, S # {} PROVE Min(S) \in S
  OBVIOUS
<1>1. \E x \in S : \A y \in S : x =< y
  <2>1. CASE 1 \in S
    BY <2>1 DEF Slots
  <2>2. CASE 1 \notin S
    <3>1. S \subseteq {1, 2}
      BY DEF Slots
    <3>2. S = {2}
      BY <2>2, <3>1
    <3> QED BY <3>2
  <2> QED BY <2>1, <2>2
<1> QED BY <1>1 DEF Min

(* A fragment goes to the slot of its datagram, or else to an unused one.    *)
LEMMA SlotOfGood ==
  ASSUME NEW f, NEW s \in SlotOf(f)
  PROVE  /\ s \in Slots
         /\ s \in Matching(f) \/ (s \in Unused /\ Matching(f) = {})
<1>1. Matching(f) \in SUBSET Slots /\ Unused \in SUBSET Slots
  BY DEF Matching, Unused
<1> QED BY <1>1, MinOfSlots DEF SlotOf

(* At the start every ring, slot and history is empty.                       *)
LEMMA Init_RxInv == Init => RxInv
<1> SUFFICES ASSUME Init PROVE RxInv
  OBVIOUS
<1> USE RxAssumption, NicAssumption
<1>1. CardInv
  BY DEF Init, NicInit, CardInv, E1000Inv, RtlInv, Descs, Indices, Words
<1>2. FragInv
  BY DEF Init, FragInv, NoFrag, Blank, Reassemblies, Slots
<1>3. NoneComplete /\ OneSlotEach /\ NotYetWhole
  BY DEF Init, NoneComplete, OneSlotEach, NotYetWhole, NoFrag, Datagrams
<1>4. (\A d \in whole : Delivered(d)) /\ (\A d \in Datagrams : Held(d))
  BY DEF Init, Held
<1> QED BY <1>1, <1>2, <1>3, <1>4 DEF RxInv, StackInv

-----------------------------------------------------------------------------
(* The indices of both rings stay in range when they wrap.                   *)
LEMMA Modulo ==
  /\ \A x \in Indices : (x + 1) % RX_SLOTS \in Indices
  /\ \A x \in Words : (x - 4) % RX_WORDS \in Words
  /\ \A x \in Words, n \in Nat : (x + n + 1) % RX_WORDS \in Words /\ (x + 1 + n) % RX_WORDS \in Words
<1>1. \A x \in Int : x % RX_WORDS \in Words /\ x % RX_SLOTS \in Indices
  BY NicAssumption DEF Words, Indices
<1>2. Indices \subseteq Int /\ Words \subseteq Int
  BY DEF Indices, Words
<1> QED BY <1>1, <1>2

(* The frame of a fragment. *)
LEMMA FrameTyped == \A f \in Fragment, err \in BOOLEAN : Frame(f, err) \in Frames
BY RxAssumption DEF Frame, Frames

(* What the e1000 card writes (E1000Receive, E1000Rest) keeps its ring typed. *)
LEMMA FillTyped ==
  ASSUME E1000Inv, NEW frame \in Frames, NEW eop \in BOOLEAN, NEW rest \in Frames \cup {None},
         Fill(Desc(frame, eop), rest)
  PROVE  E1000Inv'
<1>1. Desc(frame, eop) \in Descs
  BY DEF Desc, Descs
<1>2. e1000.rdh \in Indices
  BY DEF E1000Inv
<1>3. (e1000.rdh + 1) % RX_SLOTS \in Indices
  BY <1>2, Modulo
<1> QED BY <1>1, <1>2, <1>3 DEF Fill, E1000Inv

(* A frame that the e1000 card takes, or loses. *)
LEMMA E1000Receives ==
  ASSUME E1000Inv, NEW frame \in Frames, E1000Receive(frame)
  PROVE  E1000Inv' /\ UNCHANGED rtl
<1>1. CASE \E eop \in BOOLEAN, rest \in {None, frame} : Fill(Desc(frame, eop), rest)
  BY <1>1, FillTyped DEF Fill
<1>2. CASE UNCHANGED nicVars
  BY <1>2 DEF nicVars, E1000Inv
<1> QED BY <1>1, <1>2 DEF E1000Receive

(* A frame that the rtl8139 card takes, loses or keeps to itself. *)
LEMMA RtlReceives ==
  ASSUME RtlInv, NEW frame \in Frames, RtlReceive(frame)
  PROVE  RtlInv' /\ UNCHANGED e1000
<1>1. rtl.cbr \in Words /\ frame.words \in Nat
  BY DEF RtlInv, Frames
<1>2. (rtl.cbr + frame.words + 1) % RX_WORDS \in Words
  BY <1>1, Modulo
<1> DEFINE mem == [i \in 0..RX_WORDS-1 |->
                     IF i = rtl.cbr THEN frame
                     ELSE IF i \in Covered(rtl.cbr, frame.words + 1) THEN None ELSE rtl.mem[i]]
<1>3. mem \in [Words -> Frames \cup {None}]
  BY DEF RtlInv, Words
<1>4. rtl.isr \cup {"ROK"} \in SUBSET {"ROK", "RXOVW"} /\ rtl.isr \cup {"RXOVW"} \in SUBSET {"ROK", "RXOVW"}
  BY DEF RtlInv
<1>5. CASE rtl' = [rtl EXCEPT !.mem = mem, !.cbr = (@ + frame.words + 1) % RX_WORDS, !.isr = @ \cup {"ROK"}]
  BY <1>2, <1>3, <1>4, <1>5 DEF RtlReceive, RtlInv
<1>6. CASE rtl' = [rtl EXCEPT !.isr = @ \cup {"RXOVW"}] \/ UNCHANGED rtl
  BY <1>4, <1>6 DEF RtlReceive, RtlInv
<1> QED BY <1>5, <1>6 DEF RtlReceive

(* What the drivers do to the rings, and what they hand up.                  *)
LEMMA E1000Moves ==
  ASSUME E1000Inv, E1000Begin \/ E1000End \/ E1000Step
  PROVE  E1000Inv' /\ UNCHANGED rtl
<1>1. Consumed \in [ring : [Indices -> Descs], rx_next : Indices, rdh : Indices, rdt : Indices,
                    rest : Frames \cup {None}]
  <2>1. NoDesc \in Descs
    BY DEF Descs
  <2>2. e1000.rx_next \in Indices
    BY DEF E1000Inv
  <2>3. (e1000.rx_next + 1) % RX_SLOTS \in Indices
    BY <2>2, Modulo
  <2> QED BY <2>1, <2>2, <2>3 DEF Consumed, E1000Inv
<1> QED BY <1>1 DEF E1000Begin, E1000End, E1000Step, E1000Inv

(* The driver's steps on the ring of words (process_rx, rtl8139_irq). *)
LEMMA RtlMoves ==
  ASSUME RtlInv, RtlBegin \/ RtlEnd \/ RtlStep
  PROVE  RtlInv' /\ UNCHANGED e1000
<1>1. CASE RtlBegin
  <2>1. rtl.cbr \in Words
    BY DEF RtlInv
  <2>2. (rtl.cbr - 4) % RX_WORDS \in Words
    BY <2>1, Modulo
  <2> QED BY <1>1, <2>1, <2>2 DEF RtlBegin, rx_overflow_recover, RtlInv
<1>2. CASE RtlEnd
  BY <1>2, NicAssumption DEF RtlEnd, RtlInv, Words
<1>3. CASE RtlStep
  <2>1. AtCur \in Frames
    BY <1>3 DEF RtlStep, NothingNew, AtCur, RtlInv
  <2>2. rtl.rx_cur \in Words /\ AtCur.words \in Nat
    BY <2>1 DEF RtlInv, Frames
  <2>3. (rtl.rx_cur + 1 + AtCur.words) % RX_WORDS \in Words
    BY <2>2, Modulo
  <2> QED BY <1>3, <2>3 DEF RtlStep, Passed, RtlInv
<1> QED BY <1>1, <1>2, <1>3

(* What rx_process and process_rx hand to net_handle_eth is a fragment, or
   the middle of a long frame. *)
LEMMA GivenTyped ==
  ASSUME CardInv, E1000Step \/ RtlStep
  PROVE  Given \in Fragment \cup {None}
<1>1. CASE E1000Step
  <2>1. Pending.dd /\ Pending \in Descs
    BY <1>1 DEF E1000Step, Pending, CardInv, E1000Inv
  <2>2. Pending # NoDesc
    BY <2>1 DEF NoDesc
  <2>3. Pending \in [dd : {TRUE}, eop : BOOLEAN, frame : Frames]
    BY <2>1, <2>2 DEF Descs
  <2>4. Pending.frame \in Frames
    BY <2>3
  <2> QED BY <1>1, <2>4 DEF E1000Step, Given, Frames
<1>2. CASE RtlStep
  <2>1. AtCur \in Frames
    BY <1>2 DEF RtlStep, NothingNew, AtCur, CardInv, RtlInv
  <2> QED BY <1>2, <2>1 DEF RtlStep, Given, Frames
<1> QED BY <1>1, <1>2

(* Every step keeps the rings typed. *)
LEMMA CardInvStep == CardInv /\ [Next]_vars => CardInv'
<1> SUFFICES ASSUME CardInv, [Next]_vars PROVE CardInv'
  OBVIOUS
<1>1. CASE Air
  <2>1. PICK f \in air, how \in {"whole", "doubled", "damaged", "lost"} :
          /\ air' = IF how = "doubled" THEN air ELSE air \ {f}
          /\ \/ UNCHANGED nicVars
             \/ E1000Receive(Frame(f, how = "damaged"))
             \/ RtlReceive(Frame(f, how = "damaged"))
    BY <1>1 DEF Air
  <2>2. air' \subseteq Fragment
    BY <2>1 DEF CardInv
  <2>3. Frame(f, how = "damaged") \in Frames
    BY FrameTyped DEF CardInv
  <2>4. CASE UNCHANGED nicVars
    BY <2>2, <2>4 DEF CardInv, E1000Inv, RtlInv, nicVars
  <2>5. CASE E1000Receive(Frame(f, how = "damaged"))
    BY <2>2, <2>3, <2>5, E1000Receives DEF CardInv, RtlInv
  <2>6. CASE RtlReceive(Frame(f, how = "damaged"))
    BY <2>2, <2>3, <2>6, RtlReceives DEF CardInv, E1000Inv
  <2> QED BY <2>1, <2>4, <2>5, <2>6
<1>2. CASE Card
  <2>1. e1000.rest \in Frames /\ Middle(e1000.rest) \in Frames
    BY <1>2 DEF Card, E1000Rest, CardInv, E1000Inv, Middle, Frames
  <2>2. Fill(Desc(Middle(e1000.rest), TRUE), None) /\ UNCHANGED air
    BY <1>2 DEF Card, E1000Rest
  <2>3. E1000Inv'
    BY <2>1, <2>2, FillTyped DEF CardInv
  <2> QED BY <2>2, <2>3 DEF CardInv, RtlInv, Fill
<1>3. CASE Interrupt \/ Return \/ Handle
  <2>1. UNCHANGED air
    BY <1>3 DEF Interrupt, Return, Handle
  <2>2. CASE E1000Begin \/ E1000End \/ E1000Step
    BY <2>1, <2>2, E1000Moves DEF CardInv, RtlInv
  <2>3. CASE RtlBegin \/ RtlEnd \/ RtlStep
    BY <2>1, <2>3, RtlMoves DEF CardInv, E1000Inv
  <2> QED BY <1>3, <2>2, <2>3 DEF Interrupt, Return, Handle
<1>4. CASE frag_expiry_poll \/ Process \/ UNCHANGED vars
  BY <1>4 DEF frag_expiry_poll, Process, vars, nicVars, CardInv, E1000Inv, RtlInv
<1> QED BY <1>1, <1>2, <1>3, <1>4 DEF Next

-----------------------------------------------------------------------------
(* handle_udp loses nothing that was delivered, and delivers a datagram all  *)
(* of whose parts are there.                                                 *)
LEMMA handle_udp_Delivers ==
  ASSUME FragInv, NEW parts \in [Places -> Fragment \cup {None}], NEW tot \in Nat,
         handle_udp(parts, tot)
  PROVE  /\ up' \in Seq(Dgrams)
         /\ \A d : Delivered(d) => Delivered(d)'
         /\ \A d \in Datagrams :
              /\ tot = Count[d] /\ udp_sock_bound(Port) # {}
              /\ \A k \in 0..Count[d]-1 : parts[k] = [d |-> d, k |-> k]
              => Delivered(d)'
<1> DEFINE skipped == \/ parts[0] = Blank \/ udp_sock_bound(Port) = {}
                      \/ parts[0].d \in Summed /\ ~Intact(parts, tot)
           dgram == [d |-> parts[0].d, intact |-> Intact(parts, tot)]
<1>1. (skipped => up' = up) /\ (~skipped => up' = Append(up, dgram))
  BY DEF handle_udp
<1>2. ASSUME ~skipped PROVE dgram \in Dgrams
  <2>1. parts[0] \in Fragment /\ parts[0].d \in Datagrams
    BY <1>2, RxAssumption DEF Places, Blank, Fragment
  <2>2. Intact(parts, tot) \in BOOLEAN
    BY DEF Intact
  <2> QED BY <2>1, <2>2 DEF Dgrams
<1> HIDE DEF skipped, dgram
<1>3. up' \in Seq(Dgrams)
  BY <1>1, <1>2 DEF FragInv
<1>4. ASSUME NEW d, Delivered(d) PROVE Delivered(d)'
  <2>1. PICK i \in DOMAIN up : up[i] = [d |-> d, intact |-> TRUE]
    BY <1>4 DEF Delivered
  <2>2. i \in DOMAIN up' /\ up'[i] = up[i]
    BY <1>1, <1>2 DEF FragInv
  <2> QED BY <2>1, <2>2 DEF Delivered
<1>5. ASSUME NEW d \in Datagrams, tot = Count[d], udp_sock_bound(Port) # {},
             \A k \in 0..Count[d]-1 : parts[k] = [d |-> d, k |-> k]
      PROVE  Delivered(d)'
  <2>1. 0 \in 0..Count[d]-1 /\ Count[d] \in Nat /\ 0 \in Places
    BY RxAssumption DEF Places
  <2>2. parts[0] = [d |-> d, k |-> 0]
    BY <1>5, <2>1, Zenon
  <2>3. parts[0] \in Fragment
    BY <2>1, <2>2 DEF Fragment
  <2>4. Intact(parts, tot) = TRUE
    BY <1>5, <2>1, <2>2 DEF Intact
  <2>5. ~skipped
    BY <1>5, <2>3, <2>4, RxAssumption DEF Blank, skipped
  <2>6. dgram = [d |-> d, intact |-> TRUE]
    BY <2>2, <2>4 DEF dgram
  <2>7. up' = Append(up, dgram)
    BY <1>1, <2>5
  <2>8. Len(up) + 1 \in DOMAIN up' /\ up'[Len(up) + 1] = dgram
    BY <2>7 DEF FragInv
  <2> QED BY <2>6, <2>8 DEF Delivered
<1> QED BY <1>3, <1>4, <1>5

(* What storing fragment f in slot s does; the slot is of f's datagram, or   *)
(* unused, and then no other is of it.                                       *)
LEMMA StoredTyped ==
  ASSUME FragInv, NoneComplete, NEW f \in Fragment, NEW s \in SlotOf(f),
         NEW F, F = Stored(frags[s], f)
  PROVE  /\ F \in Reassemblies
         /\ F.used => F.d = f.d
         /\ F.used <=> s \in Matching(f) \/ f.k = 0
         /\ F.parts = [frags[s].parts EXCEPT ![f.k] = f]
         /\ F.tot = IF Last(f) THEN f.k + 1 ELSE 0
         /\ F.got >= f.k + 1
<1> DEFINE B == frags[s]
           G == IF f.k = 0 THEN [B EXCEPT !.used = TRUE, !.d = f.d, !.got = 0, !.tot = 0] ELSE B
<1>1. s \in Slots /\ (s \in Matching(f) \/ (s \in Unused /\ Matching(f) = {}))
  BY SlotOfGood
<1>2. B \in Reassemblies /\ B.tot = 0
  BY <1>1 DEF FragInv, NoneComplete
<1>3. f.d \in Datagrams /\ f.k \in Places /\ f.k \in Nat
  BY DEF Fragment, Places
<1>4. G \in Reassemblies /\ G.tot = 0 /\ G.parts = B.parts
  BY <1>2, <1>3 DEF Reassemblies
<1>5. /\ G.used => G.d = f.d
      /\ G.used <=> s \in Matching(f) \/ f.k = 0
  BY <1>1, <1>2 DEF Reassemblies, Matching, Unused
<1>6. Max({G.got, f.k + 1}) \in Nat /\ Max({G.got, f.k + 1}) >= f.k + 1
  <2>1. G.got \in Nat /\ f.k + 1 \in Nat
    BY <1>3, <1>4 DEF Reassemblies
  <2> QED BY <2>1, MaxOfTwo
<1>7. F = [G EXCEPT !.parts[f.k] = f, !.got = Max({@, f.k + 1}), !.tot = IF Last(f) THEN f.k + 1 ELSE @]
  BY DEF Stored
<1>8. [G.parts EXCEPT ![f.k] = f] \in [Places -> Fragment \cup {None}]
  BY <1>4 DEF Reassemblies
<1> HIDE DEF G
<1>9. /\ F.used = G.used /\ F.d = G.d /\ F.parts = [G.parts EXCEPT ![f.k] = f]
      /\ F.got = Max({G.got, f.k + 1}) /\ F.tot = IF Last(f) THEN f.k + 1 ELSE G.tot
  BY <1>4, <1>7 DEF Reassemblies
<1>10. F \in Reassemblies
  <2>1. (IF Last(f) THEN f.k + 1 ELSE G.tot) \in Nat
    BY <1>3, <1>4
  <2>2. F = [used |-> G.used, d |-> G.d, got |-> Max({G.got, f.k + 1}),
             tot |-> IF Last(f) THEN f.k + 1 ELSE G.tot, parts |-> [G.parts EXCEPT ![f.k] = f]]
    BY <1>4, <1>7 DEF Reassemblies
  <2>3. G.used \in BOOLEAN /\ G.d \in Datagrams \cup {None}
    BY <1>4 DEF Reassemblies
  <2> QED BY <1>6, <1>8, <2>1, <2>2, <2>3 DEF Reassemblies
<1> QED BY <1>4, <1>5, <1>6, <1>9, <1>10

(* How far a datagram has come once fragment f was handled; a datagram that  *)
(* is whole starts anew.                                                     *)
LEMMA InOrderBounds ==
  ASSUME FragInv, NotYetWhole, NEW f \in Fragment, InOrder(f)
  PROVE  /\ inorder' \in [Datagrams -> Nat] /\ NotYetWhole'
         /\ \A d \in Datagrams : d # f.d => inorder'[d] = inorder[d]
         /\ inorder'[f.d] > 0 =>
              /\ ~Last(f)
              /\ \/ f.k = 0 /\ inorder'[f.d] = 1 /\ inorder[f.d] = 0 /\ Matching(f) \cup Unused # {}
                 \/ f.k < inorder[f.d] /\ inorder'[f.d] = inorder[f.d]
                 \/ f.k = inorder[f.d] /\ inorder'[f.d] = f.k + 1 /\ f.k > 0
         /\ whole' \subseteq whole \cup {f.d}
         /\ f.d \in whole' \ whole =>
              /\ Last(f) /\ f.k = inorder[f.d] /\ udp_sock_bound(Port) # {}
<1> DEFINE n == CASE f.k = 0 -> IF inorder[f.d] = 0 /\ Matching(f) \cup Unused = {} THEN 0 ELSE Max({inorder[f.d], 1})
                  [] f.k > 0 /\ f.k < inorder[f.d] -> inorder[f.d]
                  [] f.k > 0 /\ f.k = inorder[f.d] -> f.k + 1
                  [] OTHER -> 0
           c == Count[f.d]
<1>1. /\ f.d \in Datagrams /\ f.k \in Nat /\ f.k < c /\ c \in Nat
      /\ inorder[f.d] \in Nat /\ inorder[f.d] < c
  BY RxAssumption DEF Fragment, Places, FragInv, NotYetWhole
<1>2. Max({inorder[f.d], 1}) = IF inorder[f.d] >= 1 THEN inorder[f.d] ELSE 1
  BY <1>1, MaxOfTwo
<1>3. inorder' = [inorder EXCEPT ![f.d] = IF n = c THEN 0 ELSE n]
  BY DEF InOrder
<1>4. whole' = IF n = c /\ udp_sock_bound(Port) # {} THEN whole \cup {f.d} ELSE whole
  BY DEF InOrder
<1>5. \/ n = 0
      \/ f.k = 0 /\ n = 1 /\ inorder[f.d] = 0 /\ Matching(f) \cup Unused # {}
      \/ f.k < inorder[f.d] /\ n = inorder[f.d]
      \/ f.k = inorder[f.d] /\ n = f.k + 1 /\ f.k > 0
  BY <1>1, <1>2
<1> HIDE DEF n
<1>6. n \in Nat /\ n <= c
  BY <1>1, <1>5
<1>7. c > 0 /\ (n = c => f.k = inorder[f.d] /\ Last(f))
  BY <1>1, <1>5 DEF Last
<1>8. inorder' \in [Datagrams -> Nat] /\ NotYetWhole'
  BY <1>1, <1>3, <1>6, <1>7, RxAssumption DEF FragInv, NotYetWhole
<1>9. inorder'[f.d] > 0 => n = inorder'[f.d] /\ n # c /\ n > 0
  BY <1>1, <1>3 DEF FragInv
<1>10. n # c /\ n > 0 => ~Last(f)
  BY <1>1, <1>5 DEF Last
<1>11. \A d \in Datagrams : d # f.d => inorder'[d] = inorder[d]
  BY <1>1, <1>3 DEF FragInv
<1> QED BY <1>4, <1>5, <1>7, <1>8, <1>9, <1>10, <1>11

(* The slot of a datagram that is coming in order is the one that its next   *)
(* fragment goes to.                                                         *)
LEMMA SlotHolds ==
  ASSUME FragInv, OneSlotEach, NEW f \in Fragment, NEW s \in SlotOf(f), NEW t \in Slots, NEW n \in Nat,
         Keeps(frags[t], f.d, n)
  PROVE  s = t /\ s \in Matching(f)
<1>1. t \in Matching(f)
  BY DEF Keeps, Matching
<1> QED BY <1>1, SlotOfGood DEF OneSlotEach, Matching, Unused

(* handle_ipv4 keeps the invariant of the reassembly, whatever fragment comes. *)
LEMMA HandleFragment ==
  ASSUME StackInv, NEW f \in Fragment, handle_ipv4(f), InOrder(f)
  PROVE  StackInv'
<1> USE DEF StackInv
<1> DEFINE d == f.d
           m == inorder'[d]
<1>1. /\ d \in Datagrams /\ f.k \in Nat /\ f.k < Count[d] /\ f.k \in Places /\ Count[d] \in Nat
      /\ f = [d |-> d, k |-> f.k]
  BY RxAssumption DEF Fragment, Places
<1>2. /\ inorder' \in [Datagrams -> Nat] /\ NotYetWhole'
      /\ \A e \in Datagrams : e # d => inorder'[e] = inorder[e]
      /\ whole' \subseteq whole \cup {d}
  BY InOrderBounds
<1>3. m > 0 => ~Last(f)
  BY InOrderBounds
<1>4. CASE Count[d] = 1 /\ handle_udp([k \in Places |-> f], 1) /\ UNCHANGED <<frags, armed>>
  <2>1. f.k = 0 /\ Last(f)
    BY <1>1, <1>4 DEF Last
  <2>2. [k \in Places |-> f] \in [Places -> Fragment \cup {None}]
    OBVIOUS
  <2>3. /\ up' \in Seq(Dgrams) /\ \A e : Delivered(e) => Delivered(e)'
        /\ udp_sock_bound(Port) # {} => Delivered(d)'
    <3>1. \A k \in 0..Count[d]-1 : [j \in Places |-> f][k] = [d |-> d, k |-> k]
      BY <1>1, <1>4, <2>1
    <3> QED BY <1>1, <1>4, <2>2, <3>1, handle_udp_Delivers
  <2>4. FragInv' /\ NoneComplete' /\ OneSlotEach'
    BY <1>2, <1>4, <2>3 DEF FragInv, NoneComplete, OneSlotEach
  <2>5. \A e \in whole' : Delivered(e)'
    BY <1>2, <2>3, InOrderBounds
  <2>6. \A e \in Datagrams : Held(e)'
    BY <1>2, <1>3, <1>4, <2>1 DEF Held, Keeps
  <2> QED BY <1>2, <2>4, <2>5, <2>6
<1>5. CASE Count[d] > 1 /\ SlotOf(f) = {} /\ UNCHANGED <<frags, armed, socks, up>>
  <2>1. Matching(f) = {} /\ Unused = {}
    <3>1. Matching(f) \in SUBSET Slots /\ Unused \in SUBSET Slots
      BY DEF Matching, Unused
    <3> QED BY <1>5, <3>1 DEF SlotOf
  <2>2. inorder[d] = 0
    BY <1>1, <2>1 DEF Held, Keeps, Matching, FragInv
  <2>3. m = 0
    BY <1>1, <1>2, <2>1, <2>2, InOrderBounds
  <2>4. whole' \subseteq whole
    BY <1>1, <1>2, <1>5, <2>2, InOrderBounds DEF Last
  <2>5. FragInv' /\ NoneComplete' /\ OneSlotEach'
    BY <1>2, <1>5 DEF FragInv, NoneComplete, OneSlotEach
  <2>6. \A e \in whole' : Delivered(e)'
    BY <1>5, <2>4 DEF Delivered
  <2>7. \A e \in Datagrams : Held(e)'
    BY <1>2, <1>5, <2>3 DEF Held, Keeps
  <2> QED BY <1>2, <2>5, <2>6, <2>7
<1>6. CASE /\ Count[d] > 1
           /\ \E s \in SlotOf(f) :
                LET F == Stored(frags[s], f)
                IN \/ ~Complete(F) /\ frags' = [frags EXCEPT ![s] = F] /\ UNCHANGED <<socks, up>>
                   \/ Complete(F) /\ frags' = [frags EXCEPT ![s] = ipf_clear(F)] /\ handle_udp(F.parts, F.tot)
  <2>1. PICK s \in SlotOf(f) :
          LET F == Stored(frags[s], f)
          IN \/ ~Complete(F) /\ frags' = [frags EXCEPT ![s] = F] /\ UNCHANGED <<socks, up>>
             \/ Complete(F) /\ frags' = [frags EXCEPT ![s] = ipf_clear(F)] /\ handle_udp(F.parts, F.tot)
    BY <1>6
  <2>2. PICK F : F = Stored(frags[s], f)
    OBVIOUS
  <2>3. s \in Slots /\ (s \in Matching(f) \/ (s \in Unused /\ Matching(f) = {}))
    BY SlotOfGood
  <2>4. /\ F \in Reassemblies
        /\ F.used => F.d = d
        /\ F.used <=> s \in Matching(f) \/ f.k = 0
        /\ F.parts = [frags[s].parts EXCEPT ![f.k] = f]
        /\ F.tot = IF Last(f) THEN f.k + 1 ELSE 0
        /\ F.got >= f.k + 1
    BY <2>2, StoredTyped
  <2>5. Complete(F) <=> Last(f)
    BY <1>1, <2>4 DEF Complete, Reassemblies
  <2>6. frags[s] \in Reassemblies /\ F.parts[f.k] = f /\ \A k \in Places : k # f.k => F.parts[k] = frags[s].parts[k]
    BY <1>1, <2>3, <2>4 DEF FragInv, Reassemblies
  (* The slots of the other datagrams are left alone. *)
  <2>7. \A e, n : \A t \in Slots : e # d /\ Keeps(frags[t], e, n) => t # s
    BY <2>3 DEF Keeps, Matching, Unused
  (* What came in order is still in slot s, with f. *)
  <2>8. ASSUME NEW n \in Nat, Keeps(frags[s], d, n), n <= Count[d]
        PROVE  F.used /\ F.d = d /\ \A k \in 0..n-1 : F.parts[k] = [d |-> d, k |-> k]
    <3>1. s \in Matching(f)
      BY <2>3, <2>8 DEF Keeps, Matching
    <3>2. ASSUME NEW k \in 0..n-1 PROVE F.parts[k] = [d |-> d, k |-> k]
      <4>1. k \in Places
        BY <1>1, <2>8, RxAssumption DEF Places
      <4>2. frags[s].parts[k] = [d |-> d, k |-> k]
        BY <2>8 DEF Keeps
      <4> QED BY <1>1, <2>6, <4>1, <4>2
    <3> QED BY <2>4, <3>1, <3>2
  <2>9. CASE ~Complete(F) /\ frags' = [frags EXCEPT ![s] = F] /\ UNCHANGED <<socks, up>>
    <3>1. frags'[s] = F /\ \A t \in Slots : t # s => frags'[t] = frags[t]
      BY <2>3, <2>9 DEF FragInv
    <3>2. F.tot = 0
      BY <2>4, <2>5, <2>9
    <3>3. FragInv' /\ NoneComplete'
      BY <1>2, <2>4, <2>9, <3>1, <3>2 DEF FragInv, NoneComplete
    <3>4. OneSlotEach'
      BY <2>3, <2>4, <3>1 DEF OneSlotEach, Matching
    <3>5. \A e \in whole' : Delivered(e)'
      BY <1>2, <2>5, <2>9, InOrderBounds DEF Delivered
    <3>6. ASSUME m > 0 PROVE Keeps(F, d, m)
      <4>1. CASE f.k = 0 /\ m = 1
        BY <1>1, <2>4, <2>6, <4>1 DEF Keeps
      <4>2. CASE f.k < inorder[d] /\ m = inorder[d]
        <5>1. PICK t \in Slots : Keeps(frags[t], d, m)
          BY <1>1, <3>6, <4>2 DEF Held
        <5>2. m \in Nat /\ m <= Count[d]
          BY <1>1, <1>2 DEF NotYetWhole
        <5> QED BY <2>8, <5>1, <5>2, SlotHolds DEF Keeps
      <4>3. CASE f.k = inorder[d] /\ m = f.k + 1 /\ f.k > 0
        <5>1. PICK t \in Slots : Keeps(frags[t], d, f.k)
          BY <1>1, <4>3 DEF Held
        <5>2. F.used /\ F.d = d /\ \A k \in 0..f.k-1 : F.parts[k] = [d |-> d, k |-> k]
          BY <1>1, <2>8, <5>1, SlotHolds
        <5>3. \A k \in 0..m-1 : k \in 0..f.k-1 \/ k = f.k
          BY <1>1, <4>3
        <5> QED BY <1>1, <2>6, <5>2, <5>3 DEF Keeps
      <4> QED BY <3>6, <4>1, <4>2, <4>3, InOrderBounds
    <3>7. \A e \in Datagrams : Held(e)'
      <4>1. Held(d)'
        BY <2>3, <3>1, <3>6 DEF Held, Keeps
      <4>2. ASSUME NEW e \in Datagrams, e # d PROVE Held(e)'
        BY <1>2, <2>7, <3>1, <4>2 DEF Held, Keeps
      <4> QED BY <4>1, <4>2
    <3> QED BY <1>2, <3>3, <3>4, <3>5, <3>7
  <2>10. CASE Complete(F) /\ frags' = [frags EXCEPT ![s] = ipf_clear(F)] /\ handle_udp(F.parts, F.tot)
    <3>1. ipf_clear(F) \in Reassemblies /\ ipf_clear(F).used = FALSE /\ ipf_clear(F).tot = 0
      BY <2>4 DEF ipf_clear, Reassemblies
    <3>2. frags'[s] = ipf_clear(F) /\ \A t \in Slots : t # s => frags'[t] = frags[t]
      BY <2>3, <2>10 DEF FragInv
    <3>3. F.parts \in [Places -> Fragment \cup {None}] /\ F.tot \in Nat /\ F.tot = Count[d]
      <4>1. F.tot = f.k + 1 /\ f.k = Count[d] - 1
        BY <2>4, <2>5, <2>10 DEF Last
      <4>2. F.parts \in [Places -> Fragment \cup {None}]
        BY <2>4 DEF Reassemblies
      <4> QED BY <1>1, <4>1, <4>2
    <3>4. /\ up' \in Seq(Dgrams)
          /\ \A e : Delivered(e) => Delivered(e)'
          /\ \A e \in Datagrams :
               /\ F.tot = Count[e] /\ udp_sock_bound(Port) # {}
               /\ \A k \in 0..Count[e]-1 : F.parts[k] = [d |-> e, k |-> k]
               => Delivered(e)'
      BY <2>10, <3>3, handle_udp_Delivers
    <3>5. FragInv' /\ NoneComplete'
      BY <1>2, <2>10, <3>1, <3>2, <3>4 DEF FragInv, NoneComplete
    <3>6. OneSlotEach'
      BY <3>1, <3>2 DEF OneSlotEach
    <3>7. ASSUME d \in whole' \ whole PROVE Delivered(d)'
      <4>1. Last(f) /\ f.k = inorder[d] /\ f.k > 0 /\ udp_sock_bound(Port) # {}
        BY <1>1, <1>6, <3>7, InOrderBounds DEF Last
      <4>2. PICK t \in Slots : Keeps(frags[t], d, f.k)
        BY <1>1, <4>1 DEF Held
      <4>3. \A k \in 0..f.k-1 : F.parts[k] = [d |-> d, k |-> k]
        BY <1>1, <2>8, <4>2, SlotHolds
      <4>4. \A k \in 0..Count[d]-1 : k \in 0..f.k-1 \/ k = f.k
        BY <1>1, <4>1 DEF Last
      <4>5. \A k \in 0..Count[d]-1 : F.parts[k] = [d |-> d, k |-> k]
        BY <1>1, <2>6, <4>3, <4>4
      <4> QED BY <1>1, <3>3, <3>4, <4>1, <4>5
    <3>8. \A e \in whole' : Delivered(e)'
      BY <1>2, <3>4, <3>7
    <3>9. \A e \in Datagrams : Held(e)'
      <4>1. Held(d)'
        BY <1>3, <2>5, <2>10 DEF Held
      <4>2. ASSUME NEW e \in Datagrams, e # d PROVE Held(e)'
        BY <1>2, <2>7, <3>2, <4>2 DEF Held, Keeps
      <4> QED BY <4>1, <4>2
    <3> QED BY <1>2, <3>5, <3>6, <3>8, <3>9
  <2> QED BY <2>1, <2>2, <2>9, <2>10
<1> QED BY <1>4, <1>5, <1>6 DEF handle_ipv4

-----------------------------------------------------------------------------
(* So does every step. *)
LEMMA StackInvStep == RxInv /\ [Next]_vars => StackInv'
<1> SUFFICES ASSUME RxInv, [Next]_vars PROVE StackInv'
  OBVIOUS
<1>1. CASE Handle
  <2>1. Given \in Fragment \cup {None}
    BY <1>1, GivenTyped DEF Handle, RxInv
  <2>2. CASE UNCHANGED stackVars
    BY <2>2, SMTT(30) DEF RxInv, StackInv, stackVars, FragInv, NoneComplete, OneSlotEach, NotYetWhole, Delivered, Held, Keeps
  <2>3. CASE \E f \in {Given} \ {None} : handle_ipv4(f) /\ InOrder(f)
    <3>1. PICK f \in {Given} \ {None} : handle_ipv4(f) /\ InOrder(f)
      BY <2>3
    <3>2. f \in Fragment
      BY <2>1
    <3> QED BY <3>1, <3>2, HandleFragment DEF RxInv
  <2> QED BY <1>1, <2>2, <2>3 DEF Handle
<1>2. CASE frag_expiry_poll
  <2>1. frags' = [s \in Slots |-> ipf_clear(frags[s])] /\ inorder' = [d \in Datagrams |-> 0] /\ UNCHANGED <<whole, up>>
    BY <1>2 DEF frag_expiry_poll
  <2>2. \A s \in Slots : ipf_clear(frags[s]) \in Reassemblies /\ frags'[s].used = FALSE /\ frags'[s].tot = 0
    BY <2>1 DEF RxInv, StackInv, FragInv, ipf_clear, Reassemblies
  <2>3. FragInv' /\ NoneComplete' /\ OneSlotEach'
    BY <2>1, <2>2 DEF RxInv, StackInv, FragInv, NoneComplete, OneSlotEach
  <2>4. NotYetWhole' /\ \A d \in Datagrams : Held(d)'
    BY <2>1, RxAssumption DEF NotYetWhole, Held
  <2>5. \A d \in whole' : Delivered(d)'
    BY <2>1 DEF RxInv, StackInv, Delivered
  <2> QED BY <2>3, <2>4, <2>5 DEF StackInv
<1>3. CASE Process
  <2>1. UNCHANGED <<frags, inorder>> /\ (UNCHANGED <<whole, up>> \/ (whole' = {} /\ up' = << >>))
    BY <1>3 DEF Process, SysUdpSocket, SysUdpBind, SysUdpRecvFrom, SysUdpClose
  <2>2. NoneComplete' /\ OneSlotEach' /\ NotYetWhole' /\ \A d \in Datagrams : Held(d)'
    BY <2>1 DEF RxInv, StackInv, NoneComplete, OneSlotEach, NotYetWhole, Held, Keeps
  <2>3. CASE UNCHANGED <<whole, up>>
    BY <2>1, <2>2, <2>3 DEF RxInv, StackInv, FragInv, Delivered
  <2>4. CASE whole' = {} /\ up' = << >>
    <3>1. up' \in Seq(Dgrams)
      BY <2>4
    <3> QED BY <2>1, <2>2, <2>4, <3>1 DEF RxInv, StackInv, FragInv
  <2> QED BY <2>1, <2>3, <2>4
<1>4. CASE UNCHANGED stackVars
  BY <1>4 DEF RxInv, StackInv, stackVars, FragInv, NoneComplete, OneSlotEach, NotYetWhole, Delivered, Held, Keeps
<1> QED BY <1>1, <1>2, <1>3, <1>4 DEF Next, Air, Card, Interrupt, Return, vars, stackVars

(* A datagram whose fragments reach the kernel in order is handed on whole,  *)
(* and until then its slot keeps what has come of it (handle_ipv4,           *)
(* frag_expiry_poll, handle_udp), whatever the cards and the air do.         *)
THEOREM Reassembly == Spec => []InOrderIsDelivered
<1>1. Init => RxInv
  BY Init_RxInv
<1>2. RxInv /\ [Next]_vars => RxInv'
  BY CardInvStep, StackInvStep DEF RxInv
<1>3. RxInv => InOrderIsDelivered
  BY DEF RxInv, StackInv, Delivered, Held, Keeps, InOrderIsDelivered
<1> QED BY <1>1, <1>2, <1>3, PTL DEF Spec

-----------------------------------------------------------------------------
(* The rings of the cards.                                                   *)
(* The index i places behind x in a ring of n.                               *)
Behind(n, x, i) == IF x + i < n THEN x + i ELSE x + i - n

IrqInv ==
  /\ driver \in {"e1000", "rtl8139"}
  /\ irq = [pc |-> irq.pc, skipping |-> irq.skipping]
  /\ irq.pc \in {"out", "e1000", "rtl8139", "wild"}
  /\ irq.pc \in {"e1000", "rtl8139"} => driver = irq.pc

(* The e1000 ring: behind rx_next the frames that were accepted, then free   *)
(* descriptors up to rdt, of which one is never used.                        *)
Filled == [dd : {TRUE}, eop : BOOLEAN, frame : Frames]
E1000Agrees ==
  /\ accepted \in Seq(Filled)
  /\ Len(accepted) < RX_SLOTS
  /\ e1000.rest # None => Len(accepted) < RX_SLOTS - 1
  /\ e1000.rdh = Behind(RX_SLOTS, e1000.rx_next, Len(accepted))
  /\ e1000.rdt = Behind(RX_SLOTS, e1000.rx_next, RX_SLOTS - 1)
  /\ \A i \in Indices : e1000.ring[Behind(RX_SLOTS, e1000.rx_next, i)]
                          = IF i < Len(accepted) THEN accepted[i + 1] ELSE NoDesc

(* The rtl8139 ring: off[i] words behind rx_cur the i-th frame, and behind   *)
(* the last one cbr.  What capr leaves to the card never reaches rx_cur, and *)
(* it is the whole ring (zero) only when nothing is pending.                 *)
Offsets(off) ==
  /\ off[1] = 0
  /\ \A i \in 1..Len(accepted) : off[i + 1] = off[i] + accepted[i].words + 1
  /\ \A i, j \in 1..Len(accepted)+1 : i < j => off[i] < off[j]
Avail == (rtl.capr + 4 - rtl.cbr) % RX_WORDS
RtlAgrees ==
  /\ accepted \in Seq(Frames \ {None})
  /\ \E off \in [1..Len(accepted)+1 -> Words] :
       /\ Offsets(off)
       /\ \A i \in 1..Len(accepted) : rtl.mem[Behind(RX_WORDS, rtl.rx_cur, off[i])] = accepted[i]
       /\ rtl.cbr = Behind(RX_WORDS, rtl.rx_cur, off[Len(accepted)+1])
       /\ off[Len(accepted)+1] + Avail <= RX_WORDS
       /\ Avail = 0 => accepted = << >>

RingInv ==
  /\ IrqInv
  /\ driver = "e1000" => E1000Agrees
  /\ driver = "rtl8139" => RtlAgrees

-----------------------------------------------------------------------------
(* Arithmetic of rings.                                                      *)

(* An index that is moved on stays in the ring. *)
LEMMA BehindMod ==
  ASSUME NEW n \in Nat \ {0}, NEW x \in 0..n-1, NEW i \in 0..n-1
  PROVE  Behind(n, x, i) \in 0..n-1 /\ (x + i) % n = Behind(n, x, i)
BY DEF Behind

(* Moving on by i and then by j is moving on by i + j. *)
LEMMA BehindTwice ==
  ASSUME NEW n \in Nat \ {0}, NEW x \in 0..n-1, NEW i \in Nat, NEW j \in Nat,
         NEW k \in 0..n-1, k = i + j
  PROVE  Behind(n, Behind(n, x, i), j) = Behind(n, x, k)
BY DEF Behind

(* Two places of a ring are the same only if they are as far behind x. *)
LEMMA BehindApart ==
  ASSUME NEW n \in Nat \ {0}, NEW x \in 0..n-1, NEW i \in 0..n-1, NEW j \in 0..n-1,
         Behind(n, x, i) = Behind(n, x, j)
  PROVE  i = j
BY DEF Behind

(* How far it is from one place to another. *)
LEMMA BehindMinus ==
  ASSUME NEW n \in Nat \ {0}, NEW x \in 0..n-1, NEW i \in 0..n-1, NEW j \in 0..n-1, i <= j
  PROVE  (Behind(n, x, j) - Behind(n, x, i)) % n = j - i
BY DEF Behind

-----------------------------------------------------------------------------
(* The ring of descriptors.                                                  *)

(* The card writes a descriptor (E1000Receive, E1000Rest). *)
LEMMA FillAgrees ==
  ASSUME E1000Inv, E1000Agrees, NEW desc \in Filled, NEW rest, Fill(desc, rest),
         Len(accepted) < RX_SLOTS - 1, rest # None => Len(accepted) < RX_SLOTS - 2
  PROVE  E1000Agrees'
<1> USE NicAssumption
<1> DEFINE n == Len(accepted)
           x == e1000.rx_next
<1>1. /\ n \in Nat /\ x \in Indices /\ e1000.ring \in [Indices -> Descs]
      /\ e1000.rdh \in Indices /\ n \in Indices /\ n + 1 \in Indices
  BY DEF E1000Inv, E1000Agrees, Indices
<1>2. /\ accepted' = Append(accepted, desc) /\ e1000'.rx_next = x /\ e1000'.rdt = e1000.rdt
      /\ e1000'.rest = rest /\ e1000'.rdh = (e1000.rdh + 1) % RX_SLOTS
      /\ e1000'.ring = [e1000.ring EXCEPT ![e1000.rdh] = desc]
  BY DEF Fill, E1000Inv
<1>3. /\ accepted' \in Seq(Filled) /\ Len(accepted') = n + 1
      /\ accepted'[n + 1] = desc /\ \A i \in 1..n : accepted'[i] = accepted[i]
  BY <1>2 DEF E1000Agrees
<1>4. e1000'.rdh = Behind(RX_SLOTS, x, n + 1)
  <2>1. (e1000.rdh + 1) % RX_SLOTS = Behind(RX_SLOTS, e1000.rdh, 1)
    BY <1>1, BehindMod DEF Indices
  <2>2. Behind(RX_SLOTS, Behind(RX_SLOTS, x, n), 1) = Behind(RX_SLOTS, x, n + 1)
    BY <1>1, BehindTwice DEF Indices
  <2> QED BY <1>2, <2>1, <2>2 DEF E1000Agrees
<1>5. ASSUME NEW i \in Indices
      PROVE  e1000'.ring[Behind(RX_SLOTS, x, i)] = IF i < n + 1 THEN accepted'[i + 1] ELSE NoDesc
  <2>1. Behind(RX_SLOTS, x, i) \in Indices
    BY <1>1, BehindMod DEF Indices
  <2>2. i # n => Behind(RX_SLOTS, x, i) # e1000.rdh
    BY <1>1, BehindApart DEF Indices, E1000Agrees
  <2>3. i = n => Behind(RX_SLOTS, x, i) = e1000.rdh
    BY DEF E1000Agrees
  <2>4. e1000.ring[Behind(RX_SLOTS, x, i)] = IF i < n THEN accepted[i + 1] ELSE NoDesc
    BY DEF E1000Agrees
  <2>5. CASE i = n
    BY <1>1, <1>2, <1>3, <2>1, <2>3, <2>5
  <2>6. CASE i # n
    <3>1. e1000'.ring[Behind(RX_SLOTS, x, i)] = e1000.ring[Behind(RX_SLOTS, x, i)]
      BY <1>1, <1>2, <2>1, <2>2, <2>6
    <3>2. i < n => accepted'[i + 1] = accepted[i + 1]
      BY <1>1, <1>3 DEF Indices
    <3> QED BY <1>1, <2>4, <2>6, <3>1, <3>2 DEF Indices
  <2> QED BY <2>5, <2>6
<1>6. n + 1 < RX_SLOTS /\ (rest # None => n + 1 < RX_SLOTS - 1)
  BY <1>1
<1> QED BY <1>2, <1>3, <1>4, <1>5, <1>6 DEF E1000Agrees

(* What Free is. *)
LEMMA FreeSlots ==
  ASSUME E1000Inv, E1000Agrees
  PROVE  Free = RX_SLOTS - 1 - Len(accepted)
<1> DEFINE n == Len(accepted)
           x == e1000.rx_next
<1>1. x \in 0..RX_SLOTS-1 /\ n \in 0..RX_SLOTS-1 /\ RX_SLOTS - 1 \in 0..RX_SLOTS-1 /\ n <= RX_SLOTS - 1
  BY NicAssumption DEF E1000Inv, E1000Agrees, Indices
<1>2. (Behind(RX_SLOTS, x, RX_SLOTS - 1) - Behind(RX_SLOTS, x, n)) % RX_SLOTS = RX_SLOTS - 1 - n
  BY <1>1, NicAssumption, BehindMinus
<1> QED BY <1>2 DEF Free, E1000Agrees

(* The driver consumes a descriptor (rx_process). *)
LEMMA ConsumeAgrees ==
  ASSUME E1000Inv, E1000Agrees, Pending.dd, e1000' = Consumed, accepted' = Tail(accepted)
  PROVE  E1000Agrees'
<1> USE NicAssumption
<1> DEFINE n == Len(accepted)
           x == e1000.rx_next
           y == Behind(RX_SLOTS, x, 1)
<1>1. /\ n \in Nat /\ x \in Indices /\ e1000.ring \in [Indices -> Descs]
      /\ n \in Indices /\ 0 \in Indices /\ 1 \in Indices /\ RX_SLOTS - 1 \in Indices
  BY DEF E1000Inv, E1000Agrees, Indices
<1>2. /\ e1000'.rx_next = y /\ e1000'.rdt = x /\ e1000'.rest = e1000.rest
      /\ e1000'.rdh = e1000.rdh /\ e1000'.ring = [e1000.ring EXCEPT ![x] = NoDesc]
  <2>1. (x + 1) % RX_SLOTS = y
    BY <1>1, BehindMod DEF Indices
  <2> QED BY <2>1 DEF Consumed, E1000Inv
<1>3. n > 0
  <2>1. Behind(RX_SLOTS, x, 0) = x
    BY <1>1 DEF Behind, Indices
  <2>2. Pending = IF 0 < n THEN accepted[1] ELSE NoDesc
    BY <1>1, <2>1 DEF Pending, E1000Agrees
  <2> QED BY <2>2 DEF NoDesc
<1>4. /\ accepted' \in Seq(Filled) /\ Len(accepted') = n - 1
      /\ \A i \in 1..n-1 : accepted'[i] = accepted[i + 1]
  BY <1>3 DEF E1000Agrees
<1>5. y \in Indices /\ e1000'.rdh = Behind(RX_SLOTS, y, n - 1) /\ x = Behind(RX_SLOTS, y, RX_SLOTS - 1)
  <2>1. y \in Indices
    BY <1>1, BehindMod DEF Indices
  <2>2. Behind(RX_SLOTS, y, n - 1) = Behind(RX_SLOTS, x, n)
    BY <1>1, <1>3, BehindTwice DEF Indices
  <2>3. x = Behind(RX_SLOTS, y, RX_SLOTS - 1)
    BY <1>1 DEF Behind, Indices
  <2> QED BY <1>2, <2>1, <2>2, <2>3 DEF E1000Agrees
<1>6. ASSUME NEW i \in Indices
      PROVE  e1000'.ring[Behind(RX_SLOTS, y, i)] = IF i < n - 1 THEN accepted'[i + 1] ELSE NoDesc
  <2>1. CASE i = RX_SLOTS - 1
    <3>1. ~(i < n - 1)
      BY <1>1, <2>1 DEF Indices
    <3> QED BY <1>1, <1>2, <1>5, <2>1, <3>1
  <2>2. CASE i # RX_SLOTS - 1
    <3>1. i + 1 \in Indices /\ i \in Nat
      BY <2>2 DEF Indices
    <3>2. Behind(RX_SLOTS, y, i) = Behind(RX_SLOTS, x, i + 1)
      BY <1>1, <3>1, BehindTwice, SMTT(30) DEF Indices
    <3>3. Behind(RX_SLOTS, x, i + 1) \in Indices /\ Behind(RX_SLOTS, x, i + 1) # x
      <4>1. Behind(RX_SLOTS, x, i + 1) \in Indices
        BY <1>1, <3>1, BehindMod DEF Indices
      <4>2. Behind(RX_SLOTS, x, i + 1) # x
        BY <1>1, <3>1 DEF Behind, Indices
      <4> QED BY <4>1, <4>2
    <3>4. e1000.ring[Behind(RX_SLOTS, x, i + 1)] = IF i + 1 < n THEN accepted[i + 2] ELSE NoDesc
      BY <3>1 DEF E1000Agrees
    <3>5. e1000'.ring[Behind(RX_SLOTS, y, i)] = e1000.ring[Behind(RX_SLOTS, x, i + 1)]
      BY <1>1, <1>2, <3>2, <3>3
    <3>6. i < n - 1 => accepted'[i + 1] = accepted[i + 2]
      BY <1>1, <1>4, <3>1
    <3> QED BY <1>1, <3>1, <3>4, <3>5, <3>6
  <2> QED BY <2>1, <2>2
<1>7. n - 1 < RX_SLOTS /\ (e1000.rest # None => n - 1 < RX_SLOTS - 1)
  BY <1>1 DEF E1000Agrees
<1> HIDE DEF n, x, y
<1> QED BY <1>2, <1>4, <1>5, <1>6, <1>7 DEF E1000Agrees

-----------------------------------------------------------------------------
(* The ring of words.                                                        *)

(* What capr leaves to the card. *)
Gap(n, capr, cbr) ==
  IF capr + 4 >= n + cbr THEN capr + 4 - cbr - n
  ELSE IF capr + 4 >= cbr THEN capr + 4 - cbr ELSE capr + 4 - cbr + n
LEMMA AvailIsGap ==
  ASSUME NEW n \in Nat \ 0..4, NEW capr \in 0..n-1, NEW cbr \in 0..n-1
  PROVE  Gap(n, capr, cbr) \in 0..n-1 /\ (capr + 4 - cbr) % n = Gap(n, capr, cbr)
BY DEF Gap

(* ... and when it has written k words. *)
LEMMA GapMoves ==
  ASSUME NEW n \in Nat \ 0..4, NEW capr \in 0..n-1, NEW cbr \in 0..n-1, NEW k \in 0..n-1,
         NEW a, a = Gap(n, capr, cbr)
  PROVE  Gap(n, capr, Behind(n, cbr, k)) = IF a >= k THEN a - k ELSE a - k + n
BY DEF Gap, Behind

(* The part of RtlReceive that writes a frame. *)
RtlWrites(frame) ==
  /\ ~Kept(frame) /\ Room(frame)
  /\ rtl' = [rtl EXCEPT !.mem = [i \in 0..RX_WORDS-1 |->
                                   IF i = rtl.cbr THEN frame
                                   ELSE IF i \in Covered(rtl.cbr, frame.words + 1) THEN None ELSE rtl.mem[i]],
                        !.cbr = (@ + frame.words + 1) % RX_WORDS, !.isr = @ \cup {"ROK"}]
  /\ accepted' = Append(accepted, frame)

(* What has room stays within the ring. *)
LEMMA RoomFits ==
  ASSUME NEW n \in Nat \ 0..4, NEW p \in 0..n-1, NEW a \in 0..n-1, NEW k \in 1..n-1,
         a = 0 \/ k < a, a = 0 => p = 0, p + a <= n, NEW b, b = IF a >= k THEN a - k ELSE a - k + n
  PROVE  p + k \in 0..n-1 /\ b \in Nat \ {0} /\ p + k + b <= n
OBVIOUS

(* The card writes a frame for which there is room (RtlReceive). *)
LEMMA RtlTakes ==
  ASSUME RtlInv, RtlAgrees, NEW frame \in Frames \ {None}, frame.words + 1 < RX_WORDS, RtlWrites(frame)
  PROVE  RtlAgrees'
<1>1. RX_WORDS \in Nat \ 0..4 /\ RX_WORDS \in Nat \ {0}
  BY NicAssumption
<1>2. PICK off \in [1..Len(accepted)+1 -> Words] :
        /\ Offsets(off)
        /\ \A i \in 1..Len(accepted) : rtl.mem[Behind(RX_WORDS, rtl.rx_cur, off[i])] = accepted[i]
        /\ rtl.cbr = Behind(RX_WORDS, rtl.rx_cur, off[Len(accepted)+1])
        /\ off[Len(accepted)+1] + Avail <= RX_WORDS
        /\ Avail = 0 => accepted = << >>
  BY DEF RtlAgrees
<1>3. PICK n, x, c, p, k, a : /\ n = Len(accepted) /\ x = rtl.rx_cur /\ c = rtl.cbr
                              /\ p = off[Len(accepted)+1] /\ k = frame.words + 1 /\ a = Avail
  OBVIOUS
<1>4. /\ n \in Nat /\ x \in Words /\ c \in Words /\ p \in Words /\ rtl.capr \in Words
      /\ k \in Words /\ k \in 1..RX_WORDS-1 /\ c = Behind(RX_WORDS, x, p)
      /\ accepted \in Seq(Frames \ {None}) /\ frame.words \in Nat
  <2>1. accepted \in Seq(Frames \ {None}) /\ n \in Nat
    BY <1>3 DEF RtlAgrees
  <2>2. p \in Words /\ c = Behind(RX_WORDS, x, p)
    BY <1>2, <1>3, <2>1
  <2>3. x \in Words /\ c \in Words /\ rtl.capr \in Words
    BY <1>3 DEF RtlInv
  <2>4. frame.words \in Nat
    BY DEF Frames
  <2> QED BY <1>1, <1>3, <2>1, <2>2, <2>3, <2>4 DEF Words
<1>5. a = 0 \/ k < a
  BY <1>3 DEF RtlWrites, Room, Avail
<1>6. (a = 0 => p = 0) /\ p + a <= RX_WORDS
  BY <1>2, <1>3 DEF Offsets
<1>7. a \in Words /\ (rtl.capr + 4 - Behind(RX_WORDS, c, k)) % RX_WORDS = IF a >= k THEN a - k ELSE a - k + RX_WORDS
  <2>1. PICK y, d : y = rtl.capr /\ d = Behind(RX_WORDS, c, k)
    OBVIOUS
  <2>2. /\ y \in 0..RX_WORDS-1 /\ c \in 0..RX_WORDS-1 /\ k \in 0..RX_WORDS-1
        /\ d \in 0..RX_WORDS-1
    BY <1>1, <1>4, <2>1, BehindMod DEF Words
  <2>3. a = (y + 4 - c) % RX_WORDS
    BY <1>3, <2>1 DEF Avail
  <2>4. a = Gap(RX_WORDS, y, c) /\ a \in 0..RX_WORDS-1
    BY <1>1, <2>2, <2>3, AvailIsGap, ZenonT(60)
  <2>5. (y + 4 - d) % RX_WORDS = Gap(RX_WORDS, y, d)
    BY <1>1, <2>2, AvailIsGap
  <2>6. Gap(RX_WORDS, y, d) = IF a >= k THEN a - k ELSE a - k + RX_WORDS
    BY <1>1, <2>1, <2>2, <2>4, GapMoves
  <2> QED BY <2>1, <2>4, <2>5, <2>6 DEF Words
<1>8. PICK b : b = IF a >= k THEN a - k ELSE a - k + RX_WORDS
  OBVIOUS
<1>9. p + k \in Words /\ b \in Nat \ {0} /\ p + k + b <= RX_WORDS
  BY <1>1, <1>4, <1>5, <1>6, <1>7, <1>8, RoomFits DEF Words
<1>10. Behind(RX_WORDS, c, k) = Behind(RX_WORDS, x, p + k)
  BY <1>1, <1>4, <1>9, BehindTwice DEF Words
<1>11. /\ rtl'.rx_cur = x /\ rtl'.capr = rtl.capr /\ rtl'.cbr = Behind(RX_WORDS, x, p + k)
      /\ \A i \in Words : rtl'.mem[i] = IF i = c THEN frame
                                        ELSE IF i \in Covered(c, k) THEN None ELSE rtl.mem[i]
  <2>1. rtl.cbr + frame.words + 1 = c + k
    BY <1>3, <1>4 DEF Words
  <2>2. (rtl.cbr + frame.words + 1) % RX_WORDS = Behind(RX_WORDS, c, k)
    BY <1>1, <1>4, <2>1, BehindMod DEF Words
  <2> QED BY <1>3, <1>10, <2>2 DEF RtlInv, RtlWrites, Words
<1>12. /\ accepted' \in Seq(Frames \ {None}) /\ Len(accepted') = n + 1
       /\ accepted'[n + 1] = frame /\ \A i \in 1..n : accepted'[i] = accepted[i]
  BY <1>3, <1>4 DEF RtlWrites
<1>13. Len(accepted') + 1 = n + 2 /\ 1..Len(accepted') = 1..n+1
  BY <1>4, <1>12
<1>14. PICK new : new = [i \in 1..n+2 |-> IF i = n + 2 THEN p + k ELSE off[i]]
  OBVIOUS
<1>15. /\ new \in [1..n+2 -> Words] /\ new[n + 2] = p + k /\ new[n + 1] = p
       /\ \A i \in 1..n+1 : new[i] = off[i]
  BY <1>2, <1>3, <1>4, <1>9, <1>14
<1>16. Offsets(new)'
  <2>0. \A i, j \in 1..n+1 : off[i] \in Nat /\ (i < j => off[i] < off[j])
    BY <1>2, <1>3 DEF Offsets, Words
  <2>1. new[1] = 0
    BY <1>2, <1>4, <1>15 DEF Offsets
  <2>2. ASSUME NEW i \in 1..n+1 PROVE new[i + 1] = new[i] + accepted'[i].words + 1
    <3>1. CASE i = n + 1
      BY <1>3, <1>4, <1>12, <1>15, <3>1 DEF Words
    <3>2. CASE i # n + 1
      <4>1. i \in 1..n /\ i + 1 \in 1..n+1
        BY <1>4, <3>2
      <4> QED BY <1>2, <1>3, <1>12, <1>15, <4>1 DEF Offsets
    <3> QED BY <3>1, <3>2
  <2>3. ASSUME NEW i \in 1..n+2, NEW j \in 1..n+2, i < j PROVE new[i] < new[j]
    <3>1. CASE j = n + 2
      <4>1. i \in 1..n+1 /\ n + 1 \in 1..n+1
        BY <1>4, <2>3, <3>1, SMTT(30)
      <4>2. off[i] <= p /\ off[i] \in Nat
        <5>1. off[n + 1] = p
          BY <1>3
        <5>2. CASE i = n + 1
          BY <1>4, <5>1, <5>2 DEF Words
        <5>3. CASE i < n + 1
          BY <1>4, <2>0, <4>1, <5>1, <5>3 DEF Words
        <5> QED BY <1>4, <4>1, <5>2, <5>3
      <4> QED BY <1>4, <1>15, <3>1, <4>1, <4>2 DEF Words
    <3>2. CASE j # n + 2
      <4>1. i \in 1..n+1 /\ j \in 1..n+1
        BY <1>4, <2>3, <3>2
      <4> QED BY <1>15, <2>0, <2>3, <4>1
    <3> QED BY <3>1, <3>2
  <2> QED BY <1>13, <2>1, <2>2, <2>3 DEF Offsets
<1>17. ASSUME NEW i \in 1..n+1 PROVE rtl'.mem[Behind(RX_WORDS, x, new[i])] = accepted'[i]
  <2>1. CASE i = n + 1
    BY <1>4, <1>11, <1>12, <1>15, <2>1
  <2>2. CASE i # n + 1
    <3>1. i \in 1..n /\ i \in 1..n+1 /\ n + 1 \in 1..n+1 /\ i < n + 1
      BY <1>4, <2>2
    <3>2. off[i] \in Words /\ off[i] < p
      BY <1>2, <1>3, <3>1 DEF Offsets
    <3>3. PICK y \in Words : y = Behind(RX_WORDS, x, off[i])
      BY <1>1, <1>4, <3>2, BehindMod DEF Words
    <3>4. y # c
      BY <1>1, <1>4, <3>2, <3>3, BehindApart DEF Words
    <3>5. y \notin Covered(c, k)
      <4>1. SUFFICES ASSUME NEW j \in 0..k-1, y = (c + j) % RX_WORDS PROVE FALSE
        BY DEF Covered
      <4>2. j \in Words /\ p + j \in Words /\ j \in Nat /\ p \in Nat
        BY <1>1, <1>4, <1>9 DEF Words
      <4>3. (c + j) % RX_WORDS = Behind(RX_WORDS, c, j)
        BY <1>1, <1>4, <4>2, BehindMod DEF Words
      <4>4. Behind(RX_WORDS, c, j) = Behind(RX_WORDS, x, p + j)
        BY <1>1, <1>4, <4>2, BehindTwice DEF Words
      <4>5. off[i] # p + j
        BY <1>4, <3>2, <4>2 DEF Words
      <4> QED BY <1>1, <1>4, <3>2, <3>3, <4>1, <4>2, <4>3, <4>4, <4>5, BehindApart DEF Words
    <3>6. rtl'.mem[y] = rtl.mem[y] /\ rtl.mem[y] = accepted[i]
      BY <1>2, <1>3, <1>11, <3>1, <3>3, <3>4, <3>5
    <3> QED BY <1>12, <1>15, <3>1, <3>3, <3>6
  <2> QED BY <2>1, <2>2
<1>18. Avail' # 0 /\ new[n + 2] + Avail' <= RX_WORDS
  <2>1. Avail' = (rtl.capr + 4 - Behind(RX_WORDS, c, k)) % RX_WORDS
    BY <1>11, <1>10 DEF Avail
  <2> QED BY <1>7, <1>8, <1>9, <1>15, <2>1
<1> QED BY <1>11, <1>12, <1>15, <1>16, <1>17, <1>18, <1>13, ZenonT(60) DEF RtlAgrees

(* What is next in the ring. *)
LEMMA AtCurIsFirst ==
  ASSUME RtlInv, RtlAgrees
  PROVE  (NothingNew <=> accepted = << >>) /\ (accepted = << >> => rtl.cbr = rtl.rx_cur)
<1>1. PICK off \in [1..Len(accepted)+1 -> Words] :
        /\ Offsets(off)
        /\ \A i \in 1..Len(accepted) : rtl.mem[Behind(RX_WORDS, rtl.rx_cur, off[i])] = accepted[i]
        /\ rtl.cbr = Behind(RX_WORDS, rtl.rx_cur, off[Len(accepted)+1])
  BY DEF RtlAgrees
<1>2. PICK n, x : n = Len(accepted) /\ x = rtl.rx_cur
  OBVIOUS
<1>3. n \in Nat /\ x \in Words /\ x \in Nat /\ RX_WORDS \in Nat \ {0} /\ accepted \in Seq(Frames \ {None})
  BY <1>2, NicAssumption DEF RtlAgrees, RtlInv, Words
<1>4. off[1] = 0 /\ Behind(RX_WORDS, x, 0) = x
  BY <1>1, <1>3 DEF Offsets, Behind, Words
<1>5. CASE n = 0
  <2>1. rtl.cbr = rtl.rx_cur
    BY <1>1, <1>2, <1>4, <1>5
  <2>2. accepted = << >>
    <3>1. Len(accepted) = 0 /\ accepted \in Seq(Frames \ {None})
      BY <1>2, <1>5 DEF RtlAgrees
    <3> QED BY <3>1
  <2> QED BY <2>1, <2>2 DEF NothingNew
<1>6. CASE n > 0
  <2>1. 1 \in 1..n /\ 1 \in 1..n+1 /\ n + 1 \in 1..n+1 /\ 1 < n + 1
    BY <1>3, <1>6
  <2>2. AtCur = accepted[1] /\ accepted[1] # None
    BY <1>1, <1>2, <1>3, <1>4, <2>1 DEF AtCur
  <2>3. off[n + 1] \in Words /\ off[n + 1] # 0
    BY <1>1, <1>2, <1>4, <2>1 DEF Offsets
  <2>4. rtl.cbr # x
    BY <1>1, <1>2, <1>3, <2>3 DEF Behind, Words
  <2> QED BY <1>2, <1>6, <2>2, <2>4 DEF NothingNew
<1> QED BY <1>3, <1>5, <1>6

(* The driver passes the first frame (process_rx). *)
LEMMA RtlPasses ==
  ASSUME RtlInv, RtlAgrees, ~NothingNew, rtl' = Passed(rtl, AtCur), accepted' = Tail(accepted)
  PROVE  RtlAgrees'
<1>1. RX_WORDS \in Nat \ {0}
  BY NicAssumption
<1>2. PICK off \in [1..Len(accepted)+1 -> Words] :
        /\ Offsets(off)
        /\ \A i \in 1..Len(accepted) : rtl.mem[Behind(RX_WORDS, rtl.rx_cur, off[i])] = accepted[i]
        /\ rtl.cbr = Behind(RX_WORDS, rtl.rx_cur, off[Len(accepted)+1])
        /\ off[Len(accepted)+1] + Avail <= RX_WORDS
        /\ Avail = 0 => accepted = << >>
  BY DEF RtlAgrees
<1>3. PICK n, x, d : n = Len(accepted) /\ x = rtl.rx_cur /\ d = off[2]
  OBVIOUS
<1>4. n \in Nat /\ x \in Words /\ n > 0 /\ accepted \in Seq(Frames \ {None}) /\ accepted # << >>
  BY <1>3, AtCurIsFirst DEF RtlAgrees, RtlInv
<1>5. /\ \A i \in 1..n+1 : off[i] \in Words
      /\ \A i, j \in 1..n+1 : i < j => off[i] < off[j]
      /\ \A i \in 1..n : off[i + 1] = off[i] + accepted[i].words + 1
      /\ off[1] = 0
  BY <1>2, <1>3 DEF Offsets
<1>6. \A i \in 1..n : i + 1 \in 1..n+1 /\ off[i + 1] \in Words /\ off[i + 1] >= d
  <2>1. ASSUME NEW i \in 1..n PROVE i + 1 \in 1..n+1 /\ off[i + 1] \in Words /\ off[i + 1] >= d
    <3>1. i + 1 \in 1..n+1 /\ 2 \in 1..n+1 /\ off[i + 1] \in Words
      BY <1>4, <1>5
    <3>2. CASE i = 1
      BY <1>3, <3>1, <3>2 DEF Words
    <3>3. CASE i # 1
      <4>1. off[2] < off[i + 1]
        BY <1>4, <1>5, <3>1, <3>3
      <4>2. off[2] \in Words
        BY <1>5, <3>1
      <4> QED BY <1>3, <3>1, <4>1, <4>2 DEF Words
    <3> QED BY <3>2, <3>3
  <2> QED BY <2>1
<1>7. AtCur = accepted[1] /\ d \in Words /\ accepted[1].words \in Nat /\ d = accepted[1].words + 1
  <2>1. 1 \in 1..n /\ Behind(RX_WORDS, x, 0) = x
    BY <1>1, <1>4 DEF Behind, Words
  <2>2. AtCur = accepted[1] /\ accepted[1] \in Frames
    BY <1>2, <1>3, <1>4, <1>5, <2>1 DEF AtCur
  <2>3. accepted[1].words \in Nat
    BY <2>2 DEF Frames
  <2>4. d = off[1] + accepted[1].words + 1 /\ off[1] = 0
    BY <1>3, <1>5, <2>1
  <2>5. d \in Words
    BY <1>3, <1>6, <2>1
  <2> QED BY <2>2, <2>3, <2>4, <2>5
<1>8. x \in Nat /\ d \in Nat
  <2>1. \A y \in Words : y \in Nat
    BY <1>1 DEF Words
  <2> QED BY <1>4, <1>7, <2>1
<1>9. \A i \in 1..n : off[i + 1] \in Nat /\ off[i + 1] >= d /\ off[i + 1] - d \in Words
  <2>1. \A y \in Words : y \in Nat /\ (y >= d => y - d \in Words)
    BY <1>1, <1>8 DEF Words
  <2> QED BY <1>6, <2>1
<1>10. /\ rtl'.mem = rtl.mem /\ rtl'.cbr = rtl.cbr /\ rtl'.capr = rtl.capr
      /\ rtl'.rx_cur = Behind(RX_WORDS, x, d)
  <2>1. x + 1 + accepted[1].words = x + d
    <3>1. PICK v \in Nat : v = accepted[1].words
      BY <1>7
    <3>2. d = v + 1
      BY <1>7, <3>1
    <3>3. x + 1 + v = x + d
      BY <1>8, <3>2
    <3> QED BY <3>1, <3>3
  <2>2. (x + d) % RX_WORDS = Behind(RX_WORDS, x, d)
    BY <1>1, <1>4, <1>7, BehindMod DEF Words
  <2> QED BY <1>3, <1>7, <2>1, <2>2 DEF Passed, RtlInv
<1>11. /\ accepted' \in Seq(Frames \ {None}) /\ Len(accepted') = n - 1
      /\ \A i \in 1..n-1 : accepted'[i] = accepted[i + 1]
  BY <1>3, <1>4
<1>12. Len(accepted') + 1 = n /\ 1..Len(accepted') = 1..n-1
  BY <1>4, <1>11
<1>13. PICK new : new = [i \in 1..n |-> off[i + 1] - d]
  OBVIOUS
<1>14. \A i \in 1..n : new[i] = off[i + 1] - d /\ new[i] \in Words
  BY <1>13, <1>9
<1>15. new \in [1..n -> Words]
  BY <1>13, <1>14
<1>16. Offsets(new)'
  <2>1. new[1] = 0
    BY <1>3, <1>4, <1>14, <1>8
  <2>2. ASSUME NEW i \in 1..n-1 PROVE new[i + 1] = new[i] + accepted'[i].words + 1
    <3>1. i \in 1..n /\ i + 1 \in 1..n
      BY <1>4
    <3>2. off[i + 2] = off[i + 1] + accepted[i + 1].words + 1
      BY <1>5, <3>1
    <3>3. accepted[i + 1] \in Frames
      BY <1>3, <1>4, <3>1
    <3>4. accepted[i + 1].words \in Nat
      BY <3>3 DEF Frames
    <3>5. off[i + 1] \in Nat /\ d \in Nat
      BY <1>6, <1>7, <3>1 DEF Words
    <3>6. /\ new[i] = off[i + 1] - d /\ new[i + 1] = off[i + 2] - d
          /\ accepted'[i] = accepted[i + 1]
      <4>1. i \in Int /\ (i + 1) + 1 = i + 2
        OBVIOUS
      <4> QED BY <1>11, <1>14, <3>1, <4>1
    <3>7. PICK a, b, w, r, t : /\ a = off[i + 1] /\ b = off[i + 2] /\ w = accepted[i + 1].words
                               /\ r = new[i] /\ t = new[i + 1]
      OBVIOUS
    <3>8. b = a + w + 1 /\ r = a - d /\ t = b - d
      BY <3>2, <3>6, <3>7
    <3>9. a \in Nat /\ d \in Nat /\ w \in Nat
      BY <3>4, <3>5, <3>7
    <3>10. t = r + w + 1
      BY <3>8, <3>9
    <3> QED BY <3>6, <3>7, <3>10
  <2>3. ASSUME NEW i \in 1..n, NEW j \in 1..n, i < j PROVE new[i] < new[j]
    <3>1. off[i + 1] < off[j + 1]
      BY <1>5, <1>6, <2>3
    <3> QED BY <1>14, <1>8, <1>9, <3>1
  <2> QED BY <1>12, <2>1, <2>2, <2>3 DEF Offsets
<1>17. ASSUME NEW i \in 1..n
       PROVE  Behind(RX_WORDS, rtl'.rx_cur, new[i]) = Behind(RX_WORDS, x, off[i + 1])
  <2>1. PICK a, b : a = off[i + 1] /\ b = new[i]
    OBVIOUS
  <2>2. a \in Words /\ b \in Words /\ b = a - d
    BY <1>6, <1>14, <2>1
  <2>3. a \in 0..RX_WORDS-1 /\ b \in Nat /\ a = d + b
    BY <1>1, <1>8, <2>2 DEF Words
  <2>4. x \in 0..RX_WORDS-1
    BY <1>4 DEF Words
  <2>5. Behind(RX_WORDS, Behind(RX_WORDS, x, d), b) = Behind(RX_WORDS, x, a)
    BY <1>1, <1>8, <2>3, <2>4, BehindTwice
  <2> QED BY <1>10, <2>1, <2>5, Zenon
<1>18. ASSUME NEW i \in 1..n-1 PROVE rtl'.mem[Behind(RX_WORDS, rtl'.rx_cur, new[i])] = accepted'[i]
  <2>1. i \in 1..n /\ i + 1 \in 1..n
    BY <1>4
  <2> QED BY <1>2, <1>3, <1>10, <1>11, <1>17, <2>1
<1>19. n \in 1..n /\ rtl'.cbr = Behind(RX_WORDS, rtl'.rx_cur, new[n])
  BY <1>2, <1>3, <1>4, <1>10, <1>17
<1>20. Avail' = Avail /\ Avail # 0 /\ new[n] + Avail' <= RX_WORDS
  <2>1. Avail' = Avail /\ Avail # 0
    BY <1>2, <1>4, <1>10 DEF Avail
  <2>2. PICK a : a = Avail
    OBVIOUS
  <2>3. a \in Int /\ off[n + 1] + a <= RX_WORDS
    BY <1>1, <1>2, <1>3, <2>2 DEF Avail, RtlInv, Words
  <2>4. off[n + 1] \in Nat /\ d \in Nat /\ new[n] = off[n + 1] - d
    BY <1>14, <1>19, <1>8, <1>9
  <2>5. new[n] + a <= RX_WORDS
    BY <1>1, <2>3, <2>4
  <2> QED BY <2>1, <2>2, <2>5
<1> QED BY <1>10, <1>11, <1>12, <1>15, <1>16, <1>18, <1>19, <1>20 DEF RtlAgrees

(* A ring with nothing pending. *)
LEMMA RtlEmpty == RtlInv /\ accepted = << >> /\ rtl.cbr = rtl.rx_cur => RtlAgrees
<1> SUFFICES ASSUME RtlInv, accepted = << >>, rtl.cbr = rtl.rx_cur PROVE RtlAgrees
  OBVIOUS
<1>1. RX_WORDS \in Nat \ {0} /\ 0 \in Words
  BY NicAssumption DEF Words
<1>2. PICK off : off = [i \in 1..1 |-> 0]
  OBVIOUS
<1>3. /\ Len(accepted) = 0 /\ 1..Len(accepted) = {} /\ Len(accepted) + 1 = 1
      /\ accepted \in Seq(Frames \ {None})
  OBVIOUS
<1>4. off \in [1..1 -> Words] /\ off[1] = 0
  BY <1>1, <1>2
<1>5. 0 + Avail <= RX_WORDS
  <2>1. PICK z : z = rtl.capr + 4 - rtl.cbr
    OBVIOUS
  <2>2. z \in Int
    BY <1>1, <2>1 DEF RtlInv, Words
  <2>3. z % RX_WORDS \in 0..RX_WORDS-1
    BY <1>1, <2>2
  <2> QED BY <1>1, <2>1, <2>3 DEF Avail
<1>6. Offsets(off)
  BY <1>3, <1>4 DEF Offsets
<1>7. rtl.cbr = Behind(RX_WORDS, rtl.rx_cur, 0)
  BY <1>1 DEF Behind, RtlInv, Words
<1> QED BY <1>3, <1>4, <1>5, <1>6, <1>7 DEF RtlAgrees

(* A step that leaves the pointers and the words alone. *)
LEMMA RtlSame ==
  ASSUME RtlAgrees, UNCHANGED accepted, rtl'.mem = rtl.mem, rtl'.rx_cur = rtl.rx_cur,
         rtl'.cbr = rtl.cbr, rtl'.capr = rtl.capr
  PROVE  RtlAgrees'
<1>1. Avail' = Avail
  BY DEF Avail
<1>2. \A off : Offsets(off)' <=> Offsets(off)
  BY DEF Offsets
<1> QED BY <1>1, <1>2 DEF RtlAgrees

-----------------------------------------------------------------------------
(* Every step keeps the rings in order.                                      *)

LEMMA Init_RingInv == Init => RingInv
<1> SUFFICES ASSUME Init PROVE RingInv
  OBVIOUS
<1>1. IrqInv
  BY DEF Init, NicInit, OutOfIrq, IrqInv
<1>2. E1000Agrees
  <2>1. accepted = << >> /\ Len(accepted) = 0 /\ accepted \in Seq(Filled)
    BY DEF Init, NicInit
  <2>2. /\ e1000.rdh = 0 /\ e1000.rdt = RX_SLOTS - 1 /\ e1000.rx_next = 0 /\ e1000.rest = None
        /\ e1000.ring = [i \in 0..RX_SLOTS-1 |-> NoDesc]
    BY DEF Init, NicInit
  <2>3. \A i \in Indices : Behind(RX_SLOTS, 0, i) = i
    BY NicAssumption DEF Behind, Indices
  <2>4. 0 < RX_SLOTS /\ 0 \in Indices /\ RX_SLOTS - 1 \in Indices
    BY NicAssumption DEF Indices
  <2>5. \A i \in Indices : e1000.ring[i] = NoDesc /\ ~(i < 0)
    BY <2>2, NicAssumption DEF Indices
  <2> QED BY <2>1, <2>2, <2>3, <2>4, <2>5 DEF E1000Agrees
<1>3. RtlAgrees
  <2>1. RtlInv
    BY Init_RxInv DEF RxInv, CardInv
  <2> QED BY <2>1, RtlEmpty DEF Init, NicInit
<1> QED BY <1>1, <1>2, <1>3 DEF RingInv

(* A frame comes to the e1000 card. *)
LEMMA E1000ReceiveRing ==
  ASSUME E1000Inv, RingInv, NEW frame \in Frames, E1000Receive(frame)
  PROVE  RingInv'
<1>1. driver = "e1000" /\ E1000Agrees
  BY DEF E1000Receive, RingInv
<1>2. Len(accepted) \in Nat /\ Free = RX_SLOTS - 1 - Len(accepted) /\ RX_SLOTS \in Nat
  BY <1>1, FreeSlots, NicAssumption DEF E1000Agrees
<1>3. ASSUME NEW eop \in BOOLEAN, NEW rest, Fill(Desc(frame, eop), rest), Free >= 1, rest # None => Free >= 2
      PROVE  RingInv'
  <2>1. Desc(frame, eop) \in Filled
    BY DEF Desc, Filled
  <2>2. Len(accepted) < RX_SLOTS - 1 /\ (rest # None => Len(accepted) < RX_SLOTS - 2)
    BY <1>2, <1>3
  <2>3. E1000Agrees'
    BY <1>1, <1>3, <2>1, <2>2, FillAgrees
  <2> QED BY <1>1, <1>3, <2>3 DEF Fill, RingInv, IrqInv
<1>4. CASE UNCHANGED nicVars
  BY <1>1, <1>4 DEF nicVars, RingInv, IrqInv, E1000Agrees
<1>5. CASE ~frame.long /\ Free >= 1 /\ Fill(Desc(frame, TRUE), None)
  BY <1>3, <1>5
<1>6. CASE frame.long /\ Free >= 2 /\ Fill(Desc(frame, FALSE), frame)
  <2>1. Free >= 1
    BY <1>2, <1>6
  <2> QED BY <1>3, <1>6, <2>1
<1> QED BY <1>4, <1>5, <1>6 DEF E1000Receive

(* The rest of a long frame. *)
LEMMA E1000RestRing == ASSUME E1000Inv, RingInv, E1000Rest PROVE RingInv'
<1>1. driver = "e1000" /\ E1000Agrees /\ e1000.rest # None
  BY DEF E1000Rest, RingInv
<1>2. PICK desc : desc = Desc(Middle(e1000.rest), TRUE)
  OBVIOUS
<1>3. desc \in Filled
  <2>1. e1000.rest \in Frames
    BY <1>1 DEF E1000Inv
  <2>2. Middle(e1000.rest) \in Frames
    BY <2>1 DEF Middle, Frames
  <2> QED BY <1>2, <2>2 DEF Desc, Filled
<1>4. Fill(desc, None) /\ Len(accepted) < RX_SLOTS - 1
  BY <1>1, <1>2 DEF E1000Rest, E1000Agrees
<1>5. E1000Agrees'
  BY <1>1, <1>3, <1>4, FillAgrees
<1> QED BY <1>1, <1>4, <1>5 DEF Fill, RingInv, IrqInv

(* A frame comes to the rtl8139 card. *)
LEMMA RtlReceiveRing ==
  ASSUME RtlInv, RingInv, NEW f \in Fragment, NEW err \in BOOLEAN, RtlReceive(Frame(f, err))
  PROVE  RingInv'
<1>1. driver = "rtl8139" /\ RtlAgrees /\ UNCHANGED <<driver, irq>>
  BY DEF RtlReceive, RingInv
<1>2. PICK frame : frame = Frame(f, err)
  OBVIOUS
<1>3. frame \in Frames \ {None}
  BY <1>2, FrameTyped, RxAssumption
<1>4. ~Kept(frame) => frame.words + 1 < RX_WORDS
  BY <1>2, RxAssumption DEF Kept, Frame
<1>5. CASE RtlWrites(frame)
  <2>1. RtlAgrees'
    BY <1>1, <1>3, <1>4, <1>5, RtlTakes DEF RtlWrites
  <2> QED BY <1>1, <2>1 DEF RingInv, IrqInv
<1>6. CASE (rtl' = [rtl EXCEPT !.isr = @ \cup {"RXOVW"}] \/ UNCHANGED rtl) /\ UNCHANGED accepted
  <2>1. rtl'.mem = rtl.mem /\ rtl'.rx_cur = rtl.rx_cur /\ rtl'.cbr = rtl.cbr /\ rtl'.capr = rtl.capr
    BY <1>6 DEF RtlInv
  <2>2. RtlAgrees'
    BY <1>1, <1>6, <2>1, RtlSame
  <2> QED BY <1>1, <2>2 DEF RingInv, IrqInv
<1> QED BY <1>2, <1>5, <1>6 DEF RtlReceive, RtlWrites

(* The driver's steps. *)
LEMMA E1000DriverRing == ASSUME E1000Inv, RingInv, E1000Begin \/ E1000Step \/ E1000End PROVE RingInv'
<1>1. driver = "e1000" /\ E1000Agrees /\ UNCHANGED driver
  BY DEF E1000Begin, E1000Step, E1000End, RingInv, IrqInv
<1>2. CASE E1000Step
  <2>1. E1000Agrees'
    BY <1>1, <1>2, ConsumeAgrees DEF E1000Step
  <2>2. IrqInv'
    BY <1>1, <1>2 DEF E1000Step, RingInv, IrqInv
  <2> QED BY <1>1, <2>1, <2>2 DEF RingInv
<1>3. CASE E1000Begin \/ E1000End
  <2>1. UNCHANGED <<e1000, accepted>> /\ (irq' = [pc |-> "e1000", skipping |-> FALSE] \/ irq' = OutOfIrq)
    BY <1>3 DEF E1000Begin, E1000End
  <2>2. E1000Agrees'
    BY <1>1, <2>1 DEF E1000Agrees
  <2>3. IrqInv'
    BY <1>1, <2>1 DEF IrqInv, OutOfIrq
  <2> QED BY <1>1, <2>2, <2>3 DEF RingInv
<1> QED BY <1>2, <1>3

LEMMA RtlDriverRing == ASSUME RtlInv, RingInv, RtlBegin \/ RtlStep \/ RtlEnd PROVE RingInv'
<1>1. driver = "rtl8139" /\ RtlAgrees /\ UNCHANGED driver
  BY DEF RtlBegin, RtlStep, RtlEnd, RingInv, IrqInv
<1>2. RtlInv'
  BY RtlMoves
<1>3. IrqInv'
  <2>1. irq = [pc |-> irq.pc, skipping |-> irq.skipping]
    BY DEF RingInv, IrqInv
  <2>2. CASE RtlBegin \/ RtlEnd
    <3>1. irq' = OutOfIrq \/ irq' = [OutOfIrq EXCEPT !.pc = "rtl8139"]
      BY <2>2 DEF RtlBegin, RtlEnd
    <3> QED BY <1>1, <3>1 DEF OutOfIrq, IrqInv
  <2>3. CASE RtlStep
    <3>1. irq' = irq \/ irq' = [irq EXCEPT !.pc = "wild"]
      BY <2>3 DEF RtlStep
    <3> QED BY <1>1, <2>1, <3>1 DEF RingInv, IrqInv
  <2> QED BY <2>2, <2>3
<1>4. CASE RtlBegin
  <2>1. CASE rtl' = rx_overflow_recover([rtl EXCEPT !.isr = {}]) /\ accepted' = << >>
    <3>1. rtl'.cbr = rtl'.rx_cur
      BY <2>1 DEF rx_overflow_recover, RtlInv
    <3>2. RtlAgrees'
      <4>1. (RtlInv /\ accepted = << >> /\ rtl.cbr = rtl.rx_cur)'
        BY <1>2, <2>1, <3>1
      <4> QED BY <4>1, RtlEmpty, PTL
    <3> QED BY <1>1, <1>3, <3>2 DEF RingInv
  <2>2. CASE rtl' = [rtl EXCEPT !.isr = {}] /\ UNCHANGED accepted
    <3>1. rtl'.mem = rtl.mem /\ rtl'.rx_cur = rtl.rx_cur /\ rtl'.cbr = rtl.cbr /\ rtl'.capr = rtl.capr
      BY <2>2 DEF RtlInv
    <3>2. RtlAgrees'
      BY <1>1, <2>2, <3>1, RtlSame
    <3> QED BY <1>1, <1>3, <3>2 DEF RingInv
  <2> QED BY <1>4, <2>1, <2>2 DEF RtlBegin
<1>5. CASE RtlStep
  <2>1. CASE UNCHANGED <<rtl, accepted>>
    <3>1. RtlAgrees'
      BY <1>1, <2>1, RtlSame
    <3> QED BY <1>1, <1>3, <3>1 DEF RingInv
  <2>2. CASE rtl' = Passed(rtl, AtCur) /\ accepted' = Tail(accepted)
    <3>1. RtlAgrees'
      BY <1>1, <1>5, <2>2, RtlPasses DEF RtlStep
    <3> QED BY <1>1, <1>3, <3>1 DEF RingInv
  <2> QED BY <1>5, <2>1, <2>2 DEF RtlStep
<1>6. CASE RtlEnd
  <2>1. accepted = << >> /\ rtl.cbr = rtl.rx_cur
    BY <1>1, <1>6, AtCurIsFirst DEF RtlEnd
  <2>2. accepted' = << >> /\ rtl'.cbr = rtl'.rx_cur
    BY <1>6, <2>1 DEF RtlEnd, RtlInv
  <2>3. RtlAgrees'
    <3>1. (RtlInv /\ accepted = << >> /\ rtl.cbr = rtl.rx_cur)'
      BY <1>2, <2>2
    <3> QED BY <3>1, RtlEmpty, PTL
  <2> QED BY <1>1, <1>3, <2>3 DEF RingInv
<1> QED BY <1>4, <1>5, <1>6

LEMMA RingInvStep == CardInv /\ RingInv /\ [Next]_vars => RingInv'
<1> SUFFICES ASSUME CardInv, RingInv, [Next]_vars PROVE RingInv'
  OBVIOUS
<1>1. CASE UNCHANGED nicVars
  <2>1. UNCHANGED <<driver, e1000, rtl, irq, accepted>>
    BY <1>1 DEF nicVars
  <2>2. E1000Agrees => E1000Agrees'
    BY <2>1 DEF E1000Agrees
  <2>3. RtlAgrees => RtlAgrees'
    BY <2>1, RtlSame
  <2> QED BY <2>1, <2>2, <2>3 DEF RingInv, IrqInv
<1>2. CASE Air
  <2>1. PICK f \in air, how \in {"whole", "doubled", "damaged", "lost"} :
          \/ UNCHANGED nicVars
          \/ E1000Receive(Frame(f, how = "damaged"))
          \/ RtlReceive(Frame(f, how = "damaged"))
    BY <1>2 DEF Air
  <2>2. f \in Fragment /\ Frame(f, how = "damaged") \in Frames /\ (how = "damaged") \in BOOLEAN
    BY FrameTyped DEF CardInv
  <2>3. PICK frame, err : frame = Frame(f, how = "damaged") /\ err = (how = "damaged")
    OBVIOUS
  <2>4. CASE E1000Receive(frame)
    BY <2>2, <2>3, <2>4, E1000ReceiveRing DEF CardInv
  <2>5. CASE RtlReceive(Frame(f, err))
    <3>1. err \in BOOLEAN
      BY <2>2, <2>3
    <3> QED BY <2>2, <2>5, <3>1, RtlReceiveRing DEF CardInv
  <2> QED BY <1>1, <2>1, <2>3, <2>4, <2>5
<1>3. CASE Card
  BY <1>3, E1000RestRing DEF Card, CardInv
<1>4. CASE Interrupt \/ Return \/ Handle
  BY <1>4, E1000DriverRing, RtlDriverRing DEF Interrupt, Return, Handle, CardInv
<1>5. CASE frag_expiry_poll \/ Process \/ UNCHANGED vars
  BY <1>1, <1>5 DEF frag_expiry_poll, Process, vars, nicVars
<1> QED BY <1>2, <1>3, <1>4, <1>5 DEF Next

-----------------------------------------------------------------------------
(* From one offset to the next. *)
LEMMA NextOffset ==
  ASSUME RtlInv, NEW n \in Nat, n = Len(accepted), NEW off \in [1..n+1 -> Words], Offsets(off),
         accepted \in Seq(Frames \ {None}), NEW i \in 1..n+1, i # 1
  PROVE  Behind(RX_WORDS, rtl.rx_cur, off[i])
           = (Behind(RX_WORDS, rtl.rx_cur, off[i - 1]) + accepted[i - 1].words + 1) % RX_WORDS
<1>1. i - 1 \in 1..n /\ i - 1 \in 1..n+1 /\ (i - 1) + 1 = i
  OBVIOUS
<1>2. accepted[i - 1].words \in Nat
  <2>1. accepted[i - 1] \in Frames
    BY <1>1
  <2> QED BY <2>1 DEF Frames
<1>3. PICK x, o, y, w, v : /\ x = rtl.rx_cur /\ o = off[i - 1] /\ y = off[i]
                           /\ w = accepted[i - 1].words /\ v = w + 1
  OBVIOUS
<1>4. x \in Words /\ o \in Words /\ o \in Nat /\ v \in Nat /\ off[i] \in Words /\ off[i] = o + v
  <2>1. x \in Words /\ o \in Words /\ off[i] \in Words
    BY <1>1, <1>3 DEF RtlInv
  <2>2. o \in Nat
    BY <2>1, NicAssumption DEF Words
  <2>3. off[i] = off[i - 1] + accepted[i - 1].words + 1
    BY <1>1 DEF Offsets
  <2>4. w \in Nat /\ v = w + 1 /\ y = o + w + 1
    BY <1>3, <1>2, <2>3
  <2>5. v \in Nat /\ y = o + v
    BY <2>2, <2>4
  <2> QED BY <1>3, <2>1, <2>2, <2>5
<1>5. RX_WORDS \in Nat \ {0} /\ v \in Words
  BY <1>4, NicAssumption DEF Words
<1>6. PICK c \in Words : c = Behind(RX_WORDS, x, o)
  BY <1>4, <1>5, BehindMod DEF Words
<1>7. c + accepted[i - 1].words + 1 = c + v
  <2>1. c \in Int
    BY <1>5 DEF Words
  <2> QED BY <1>3, <1>2, <2>1
<1>8. (c + v) % RX_WORDS = Behind(RX_WORDS, c, v)
  BY <1>5, <1>6, BehindMod DEF Words
<1>9. Behind(RX_WORDS, c, v) = Behind(RX_WORDS, x, off[i])
  BY <1>4, <1>5, <1>6, BehindTwice DEF Words
<1> QED BY <1>3, <1>6, <1>7, <1>8, <1>9

(* What RingInOrder says of its places, up to the n-th frame and behind it.  *)
ArePlaces(at, n) ==
  at = [i \in 1..n+1 |-> IF i = 1 THEN rtl.rx_cur ELSE (at[i - 1] + accepted[i - 1].words + 1) % RX_WORDS]

(* The places that RingInOrder computes one after the other are those of the *)
(* offsets: the first place that was not would follow one that is.           *)
LEMMA PlacesAreOffsets ==
  ASSUME RtlInv, NEW n \in Nat, n = Len(accepted), NEW off \in [1..n+1 -> Words], Offsets(off),
         accepted \in Seq(Frames \ {None}),
         NEW at, ArePlaces(at, n)
  PROVE  \A i \in 1..n+1 : at[i] = Behind(RX_WORDS, rtl.rx_cur, off[i])
<1> DEFINE wrong == {i \in 1..n+1 : at[i] # Behind(RX_WORDS, rtl.rx_cur, off[i])}
<1>1. SUFFICES ASSUME wrong # {} PROVE FALSE
  OBVIOUS
<1>2. wrong \in SUBSET Nat
  OBVIOUS
<1>3. PICK i \in wrong : \A j \in wrong : i <= j
  BY <1>1, <1>2, LeastNumber
<1>4. i \in 1..n+1 /\ at[i] # Behind(RX_WORDS, rtl.rx_cur, off[i])
  OBVIOUS
<1>5. i # 1
  <2>1. Behind(RX_WORDS, rtl.rx_cur, 0) = rtl.rx_cur
    BY NicAssumption DEF Behind, RtlInv, Words
  <2>2. 1 \in 1..n+1 /\ off[1] = 0 /\ at[1] = rtl.rx_cur
    BY DEF Offsets, ArePlaces
  <2> QED BY <1>4, <2>1, <2>2
<1>6. at[i - 1] = Behind(RX_WORDS, rtl.rx_cur, off[i - 1])
  <2>1. i - 1 \in 1..n+1 /\ i - 1 \notin wrong
    BY <1>3, <1>4, <1>5
  <2> QED BY <2>1
<1>7. at[i] = (at[i - 1] + accepted[i - 1].words + 1) % RX_WORDS
  BY <1>4, <1>5 DEF ArePlaces
<1>8. Behind(RX_WORDS, rtl.rx_cur, off[i])
        = (Behind(RX_WORDS, rtl.rx_cur, off[i - 1]) + accepted[i - 1].words + 1) % RX_WORDS
  <2> HIDE DEF wrong
  <2> QED BY <1>4, <1>5, NextOffset
<1> QED BY <1>4, <1>6, <1>7, <1>8

LEMMA RingInvInOrder == CardInv /\ RingInv => RingInOrder
<1> SUFFICES ASSUME CardInv, RingInv PROVE RingInOrder
  OBVIOUS
<1>1. ASSUME driver = "e1000", NEW i \in 0..RX_SLOTS-1
      PROVE  e1000.ring[(e1000.rx_next + i) % RX_SLOTS] = IF i < Len(accepted) THEN accepted[i + 1] ELSE NoDesc
  <2>1. e1000.rx_next \in 0..RX_SLOTS-1 /\ RX_SLOTS \in Nat \ {0}
    BY NicAssumption DEF CardInv, E1000Inv, Indices
  <2>2. (e1000.rx_next + i) % RX_SLOTS = Behind(RX_SLOTS, e1000.rx_next, i)
    BY <2>1, BehindMod
  <2> QED BY <1>1, <2>2 DEF RingInv, E1000Agrees, Indices
<1>2. ASSUME driver = "rtl8139"
      PROVE  LET at[i \in 1..Len(accepted) + 1] ==
                   IF i = 1 THEN rtl.rx_cur ELSE (at[i - 1] + accepted[i - 1].words + 1) % RX_WORDS
             IN /\ \A i \in 1..Len(accepted) : rtl.mem[at[i]] = accepted[i]
                /\ at[Len(accepted) + 1] = rtl.cbr
  <2> DEFINE at[i \in 1..Len(accepted) + 1] ==
               IF i = 1 THEN rtl.rx_cur ELSE (at[i - 1] + accepted[i - 1].words + 1) % RX_WORDS
  <2>1. PICK n : n = Len(accepted)
    OBVIOUS
  <2>2. n \in Nat /\ accepted \in Seq(Frames \ {None}) /\ RtlInv /\ RtlAgrees
    BY <1>2, <2>1 DEF RingInv, RtlAgrees, CardInv
  <2>3. PICK off \in [1..n+1 -> Words] :
          /\ Offsets(off)
          /\ \A i \in 1..n : rtl.mem[Behind(RX_WORDS, rtl.rx_cur, off[i])] = accepted[i]
          /\ rtl.cbr = Behind(RX_WORDS, rtl.rx_cur, off[n+1])
    BY <2>1, <2>2 DEF RtlAgrees
  <2>4. PICK g : g = [i \in 1..n+1 |-> Behind(RX_WORDS, rtl.rx_cur, off[i])]
    OBVIOUS
  <2>5. g = [i \in 1..n+1 |-> IF i = 1 THEN rtl.rx_cur
                              ELSE (g[i - 1] + accepted[i - 1].words + 1) % RX_WORDS]
    <3>1. Behind(RX_WORDS, rtl.rx_cur, off[1]) = rtl.rx_cur
      BY <2>2, <2>3, NicAssumption DEF Offsets, Behind, RtlInv, Words
    <3>2. ASSUME NEW i \in 1..n+1, i # 1
          PROVE  g[i] = (g[i - 1] + accepted[i - 1].words + 1) % RX_WORDS
      <4>1. i - 1 \in 1..n+1
        BY <2>2, <3>2
      <4>2. /\ g[i] = Behind(RX_WORDS, rtl.rx_cur, off[i])
            /\ g[i - 1] = Behind(RX_WORDS, rtl.rx_cur, off[i - 1])
        BY <2>4, <4>1
      <4>3. Behind(RX_WORDS, rtl.rx_cur, off[i])
              = (Behind(RX_WORDS, rtl.rx_cur, off[i - 1]) + accepted[i - 1].words + 1) % RX_WORDS
        BY <2>1, <2>2, <2>3, <3>2, NextOffset
      <4> QED BY <4>2, <4>3
    <3> QED BY <2>4, <3>1, <3>2
  <2>6. at = [i \in 1..n+1 |-> IF i = 1 THEN rtl.rx_cur
                               ELSE (at[i - 1] + accepted[i - 1].words + 1) % RX_WORDS]
    BY <2>1, <2>5, Zenon
  <2>7. \A i \in 1..n+1 : at[i] = Behind(RX_WORDS, rtl.rx_cur, off[i])
    <3> HIDE DEF at
    <3>1. PICK h : h = at
      OBVIOUS
    <3>2. ArePlaces(h, n)
      BY <2>6, <3>1 DEF ArePlaces
    <3>3. \A i \in 1..n+1 : h[i] = Behind(RX_WORDS, rtl.rx_cur, off[i])
      BY <2>1, <2>2, <2>3, <3>2, PlacesAreOffsets
    <3> QED BY <3>1, <3>3
  <2>8. (\A i \in 1..n : rtl.mem[at[i]] = accepted[i]) /\ at[n + 1] = rtl.cbr
    <3> HIDE DEF at
    <3> QED BY <2>2, <2>3, <2>7
  <2> QED BY <2>1, <2>8, Zenon
<1> QED BY <1>1, <1>2 DEF RingInOrder

(* Whatever comes over the air, and however the card's writing and the       *)
(* driver's reading alternate, the driver's place in the ring and what lies  *)
(* behind it are the frames that the card took and the driver has not yet    *)
(* read, in their order (e1000_poll and rtl8139_poll): for every ring size,  *)
(* every load and every number of faults.                                    *)
THEOREM RingOrder == Spec => []RingInOrder
<1>1. Init => CardInv /\ RingInv
  BY Init_RxInv, Init_RingInv DEF RxInv
<1>2. CardInv /\ RingInv /\ [Next]_vars => (CardInv /\ RingInv)'
  BY CardInvStep, RingInvStep
<1> QED BY <1>1, <1>2, RingInvInOrder, PTL DEF Spec

-----------------------------------------------------------------------------
(* The queue of a socket, and the types.                                     *)
Readable == Dgrams \cup {NoDgram}
Socks ==
  [used : BOOLEAN, bound : BOOLEAN, port : Int, qr : 0..UDP_QLEN-1, qw : 0..UDP_QLEN-1,
   qn : 0..UDP_QLEN, q : [0..UDP_QLEN-1 -> Readable]]

(* qw is qn places behind qr; the process's socket is the only one; before   *)
(* it is bound nothing has come for it.                                      *)
SockInv ==
  /\ socks \in [Fds -> Socks]
  /\ \A s \in Fds : socks[s].qw = Behind(UDP_QLEN, socks[s].qr, socks[s].qn)
  /\ \A s \in Fds : socks[s].used => s = proc.fd
  /\ proc.fd \in Fds \cup {-1}
  /\ got \in Seq(Readable) /\ up \in Seq(Dgrams)
  /\ \A s \in Fds : s = proc.fd /\ ~socks[s].bound => socks[s].qn = 0 /\ up = << >> /\ got = << >>
(* The fragments of a datagram are counted up to the buffer's size. *)
BufInv == \A s \in Slots : frags[s].got <= BufSize

QueueInv == SockInv /\ QueueInOrder

(* The datagrams kept of those that came in u are a, in their order. *)
Merge(kept, u, a) ==
  /\ kept \in SUBSET (DOMAIN u)
  /\ Cardinality(kept) = Len(a)
  /\ \A i \in kept : u[i] = a[Cardinality({j \in kept : j <= i})]

-----------------------------------------------------------------------------
(* A datagram more, and kept. *)
LEMMA MergeExtends ==
  ASSUME NEW D, NEW u \in Seq(D), NEW a \in Seq(D), NEW d \in D, NEW kept, Merge(kept, u, a)
  PROVE  Merge(kept \cup {Len(u) + 1}, Append(u, d), Append(a, d))
<1>1. PICK n \in Nat : n = Len(u) /\ DOMAIN u = 1..n /\ DOMAIN Append(u, d) = 1..n+1
  OBVIOUS
<1>2. PICK m \in Nat : m = Len(a)
  OBVIOUS
<1>3. kept \in SUBSET (1..n) /\ IsFiniteSet(kept) /\ Cardinality(kept) = m
  <2>1. kept \in SUBSET (1..n) /\ Cardinality(kept) = m
    BY <1>1, <1>2 DEF Merge
  <2>2. IsFiniteSet(1..n)
    BY FS_Interval
  <2> QED BY <2>1, <2>2, FS_Subset
<1> DEFINE more == kept \cup {n + 1}
<1>4. more \in SUBSET (1..n+1) /\ Cardinality(more) = m + 1
  <2>1. n + 1 \notin kept /\ more \in SUBSET (1..n+1)
    BY <1>3
  <2>2. Cardinality(more) = Cardinality(kept) + 1
    BY <1>3, <2>1, FS_AddElement
  <2> QED BY <1>3, <2>1, <2>2
<1>5. ASSUME NEW i \in kept
      PROVE  Append(u, d)[i] = Append(a, d)[Cardinality({j \in more : j <= i})]
  <2>1. i \in 1..n /\ {j \in more : j <= i} = {j \in kept : j <= i}
    BY <1>3
  <2>2. PICK S : S = {j \in kept : j <= i}
    OBVIOUS
  <2>3. S \in SUBSET kept /\ i \in S
    BY <2>1, <2>2
  <2>4. IsFiniteSet(S) /\ Cardinality(S) \in Nat /\ Cardinality(S) <= m
    BY <1>3, <2>3, FS_Subset, FS_CardinalityType
  <2>5. Cardinality(S) # 0
    BY <2>3, <2>4, FS_EmptySet
  <2>6. PICK c \in 1..m : c = Cardinality(S)
    BY <2>4, <2>5
  <2>7. u[i] = a[c]
    BY <2>2, <2>6 DEF Merge
  <2>8. Append(u, d)[i] = u[i] /\ Append(a, d)[c] = a[c]
    BY <1>1, <1>2, <2>1
  <2> QED BY <2>1, <2>2, <2>6, <2>7, <2>8
<1>6. Append(u, d)[n + 1] = Append(a, d)[Cardinality({j \in more : j <= n + 1})]
  <2>1. {j \in more : j <= n + 1} = more
    BY <1>4
  <2>2. Append(u, d)[n + 1] = d /\ Append(a, d)[m + 1] = d
    BY <1>1, <1>2
  <2> QED BY <1>4, <2>1, <2>2
<1>7. Len(Append(a, d)) = m + 1
  BY <1>2
<1> QED BY <1>1, <1>4, <1>5, <1>6, <1>7 DEF Merge

(* What the process has read or may read. *)
IsAll(all, g, u) ==
  /\ all \in Seq(Readable) /\ Len(all) = Len(g) + u.qn
  /\ \A i \in 1..Len(g) : all[i] = g[i]
  /\ \A i \in 1..u.qn : all[Len(g) + i] = u.q[Behind(UDP_QLEN, u.qr, i - 1)]
LEMMA AllIs == ASSUME NEW g \in Seq(Readable), NEW u \in Socks PROVE IsAll(g \o Queued(u), g, u)
<1> DEFINE all == g \o Queued(u)
<1>1. PICK n \in Nat, m \in Nat : n = u.qn /\ m = Len(g) /\ n <= UDP_QLEN /\ UDP_QLEN \in Nat \ {0}
  BY UdpAssumption DEF Socks
<1>2. PICK x \in 0..UDP_QLEN-1 : x = u.qr
  BY DEF Socks
<1>3. ASSUME NEW i \in 1..n
      PROVE  /\ (u.qr + i - 1) % UDP_QLEN = Behind(UDP_QLEN, x, i - 1)
             /\ Behind(UDP_QLEN, x, i - 1) \in 0..UDP_QLEN-1
  <2>1. i - 1 \in 0..UDP_QLEN-1 /\ x + i - 1 = x + (i - 1)
    BY <1>1
  <2> QED BY <1>1, <1>2, <2>1, BehindMod
<1>4. PICK r : r = Queued(u)
  OBVIOUS
<1>5. /\ r = [i \in 1..n |-> r[i]]
      /\ \A i \in 1..n : r[i] = u.q[Behind(UDP_QLEN, x, i - 1)] /\ r[i] \in Readable
  BY <1>1, <1>3, <1>4 DEF Queued, Socks
<1>6. r \in Seq(Readable) /\ Len(r) = n
  BY <1>5
<1>7. all = g \o r /\ all \in Seq(Readable) /\ Len(all) = m + n
  BY <1>1, <1>4, <1>6
<1>8. \A i \in 1..m : all[i] = g[i]
  BY <1>1, <1>6, <1>7
<1>9. \A i \in 1..n : all[m + i] = r[i]
  BY <1>1, <1>6, <1>7
<1> HIDE DEF all
<1>10. IsAll(all, g, u)
  BY <1>1, <1>2, <1>5, <1>7, <1>8, <1>9 DEF IsAll
<1> QED BY <1>10 DEF all

(* A datagram more in the ring is one more to read, the last. *)
LEMMA QueuedMore ==
  ASSUME NEW g \in Seq(Readable), NEW d \in Readable, NEW u \in Socks, NEW v \in Socks,
         u.qn < UDP_QLEN, u.qw = Behind(UDP_QLEN, u.qr, u.qn),
         v.qr = u.qr, v.qn = u.qn + 1, v.q = [u.q EXCEPT ![u.qw] = d]
  PROVE  g \o Queued(v) = Append(g \o Queued(u), d)
<1>1. PICK all, new : all = g \o Queued(u) /\ new = g \o Queued(v)
  OBVIOUS
<1>2. UDP_QLEN \in Nat \ {0} /\ Len(g) \in Nat
  BY UdpAssumption
<1>3. PICK k \in 0..UDP_QLEN-1, x \in 0..UDP_QLEN-1, m \in Nat : k = u.qn /\ x = u.qr /\ m = Len(g)
  BY <1>2 DEF Socks
<1>4. IsAll(all, g, u)
  BY <1>1, AllIs
<1>5. IsAll(new, g, v)
  BY <1>1, AllIs
<1>6. /\ Len(all) = m + k /\ Len(new) = m + k + 1
      /\ \A i \in 1..m : new[i] = all[i]
      /\ \A i \in 1..k : all[m + i] = u.q[Behind(UDP_QLEN, x, i - 1)]
      /\ \A i \in 1..k+1 : new[m + i] = v.q[Behind(UDP_QLEN, x, i - 1)]
  <2>1. v.qn = k + 1 /\ v.qr = x /\ Len(all) = m + k /\ Len(new) = m + (k + 1)
    BY <1>3, <1>4, <1>5 DEF IsAll
  <2>2. m + (k + 1) = m + k + 1
    BY <1>2
  <2>3. \A i \in 1..m : new[i] = all[i]
    BY <1>3, <1>4, <1>5 DEF IsAll
  <2>4. \A i \in 1..k : all[m + i] = u.q[Behind(UDP_QLEN, x, i - 1)]
    BY <1>3, <1>4 DEF IsAll
  <2>5. \A i \in 1..k+1 : new[m + i] = v.q[Behind(UDP_QLEN, x, i - 1)]
    BY <1>3, <1>5, <2>1 DEF IsAll
  <2> QED BY <2>1, <2>2, <2>3, <2>4, <2>5
<1>7. u.qw = Behind(UDP_QLEN, x, k) /\ u.qw \in 0..UDP_QLEN-1 /\ u.q \in [0..UDP_QLEN-1 -> Readable]
  BY <1>3 DEF Socks
<1>8. ASSUME NEW i \in 1..k PROVE new[m + i] = all[m + i]
  <2>1. i - 1 \in 0..UDP_QLEN-1 /\ i - 1 # k /\ i \in 1..k+1
    BY <1>2
  <2>2. /\ Behind(UDP_QLEN, x, i - 1) \in 0..UDP_QLEN-1
        /\ Behind(UDP_QLEN, x, i - 1) # Behind(UDP_QLEN, x, k)
    <3>1. PICK j \in 0..UDP_QLEN-1 : j = i - 1 /\ j # k
      BY <2>1
    <3>2. Behind(UDP_QLEN, x, j) \in 0..UDP_QLEN-1
      BY <1>2, BehindMod
    <3>3. Behind(UDP_QLEN, x, j) # Behind(UDP_QLEN, x, k)
      BY <1>2, <3>1, BehindApart
    <3> QED BY <3>1, <3>2, <3>3
  <2>3. v.q[Behind(UDP_QLEN, x, i - 1)] = u.q[Behind(UDP_QLEN, x, i - 1)]
    BY <1>7, <2>2
  <2> QED BY <1>6, <2>1, <2>3
<1>9. new[m + (k + 1)] = d
  <2>1. k + 1 \in 1..k+1 /\ (k + 1) - 1 = k
    BY <1>2
  <2>2. new[m + (k + 1)] = v.q[Behind(UDP_QLEN, x, k)]
    BY <1>6, <2>1
  <2> QED BY <1>7, <2>2
<1>10. PICK more : more = Append(all, d)
  OBVIOUS
<1>11. more \in Seq(Readable) /\ Len(more) = m + k + 1 /\ more[m + k + 1] = d
  BY <1>4, <1>6, <1>10 DEF IsAll
<1>12. \A i \in 1..m+k : more[i] = all[i]
  BY <1>4, <1>6, <1>10 DEF IsAll
<1>13. ASSUME NEW i \in 1..m+k+1 PROVE new[i] = more[i]
  <2>1. CASE i \in 1..m
    <3>1. i \in 1..m+k
      BY <2>1
    <3> QED BY <1>6, <1>12, <2>1, <3>1
  <2>2. CASE i - m \in 1..k
    <3>1. PICK j \in 1..k : j = i - m
      BY <2>2
    <3>2. i = m + j /\ i \in 1..m+k
      BY <3>1
    <3> QED BY <1>8, <1>12, <3>2
  <2>3. CASE i = m + (k + 1)
    <3>1. i = m + k + 1
      BY <2>3
    <3> QED BY <1>9, <1>11, <2>3, <3>1
  <2>4. i \in 1..m \/ i - m \in 1..k \/ i = m + (k + 1)
    OBVIOUS
  <2> QED BY <2>1, <2>2, <2>3, <2>4
<1>14. new = more
  BY <1>5, <1>6, <1>11, <1>13 DEF IsAll
<1> QED BY <1>1, <1>10, <1>14

(* Reading one leaves what was read and is to be read the same. *)
LEMMA QueuedLess ==
  ASSUME NEW g \in Seq(Readable), NEW u \in Socks, NEW v \in Socks, u.qn > 0,
         v.qr = Behind(UDP_QLEN, u.qr, 1), v.qn = u.qn - 1, v.q = u.q
  PROVE  Append(g, u.q[u.qr]) \o Queued(v) = g \o Queued(u)
<1>1. PICK e, h : e = u.q[u.qr] /\ h = Append(g, u.q[u.qr])
  OBVIOUS
<1>2. PICK all, new : all = g \o Queued(u) /\ new = h \o Queued(v)
  OBVIOUS
<1>3. UDP_QLEN \in Nat \ {0} /\ Len(g) \in Nat
  BY UdpAssumption
<1>4. PICK k \in 1..UDP_QLEN, x \in 0..UDP_QLEN-1, m \in Nat : k = u.qn /\ x = u.qr /\ m = Len(g)
  BY <1>3 DEF Socks
<1>5. e \in Readable /\ h \in Seq(Readable) /\ Len(h) = m + 1 /\ h[m + 1] = e /\ \A i \in 1..m : h[i] = g[i]
  <2>1. e \in Readable
    BY <1>1 DEF Socks
  <2> QED BY <1>1, <1>4, <2>1
<1>6. IsAll(all, g, u) /\ IsAll(new, h, v)
  BY <1>2, <1>5, AllIs
<1>7. v.qn = k - 1 /\ v.qr = Behind(UDP_QLEN, x, 1)
  BY <1>4
<1>8. Len(all) = m + k /\ Len(new) = m + k
  <2>1. Len(all) = m + k /\ Len(new) = (m + 1) + (k - 1)
    BY <1>4, <1>5, <1>6, <1>7 DEF IsAll
  <2>2. (m + 1) + (k - 1) = m + k
    BY <1>3
  <2> QED BY <2>1, <2>2
<1>9. \A i \in 1..k : all[m + i] = u.q[Behind(UDP_QLEN, x, i - 1)]
  BY <1>4, <1>6 DEF IsAll
<1>10. \A j \in 1..k-1 : new[(m + 1) + j] = u.q[Behind(UDP_QLEN, Behind(UDP_QLEN, x, 1), j - 1)]
  BY <1>5, <1>6, <1>7 DEF IsAll
<1>11. \A i \in 1..m : new[i] = all[i]
  <2>1. \A i \in 1..m : i \in 1..m+1
    OBVIOUS
  <2> QED BY <1>4, <1>5, <1>6, <2>1 DEF IsAll
<1>12. new[m + 1] = all[m + 1]
  <2>1. 1 \in 1..k /\ m + 1 \in 1..m+1 /\ 1 - 1 = 0 /\ Behind(UDP_QLEN, x, 0) = x
    BY <1>3 DEF Behind
  <2>2. all[m + 1] = e
    BY <1>1, <1>4, <1>9, <2>1
  <2>3. new[m + 1] = e
    BY <1>5, <1>6, <2>1 DEF IsAll
  <2> QED BY <2>2, <2>3
<1>13. ASSUME NEW j \in 1..k-1 PROVE new[m + (j + 1)] = all[m + (j + 1)]
  <2>1. PICK c \in Nat : c = j - 1 /\ j = 1 + c /\ j \in 0..UDP_QLEN-1
    BY <1>3
  <2>2. Behind(UDP_QLEN, Behind(UDP_QLEN, x, 1), c) = Behind(UDP_QLEN, x, j)
    BY <1>3, <2>1, BehindTwice
  <2>3. j + 1 \in 1..k /\ (j + 1) - 1 = j /\ (m + 1) + j = m + (j + 1)
    BY <1>3
  <2>4. all[m + (j + 1)] = u.q[Behind(UDP_QLEN, x, j)]
    BY <1>9, <2>3
  <2>5. new[m + (j + 1)] = u.q[Behind(UDP_QLEN, Behind(UDP_QLEN, x, 1), c)]
    BY <1>10, <2>1, <2>3
  <2> QED BY <2>2, <2>4, <2>5
<1>14. ASSUME NEW i \in 1..m+k PROVE new[i] = all[i]
  <2>1. CASE i \in 1..m
    BY <1>11, <2>1
  <2>2. CASE i = m + 1
    BY <1>12, <2>2
  <2>3. CASE i - m - 1 \in 1..k-1
    <3>1. PICK j \in 1..k-1 : j = i - m - 1
      BY <2>3
    <3>2. i = m + (j + 1)
      BY <1>3, <3>1
    <3> QED BY <1>13, <3>2
  <2>4. i \in 1..m \/ i = m + 1 \/ i - m - 1 \in 1..k-1
    BY <1>3
  <2> QED BY <2>1, <2>2, <2>3, <2>4
<1>15. new = all
  BY <1>6, <1>8, <1>14 DEF IsAll
<1> QED BY <1>1, <1>2, <1>15

(* The process's socket, when a datagram is for it. *)
LEMMA BoundIsOurs ==
  ASSUME SockInv, udp_sock_bound(Port) # {}
  PROVE  /\ proc.fd \in Fds /\ proc.fd # -1 /\ udp_sock_bound(Port) = {proc.fd}
         /\ Min(udp_sock_bound(Port)) = proc.fd /\ socks[proc.fd].bound
<1>1. PICK s \in Fds : s \in udp_sock_bound(Port)
  BY DEF udp_sock_bound
<1>2. s = proc.fd /\ socks[s].bound /\ s \in Nat
  BY <1>1, UdpAssumption DEF SockInv, udp_sock_bound, Fds
<1>3. udp_sock_bound(Port) = {s}
  BY <1>1, <1>2 DEF SockInv, udp_sock_bound
<1>4. Min({s}) = s
  BY <1>2 DEF Min
<1> QED BY <1>1, <1>2, <1>3, <1>4

(* handle_udp hands a datagram to the socket: it is queued, or dropped when  *)
(* the ring is full.                                                         *)
LEMMA EnqueueInv ==
  ASSUME QueueInv, NEW d \in Dgrams, udp_sock_bound(Port) # {},
         socks' = Handled(Port, d), up' = Append(up, d), UNCHANGED <<proc, got>>
  PROVE  QueueInv'
<1>1. PICK s \in Fds : s = proc.fd /\ s # -1 /\ Min(udp_sock_bound(Port)) = s /\ socks[s].bound
  BY BoundIsOurs DEF QueueInv
<1>2. PICK u \in Socks : u = socks[s]
  BY DEF QueueInv, SockInv
<1>3. socks' = [socks EXCEPT ![s] = enqueue(u, d)]
  BY <1>1, <1>2 DEF Handled
<1>4. PICK v : v = enqueue(u, d)
  OBVIOUS
<1>5. /\ got \in Seq(Readable) /\ up \in Seq(Dgrams) /\ up' \in Seq(Dgrams)
      /\ d \in Readable /\ up \in Seq(Readable) /\ socks \in [Fds -> Socks]
      /\ u.qw = Behind(UDP_QLEN, u.qr, u.qn) /\ u \in Socks
  BY <1>2 DEF QueueInv, SockInv, Readable
<1>6. socks'[s] = v /\ \A t \in Fds : t # s => socks'[t] = socks[t]
  BY <1>3, <1>4, <1>5
<1>7. UDP_QLEN \in Nat \ {0} /\ u.qn \in 0..UDP_QLEN /\ u.qr \in 0..UDP_QLEN-1
  BY UdpAssumption DEF Socks
<1>8. PICK all : all = got \o Queued(u)
  OBVIOUS
<1>9. IsAll(all, got, u)
  BY <1>5, <1>8, AllIs
<1>10. PICK kept : Merge(kept, up, all) /\ (Len(up) <= UDP_QLEN => kept = DOMAIN up)
  BY <1>1, <1>2, <1>8 DEF QueueInv, QueueInOrder, Merge
<1>11. PICK n \in Nat, m \in Nat : n = Len(up) /\ m = Len(got) /\ DOMAIN up = 1..n /\ Len(up') = n + 1
  BY <1>5
<1>12. CASE u.qn >= UDP_QLEN
  <2>1. v = u /\ socks' = socks
    BY <1>2, <1>3, <1>4, <1>5, <1>12 DEF enqueue
  <2>2. SockInv'
    BY <1>1, <1>5, <2>1 DEF QueueInv, SockInv
  <2>3. Merge(kept, up', all)
    <3>1. DOMAIN up' = 1..n+1 /\ \A i \in 1..n : up'[i] = up[i]
      BY <1>5, <1>11
    <3> QED BY <1>10, <1>11, <3>1 DEF Merge
  <2>4. Len(up') > UDP_QLEN
    <3>1. IsFiniteSet(1..n) /\ Cardinality(1..n) = n
      BY FS_Interval
    <3>2. Cardinality(kept) <= n
      BY <1>10, <1>11, <3>1, FS_Subset DEF Merge
    <3>3. Cardinality(kept) = m + u.qn
      BY <1>9, <1>10, <1>11 DEF Merge, IsAll
    <3> QED BY <1>7, <1>11, <1>12, <3>2, <3>3
  <2>5. QueueInOrder'
    <3>1. all = (got \o Queued(socks[proc.fd]))'
      BY <1>1, <1>2, <1>8, <2>1 DEF Queued
    <3>2. ~(Len(up') <= UDP_QLEN)
      BY <1>7, <1>11, <2>4
    <3> QED BY <2>3, <3>1, <3>2 DEF QueueInOrder, Merge
  <2> QED BY <2>2, <2>5 DEF QueueInv
<1>13. CASE u.qn < UDP_QLEN
  <2>1. v = [u EXCEPT !.q[u.qw] = d, !.qw = (u.qw + 1) % UDP_QLEN, !.qn = u.qn + 1]
    BY <1>4, <1>7, <1>13 DEF enqueue
  <2>2. /\ v.qr = u.qr /\ v.qn = u.qn + 1 /\ v.qw = (u.qw + 1) % UDP_QLEN
        /\ v.q = [u.q EXCEPT ![u.qw] = d] /\ v.used = u.used /\ v.bound = u.bound /\ v.port = u.port
    BY <2>1 DEF Socks
  <2>3. /\ v.qw \in 0..UDP_QLEN-1 /\ v.qn \in 0..UDP_QLEN
        /\ v.qw = Behind(UDP_QLEN, u.qr, u.qn + 1)
    <3>1. PICK k \in 0..UDP_QLEN-1, x \in 0..UDP_QLEN-1 : k = u.qn /\ x = u.qr
      BY <1>7, <1>13
    <3>2. PICK w : w = u.qw
      OBVIOUS
    <3>3. w = Behind(UDP_QLEN, x, k)
      BY <1>5, <3>1, <3>2
    <3>4. /\ (w + 1) % UDP_QLEN = Behind(UDP_QLEN, x, k + 1)
          /\ Behind(UDP_QLEN, x, k + 1) \in 0..UDP_QLEN-1 /\ k + 1 \in 0..UDP_QLEN
      BY <1>7, <3>3, SMTT(30) DEF Behind
    <3> QED BY <2>2, <3>1, <3>2, <3>4
  <2>4. v \in Socks
    BY <1>5, <2>1, <2>2, <2>3 DEF Socks
  <2>5. SockInv'
    <3>1. socks' \in [Fds -> Socks]
      BY <1>3, <1>4, <1>5, <2>4
    <3>2. ASSUME NEW t \in Fds
          PROVE  /\ socks'[t].qw = Behind(UDP_QLEN, socks'[t].qr, socks'[t].qn)
                 /\ socks'[t].used => t = proc'.fd
                 /\ ~(t = proc'.fd /\ ~socks'[t].bound)
      <4>1. CASE t = s
        BY <1>1, <1>2, <1>6, <2>2, <2>3, <4>1
      <4>2. CASE t # s
        BY <1>1, <1>6, <4>2 DEF QueueInv, SockInv
      <4> QED BY <4>1, <4>2
    <3> QED BY <1>1, <1>5, <3>1, <3>2 DEF QueueInv, SockInv
  <2>6. PICK new : new = got \o Queued(v)
    OBVIOUS
  <2>7. new = Append(all, d)
    BY <1>5, <1>8, <1>13, <2>2, <2>4, <2>6, QueuedMore
  <2>9. Merge(kept \cup {n + 1}, up', new)
    BY <1>5, <1>9, <1>10, <1>11, <2>7, MergeExtends DEF IsAll
  <2>10. ASSUME Len(up') <= UDP_QLEN PROVE kept \cup {n + 1} = DOMAIN up'
    <3>1. kept = 1..n
      BY <1>7, <1>10, <1>11, <2>10
    <3>2. DOMAIN up' = 1..n+1
      BY <1>5, <1>11
    <3> QED BY <3>1, <3>2
  <2>11. QueueInOrder'
    <3>1. new = (got \o Queued(socks[proc.fd]))'
      BY <1>1, <1>6, <2>6 DEF Queued
    <3> QED BY <2>9, <2>10, <3>1 DEF QueueInOrder, Merge
  <2> QED BY <2>5, <2>11 DEF QueueInv
<1> QED BY <1>7, <1>12, <1>13

-----------------------------------------------------------------------------
(* The steps.                                                                *)

(* A step that touches neither socket nor process. *)
LEMMA QueueSame == QueueInv /\ UNCHANGED <<socks, up, proc, got>> => QueueInv'
<1> SUFFICES ASSUME QueueInv, UNCHANGED <<socks, up, proc, got>> PROVE QueueInv'
  OBVIOUS
<1>1. socks' = socks /\ up' = up /\ proc' = proc /\ got' = got
  OBVIOUS
<1>2. SockInv'
  BY <1>1 DEF QueueInv, SockInv
<1>3. QueueInOrder'
  BY <1>1, ZenonT(60) DEF QueueInv, QueueInOrder, Queued
<1> QED BY <1>2, <1>3 DEF QueueInv

(* handle_udp, whatever the parts are that it gets. *)
LEMMA handle_udp_Queues ==
  ASSUME QueueInv, NEW parts \in [Places -> Fragment \cup {None}], NEW tot \in Nat,
         handle_udp(parts, tot), UNCHANGED <<proc, got>>
  PROVE  QueueInv'
<1> DEFINE skipped == \/ parts[0] = Blank \/ udp_sock_bound(Port) = {}
                      \/ parts[0].d \in Summed /\ ~Intact(parts, tot)
           dgram == [d |-> parts[0].d, intact |-> Intact(parts, tot)]
<1>1. CASE skipped
  <2>1. UNCHANGED <<socks, up, proc, got>>
    BY <1>1 DEF handle_udp
  <2> QED BY <2>1, QueueSame
<1>2. CASE ~skipped
  <2>1. parts[0] \in Fragment /\ parts[0].d \in Datagrams
    BY <1>2, RxAssumption DEF Places, Blank, Fragment
  <2>2. Intact(parts, tot) \in BOOLEAN
    BY DEF Intact
  <2>3. dgram \in Dgrams
    BY <2>1, <2>2 DEF Dgrams
  <2>4. socks' = Handled(Port, dgram) /\ up' = Append(up, dgram) /\ udp_sock_bound(Port) # {}
    BY <1>2 DEF handle_udp
  <2> HIDE DEF dgram
  <2> QED BY <2>3, <2>4, EnqueueInv
<1> QED BY <1>1, <1>2

(* handle_ipv4, and with it the interrupt. *)
LEMMA handle_ipv4_Queues ==
  ASSUME QueueInv, FragInv, NoneComplete, NEW f \in Fragment, handle_ipv4(f), UNCHANGED <<proc, got>>
  PROVE  QueueInv'
<1>1. CASE UNCHANGED <<socks, up>>
  BY <1>1, QueueSame
<1>2. CASE handle_udp([k \in Places |-> f], 1)
  <2>1. PICK parts : parts = [k \in Places |-> f]
    OBVIOUS
  <2>2. parts \in [Places -> Fragment \cup {None}] /\ 1 \in Nat /\ handle_udp(parts, 1)
    BY <1>2, <2>1
  <2> QED BY <2>2, handle_udp_Queues
<1>3. CASE \E s \in SlotOf(f) : handle_udp(Stored(frags[s], f).parts, Stored(frags[s], f).tot)
  <2>1. PICK s \in SlotOf(f) : handle_udp(Stored(frags[s], f).parts, Stored(frags[s], f).tot)
    BY <1>3
  <2>2. PICK F : F = Stored(frags[s], f)
    OBVIOUS
  <2>3. F \in Reassemblies
    BY <2>2, StoredTyped
  <2>4. F.parts \in [Places -> Fragment \cup {None}] /\ F.tot \in Nat
    BY <2>3 DEF Reassemblies
  <2> QED BY <2>1, <2>2, <2>4, handle_udp_Queues
<1> QED BY <1>1, <1>2, <1>3 DEF handle_ipv4

(* An unused socket. *)
LEMMA Sock0Typed == Sock0 \in Socks /\ Sock0.qw = Behind(UDP_QLEN, Sock0.qr, Sock0.qn) /\ ~Sock0.used
<1>1. 0 \in 0..UDP_QLEN-1 /\ 0 \in 0..UDP_QLEN /\ Behind(UDP_QLEN, 0, 0) = 0
  BY UdpAssumption DEF Behind
<1>2. [i \in 0..UDP_QLEN-1 |-> NoDgram] \in [0..UDP_QLEN-1 -> Readable]
  BY DEF Readable
<1> QED BY <1>1, <1>2 DEF Socks, Sock0

(* Nothing has come for the process's socket. *)
NothingYet ==
  /\ up = << >> /\ got = << >>
  /\ \E u \in Socks : u = socks[proc.fd] /\ u.qn = 0
LEMMA NothingInOrder == NothingYet => QueueInOrder
<1> SUFFICES ASSUME NothingYet PROVE QueueInOrder
  OBVIOUS
<1>1. PICK u \in Socks : u = socks[proc.fd] /\ u.qn = 0
  BY DEF NothingYet
<1>2. got \in Seq(Readable) /\ Len(got) = 0 /\ Len(up) = 0 /\ DOMAIN up = {}
  BY DEF NothingYet
<1>3. PICK all : all = got \o Queued(u)
  OBVIOUS
<1>4. IsAll(all, got, u)
  BY <1>2, <1>3, AllIs
<1>5. Len(all) = 0
  BY <1>1, <1>2, <1>4 DEF IsAll
<1>6. Cardinality({}) = 0
  BY FS_EmptySet
<1>7. {} \in SUBSET (DOMAIN up) /\ {} = DOMAIN up
  BY <1>2
<1> QED BY <1>1, <1>3, <1>5, <1>6, <1>7, Zenon DEF QueueInOrder

(* The process opens a socket. *)
LEMMA OpenQueue ==
  ASSUME SockInv, SysUdpSocket
  PROVE  QueueInv'
<1>1. PICK s \in FreeFds : udp_sock_alloc(s) /\ proc' = [fd |-> s, opens |-> proc.opens + 1]
  BY DEF SysUdpSocket
<1>2. /\ s \in Fds /\ s # -1 /\ proc.fd = -1 /\ proc'.fd = s
      /\ up' = << >> /\ got' = << >>
      /\ socks' = [socks EXCEPT ![s] = [Sock0 EXCEPT !.used = TRUE]]
  BY <1>1, UdpAssumption DEF SysUdpSocket, FreeFds, udp_sock_alloc, Fds
<1>3. PICK u : u = [Sock0 EXCEPT !.used = TRUE]
  OBVIOUS
<1>4. u \in Socks /\ u.qw = 0 /\ u.qr = 0 /\ u.qn = 0
  <2>1. 0 \in 0..UDP_QLEN-1 /\ 0 \in 0..UDP_QLEN
    BY UdpAssumption
  <2>2. u = [used |-> TRUE, bound |-> FALSE, port |-> 0, qr |-> 0, qw |-> 0, qn |-> 0,
             q |-> [i \in 0..UDP_QLEN-1 |-> NoDgram]]
    BY <1>3 DEF Sock0
  <2>3. [i \in 0..UDP_QLEN-1 |-> NoDgram] \in [0..UDP_QLEN-1 -> Readable]
    BY DEF Readable
  <2> QED BY <2>1, <2>2, <2>3 DEF Socks
<1>5. 0 = Behind(UDP_QLEN, 0, 0)
  BY UdpAssumption DEF Behind
<1>6. socks'[s] = u /\ \A t \in Fds : t # s => socks'[t] = socks[t] /\ ~socks[t].used
  BY <1>2, <1>3, UdpAssumption DEF SockInv, Fds
<1>7. SockInv'
  <2>1. socks' \in [Fds -> Socks]
    BY <1>2, <1>3, <1>4 DEF SockInv
  <2>2. up' \in Seq(Dgrams) /\ got' \in Seq(Readable)
    BY <1>2
  <2>3. ASSUME NEW t \in Fds
        PROVE  /\ socks'[t].qw = Behind(UDP_QLEN, socks'[t].qr, socks'[t].qn)
               /\ socks'[t].used => t = proc'.fd
               /\ t = proc'.fd => socks'[t].qn = 0
    BY <1>2, <1>4, <1>5, <1>6 DEF SockInv
  <2> QED BY <1>2, <2>1, <2>2, <2>3 DEF SockInv
<1>8. QueueInOrder'
  <2>1. NothingYet'
    BY <1>2, <1>4, <1>6 DEF NothingYet
  <2> QED BY <2>1, NothingInOrder, PTL
<1> QED BY <1>7, <1>8 DEF QueueInv

(* It binds the socket, which empties its ring; nothing had come. *)
LEMMA BindQueue ==
  ASSUME QueueInv, SysUdpBind
  PROVE  QueueInv'
<1>1. PICK s \in Fds : s = proc.fd
  BY DEF QueueInv, SockInv, SysUdpBind
<1>2. /\ s # -1 /\ ~socks[s].bound /\ socks[s] \in Socks /\ socks \in [Fds -> Socks]
      /\ socks' = [socks EXCEPT ![s] = Bound(socks[s], Port)]
      /\ UNCHANGED <<proc, up, got>>
  BY <1>1 DEF QueueInv, SockInv, SysUdpBind, CanBind
<1>3. PICK u : u = Bound(socks[s], Port)
  OBVIOUS
<1>4. u \in Socks /\ u.qw = 0 /\ u.qr = 0 /\ u.qn = 0 /\ u.bound
  <2>1. 0 \in 0..UDP_QLEN-1 /\ 0 \in 0..UDP_QLEN /\ Port \in Int
    BY UdpAssumption DEF Port
  <2>2. PICK v \in Socks : v = socks[s]
    BY <1>2
  <2>3. u = [v EXCEPT !.bound = TRUE, !.port = Port, !.qn = 0, !.qr = 0, !.qw = 0]
    BY <1>3, <2>2 DEF Bound
  <2> QED BY <2>1, <2>3 DEF Socks
<1>5. 0 = Behind(UDP_QLEN, 0, 0)
  BY UdpAssumption DEF Behind
<1>6. socks'[s] = u /\ \A t \in Fds : t # s => socks'[t] = socks[t]
  BY <1>2, <1>3
<1>7. up = << >> /\ got = << >>
  BY <1>1, <1>2 DEF QueueInv, SockInv
<1>8. SockInv'
  <2>1. socks' \in [Fds -> Socks]
    BY <1>2, <1>3, <1>4
  <2>2. ASSUME NEW t \in Fds
        PROVE  /\ socks'[t].qw = Behind(UDP_QLEN, socks'[t].qr, socks'[t].qn)
               /\ socks'[t].used => t = proc'.fd
               /\ t = proc'.fd => socks'[t].qn = 0
    BY <1>1, <1>2, <1>4, <1>5, <1>6 DEF QueueInv, SockInv
  <2> QED BY <1>2, <1>7, <2>1, <2>2 DEF QueueInv, SockInv
<1>9. QueueInOrder'
  <2>1. NothingYet'
    BY <1>1, <1>2, <1>4, <1>6, <1>7 DEF NothingYet
  <2> QED BY <2>1, NothingInOrder, PTL
<1> QED BY <1>8, <1>9 DEF QueueInv

(* It reads a datagram. *)
LEMMA ReadQueue ==
  ASSUME QueueInv, SysUdpRecvFrom
  PROVE  QueueInv'
<1>1. PICK s \in Fds : s = proc.fd /\ s # -1
  BY DEF QueueInv, SockInv, SysUdpRecvFrom
<1>2. PICK u \in Socks : u = socks[s]
  BY DEF QueueInv, SockInv
<1>3. PICK v : v = Counted(Taken(u), u.qn)
  OBVIOUS
<1>4. /\ socks \in [Fds -> Socks] /\ socks' = [socks EXCEPT ![s] = v]
      /\ UNCHANGED <<proc, up>> /\ got' = Append(got, u.q[u.qr]) /\ u.qn > 0
      /\ u.qw = Behind(UDP_QLEN, u.qr, u.qn) /\ got \in Seq(Readable)
  BY <1>1, <1>2, <1>3 DEF QueueInv, SockInv, SysUdpRecvFrom
<1>5. /\ v.qr = (u.qr + 1) % UDP_QLEN /\ v.qn = u.qn - 1 /\ v.q = u.q /\ v.qw = u.qw
      /\ v.used = u.used /\ v.bound = u.bound /\ v.port = u.port
      /\ v = [u EXCEPT !.qr = (u.qr + 1) % UDP_QLEN, !.qn = u.qn - 1]
  BY <1>3 DEF Counted, Taken, Socks
<1>6. /\ v.qr = Behind(UDP_QLEN, u.qr, 1) /\ v.qr \in 0..UDP_QLEN-1 /\ v.qn \in 0..UDP_QLEN
      /\ v.qw = Behind(UDP_QLEN, v.qr, v.qn)
  <2>1. UDP_QLEN \in Nat \ {0}
    BY UdpAssumption
  <2>2. PICK k \in 1..UDP_QLEN, x \in 0..UDP_QLEN-1 : k = u.qn /\ x = u.qr
    BY <1>4, <2>1 DEF Socks
  <2>3. /\ (x + 1) % UDP_QLEN = Behind(UDP_QLEN, x, 1)
        /\ Behind(UDP_QLEN, x, 1) \in 0..UDP_QLEN-1
    BY <2>1 DEF Behind
  <2>4. k - 1 \in 0..UDP_QLEN
    BY <2>1
  <2>5. Behind(UDP_QLEN, Behind(UDP_QLEN, x, 1), k - 1) = Behind(UDP_QLEN, x, k)
    BY <2>1 DEF Behind
  <2> QED BY <1>4, <1>5, <2>2, <2>3, <2>4, <2>5
<1>7. v \in Socks
  BY <1>5, <1>6 DEF Socks
<1>8. socks'[s] = v /\ \A t \in Fds : t # s => socks'[t] = socks[t]
  BY <1>4
<1>9. SockInv'
  <2>1. socks' \in [Fds -> Socks]
    BY <1>4, <1>7
  <2>2. got' \in Seq(Readable) /\ up' \in Seq(Dgrams)
    <3>1. u.q[u.qr] \in Readable
      BY DEF Socks
    <3> QED BY <1>4, <3>1 DEF QueueInv, SockInv
  <2>3. ASSUME NEW t \in Fds
        PROVE  /\ socks'[t].qw = Behind(UDP_QLEN, socks'[t].qr, socks'[t].qn)
               /\ socks'[t].used => t = proc'.fd
               /\ ~(t = proc'.fd /\ ~socks'[t].bound)
    <3>1. u.bound
      <4>1. u.qn # 0
        BY <1>4 DEF Socks
      <4> QED BY <1>1, <1>2, <4>1 DEF QueueInv, SockInv
    <3>2. CASE t = s
      BY <1>1, <1>2, <1>4, <1>5, <1>6, <1>8, <3>1, <3>2
    <3>3. CASE t # s
      BY <1>1, <1>4, <1>8, <3>3 DEF QueueInv, SockInv
    <3> QED BY <3>2, <3>3
  <2> QED BY <1>4, <2>1, <2>2, <2>3 DEF QueueInv, SockInv
<1>10. QueueInOrder'
  <2>1. got' \o Queued(v) = got \o Queued(u)
    BY <1>4, <1>5, <1>6, <1>7, QueuedLess
  <2>2. (got \o Queued(socks[proc.fd]))' = got' \o Queued(v)
    BY <1>1, <1>4, <1>8 DEF Queued
  <2>3. PICK all : all = got \o Queued(u)
    OBVIOUS
  <2>4. PICK kept : Merge(kept, up, all) /\ (Len(up) <= UDP_QLEN => kept = DOMAIN up)
    BY <1>1, <1>2, <2>3 DEF QueueInv, QueueInOrder, Merge
  <2>5. (got \o Queued(socks[proc.fd]))' = all /\ up' = up
    BY <1>4, <2>1, <2>2, <2>3
  <2> QED BY <2>4, <2>5 DEF QueueInOrder, Merge
<1> QED BY <1>9, <1>10 DEF QueueInv

(* It closes the socket. *)
LEMMA CloseQueue ==
  ASSUME QueueInv, SysUdpClose
  PROVE  QueueInv'
<1>1. PICK s \in Fds : s = proc.fd /\ s # -1
  BY DEF QueueInv, SockInv, SysUdpClose
<1>2. /\ socks \in [Fds -> Socks] /\ socks' = [socks EXCEPT ![s] = Sock0]
      /\ proc'.fd = -1 /\ up' = << >> /\ got' = << >> /\ -1 \notin Fds
  BY <1>1, UdpAssumption DEF QueueInv, SockInv, SysUdpClose, Closed, Fds
<1>3. Sock0 \in Socks /\ Sock0.qw = Behind(UDP_QLEN, Sock0.qr, Sock0.qn) /\ ~Sock0.used
  BY Sock0Typed
<1>4. SockInv'
  <2>1. socks' \in [Fds -> Socks]
    BY <1>2, <1>3
  <2>2. ASSUME NEW t \in Fds
        PROVE  /\ socks'[t].qw = Behind(UDP_QLEN, socks'[t].qr, socks'[t].qn)
               /\ ~socks'[t].used
    <3>1. CASE t = s
      BY <1>2, <1>3, <3>1
    <3>2. CASE t # s
      BY <1>1, <1>2, <3>2 DEF QueueInv, SockInv
    <3> QED BY <3>1, <3>2
  <2>3. up' \in Seq(Dgrams) /\ got' \in Seq(Readable)
    BY <1>2
  <2> QED BY <1>2, <2>1, <2>2, <2>3 DEF SockInv
<1> QED BY <1>2, <1>4 DEF QueueInv, QueueInOrder

-----------------------------------------------------------------------------
(* At the start there is no socket. *)
LEMMA Init_QueueInv == Init => QueueInv
<1> SUFFICES ASSUME Init PROVE QueueInv
  OBVIOUS
<1>1. socks = [s \in Fds |-> Sock0] /\ proc.fd = -1 /\ up = << >> /\ got = << >> /\ -1 \notin Fds
  BY UdpAssumption DEF Init, Fds
<1>2. up \in Seq(Dgrams) /\ got \in Seq(Readable)
  BY <1>1
<1>3. SockInv
  BY <1>1, <1>2, Sock0Typed DEF SockInv
<1> QED BY <1>1, <1>3 DEF QueueInv, QueueInOrder

(* Every step keeps the queue. *)
LEMMA QueueInvStep == RxInv /\ QueueInv /\ [Next]_vars => QueueInv'
<1> SUFFICES ASSUME RxInv, QueueInv, [Next]_vars PROVE QueueInv'
  OBVIOUS
<1>1. CASE UNCHANGED <<socks, up, proc, got>>
  BY <1>1, QueueSame
<1>2. CASE Handle
  <2>1. Given \in Fragment \cup {None} /\ UNCHANGED <<proc, got>>
    BY <1>2, GivenTyped DEF Handle, RxInv
  <2>2. CASE UNCHANGED stackVars
    BY <1>1, <2>1, <2>2 DEF stackVars
  <2>3. CASE \E f \in {Given} \ {None} : handle_ipv4(f) /\ InOrder(f)
    <3>1. PICK f \in {Given} \ {None} : handle_ipv4(f)
      BY <2>3
    <3>2. f \in Fragment
      BY <2>1
    <3> QED BY <2>1, <3>1, <3>2, handle_ipv4_Queues DEF RxInv, StackInv
  <2> QED BY <1>2, <2>2, <2>3 DEF Handle
<1>3. CASE Process
  BY <1>3, OpenQueue, BindQueue, ReadQueue, CloseQueue DEF Process, QueueInv
<1> QED BY <1>1, <1>2, <1>3 DEF Next, Air, Card, Interrupt, Return, frag_expiry_poll, vars, stackVars

(* A fragment is counted up to its end, which is in the buffer. *)
LEMMA StoredFits ==
  ASSUME NEW F \in Reassemblies, F.got <= BufSize, NEW f \in Fragment
  PROVE  Stored(F, f).got <= BufSize /\ ipf_clear(Stored(F, f)).got <= BufSize
<1>1. PICK n \in Nat, k \in Nat : n = F.got /\ k = f.k /\ k + 1 <= BufSize /\ BufSize \in Nat \ {0}
  BY RxAssumption DEF Reassemblies, Fragment, Places
<1>2. Max({n, k + 1}) <= BufSize /\ Max({0, k + 1}) <= BufSize
  BY <1>1, MaxOfTwo
<1>3. Stored(F, f).got = (IF f.k = 0 THEN Max({0, k + 1}) ELSE Max({n, k + 1}))
  BY <1>1 DEF Stored, Reassemblies
<1>4. ipf_clear(Stored(F, f)).got = 0
  BY DEF ipf_clear, Stored, Reassemblies
<1> QED BY <1>1, <1>2, <1>3, <1>4

(* Every step counts within the buffer. *)
LEMMA BufInvStep == RxInv /\ BufInv /\ [Next]_vars => BufInv'
<1> SUFFICES ASSUME RxInv, BufInv, [Next]_vars PROVE BufInv'
  OBVIOUS
<1> USE DEF BufInv
<1>1. CASE UNCHANGED frags
  BY <1>1
<1>2. BufSize \in Nat /\ frags \in [Slots -> Reassemblies]
  BY RxAssumption DEF RxInv, StackInv, FragInv
<1>3. CASE frag_expiry_poll
  <2>1. \A s \in Slots : frags'[s] = ipf_clear(frags[s]) /\ frags[s] \in Reassemblies
    BY <1>2, <1>3 DEF frag_expiry_poll
  <2>2. \A s \in Slots : frags'[s].got = 0
    BY <2>1 DEF ipf_clear, Reassemblies
  <2> QED BY <1>2, <2>2
<1>4. CASE Handle
  <2>1. Given \in Fragment \cup {None}
    BY <1>4, GivenTyped DEF Handle, RxInv
  <2>2. CASE \E f \in {Given} \ {None} : \E s \in SlotOf(f) :
               \/ frags' = [frags EXCEPT ![s] = Stored(frags[s], f)]
               \/ frags' = [frags EXCEPT ![s] = ipf_clear(Stored(frags[s], f))]
    <3>1. PICK f \in {Given} \ {None} : \E s \in SlotOf(f) :
               \/ frags' = [frags EXCEPT ![s] = Stored(frags[s], f)]
               \/ frags' = [frags EXCEPT ![s] = ipf_clear(Stored(frags[s], f))]
      BY <2>2
    <3>2. PICK s \in SlotOf(f) :
               \/ frags' = [frags EXCEPT ![s] = Stored(frags[s], f)]
               \/ frags' = [frags EXCEPT ![s] = ipf_clear(Stored(frags[s], f))]
      BY <3>1
    <3>3. f \in Fragment /\ s \in Slots
      BY <2>1, SlotOfGood
    <3>4. frags[s] \in Reassemblies /\ frags[s].got <= BufSize
      BY <1>2, <3>3
    <3>5. Stored(frags[s], f).got <= BufSize /\ ipf_clear(Stored(frags[s], f)).got <= BufSize
      BY <3>3, <3>4, StoredFits
    <3>6. /\ frags'[s] \in {Stored(frags[s], f), ipf_clear(Stored(frags[s], f))}
          /\ \A t \in Slots : t # s => frags'[t] = frags[t]
      BY <1>2, <3>2, <3>3
    <3> QED BY <3>5, <3>6
  <2> QED BY <1>1, <1>4, <2>2 DEF Handle, handle_ipv4, stackVars
<1> QED BY <1>1, <1>3, <1>4 DEF Next, Air, Card, Interrupt, Return, Handle, Process, vars, stackVars

(* The process reads the datagrams that handle_udp had for its socket in     *)
(* their order, each once (net_udp_recv_from, SYS_UDP_RECVFROM), and misses  *)
(* one only if the ring may have been full: for rings of any length, any     *)
(* number of sockets and any faults of the air.                              *)
THEOREM QueueOrder == Spec => []QueueInOrder
<1>1. Init => RxInv /\ QueueInv
  BY Init_RxInv, Init_QueueInv
<1>2. RxInv /\ QueueInv /\ [Next]_vars => (RxInv /\ QueueInv)'
  BY CardInvStep, StackInvStep, QueueInvStep DEF RxInv
<1>3. QueueInv => QueueInOrder
  BY DEF QueueInv
<1> QED BY <1>1, <1>2, <1>3, PTL DEF Spec

(* The counts and indices of both rings, of the reassembly and of the        *)
(* sockets' queues stay in their arrays, for arrays of any size.             *)
THEOREM RxTypes == Spec => []TypeOK
<1> DEFINE Inv == RxInv /\ RingInv /\ QueueInv /\ BufInv
<1>1. Init => Inv
  <2>1. Init => BufInv
    BY RxAssumption DEF Init, BufInv, NoFrag
  <2> QED BY <2>1, Init_RxInv, Init_RingInv, Init_QueueInv
<1>2. Inv /\ [Next]_vars => Inv'
  BY CardInvStep, StackInvStep, RingInvStep, QueueInvStep, BufInvStep DEF RxInv
<1>3. Inv => TypeOK
  <2> SUFFICES ASSUME Inv PROVE TypeOK
    OBVIOUS
  <2>1. \A s \in Fds : socks[s].qn \in 0..UDP_QLEN /\ {socks[s].qr, socks[s].qw} \subseteq 0..UDP_QLEN-1
    BY DEF QueueInv, SockInv, Socks
  <2>2. \A s \in Slots : {frags[s].got, frags[s].tot} \subseteq 0..BufSize
    BY RxAssumption DEF RxInv, StackInv, FragInv, NoneComplete, Reassemblies, BufInv
  <2>3. {e1000.rx_next, e1000.rdh, e1000.rdt} \subseteq 0..RX_SLOTS-1
    BY DEF RxInv, CardInv, E1000Inv, Indices
  <2>4. {rtl.rx_cur, rtl.cbr, rtl.capr} \subseteq 0..RX_WORDS-1
    BY DEF RxInv, CardInv, RtlInv, Words
  <2>5. irq.pc \in {"out", "e1000", "rtl8139", "wild"}
    BY DEF RingInv, IrqInv
  <2> QED BY <2>1, <2>2, <2>3, <2>4, <2>5 DEF TypeOK
<1> QED BY <1>1, <1>2, <1>3, PTL DEF Spec
=============================================================================
