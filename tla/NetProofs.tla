----------------------------- MODULE NetProofs -----------------------------
(* That the answers the network stack waits for are not mixed up: what a     *)
(* resolution returns (NeighboursTrue), who answered a ping (PingMatches),   *)
(* what a lease is made of (LeaseMatches) and what the DNS cache says        *)
(* (DnsTrue), for any hosts, any caches, any scripts and any number of       *)
(* events that come unasked.                                                 *)
EXTENDS Net, LeastNumbers, FiniteSetTheorems

(* Shapes of the records; what addresses are is left open.                   *)
Waiter(w) ==
  w = [cache |-> w.cache, waiting |-> w.waiting, done |-> w.done, want |-> w.want, reply |-> w.reply]
Resolver(r) == r = [st |-> r.st, ip |-> r.ip, mac |-> r.mac, sure |-> r.sure]
Resolver6(r) ==
  /\ r = [st |-> r.st, ip |-> r.ip, mac |-> r.mac, sure |-> r.sure, try |-> r.try]
  /\ r.st \in {"idle", "sent", "wait", "ok", "fail"} /\ r.try \in 0..NS_TRIES
ShellShape ==
  sh = [pc |-> sh.pc, arg |-> sh.arg, id |-> sh.id, hop |-> sh.hop, try |-> sh.try, name |-> sh.name,
        dgram |-> sh.dgram, n |-> sh.n, again |-> sh.again]

-----------------------------------------------------------------------------
(* Neighbours: a reply that is taken is that of the address wanted, and what *)
(* is wanted is what the last caller to arm the waiter asks for.             *)
True(e) == e.sure \in BOOLEAN /\ (e.sure => e.mac = e.ip)
CacheTrue(cache) == cache = [i \in 1..NCACHE |-> cache[i]] /\ \A i \in 1..NCACHE : True(cache[i])
WaiterTrue(w) == Waiter(w) /\ CacheTrue(w.cache) /\ (w.done => w.reply = w.want)
ArpInv ==
  /\ WaiterTrue(arp)
  /\ rs = [c \in Callers |-> rs[c]]
  /\ \A c \in Callers :
       /\ Resolver(rs[c]) /\ rs[c].st \in {"idle", "sent", "wait", "woken", "ok", "fail"} /\ rs[c].sure \in BOOLEAN
       /\ rs[c].st \in {"wait", "woken"} /\ rs[c].sure => arp.want = rs[c].ip
       /\ rs[c].st = "ok" => True(rs[c])
NdInv ==
  /\ WaiterTrue(nd)
  /\ Resolver6(rs6)
  /\ rs6.st = "wait" => nd.want = rs6.ip
  /\ rs6.st = "ok" => True(rs6)

(* Pings: the replies to the last echo request are on the wire from the host *)
(* it went to.                                                               *)
PingInv ==
  /\ ShellShape
  /\ ping = [active |-> ping.active, done |-> ping.done, ident |-> ping.ident, src |-> ping.src]
  /\ ping.ident \in Nat
  /\ \A m \in wire : m.k = "echo" => m.id \in 0..ping.ident
  /\ sh.pc = "p_wait" =>
       /\ \A m \in wire : m.k = "echo" /\ m.id = ping.ident => m.src = sh.arg
       /\ ping.done => ping.src = sh.arg
  /\ ping6 = [active |-> ping6.active, done |-> ping6.done, ident |-> ping6.ident, want |-> ping6.want, src |-> ping6.src]
  /\ ping6.done => ping6.src = ping6.want
  /\ sh.pc \in {"6_nd", "6_wait"} => ping6.want = sh.arg

(* Leases: the client waits for the answer to its transaction; an OFFER is   *)
(* of one server, and an ACK of the last transaction is for the lease of     *)
(* dhcp.offer, for nobody takes another in between.                          *)
OfServer(ip, gw, ns) == gw = ip[1] /\ ns = ip[1] /\ gw # None
DhcpMessage(m, tx) ==
  /\ m.tx \in 0..tx
  /\ m.type \in {"OFFER", "ACK", "NAK"}
  /\ m.type = "OFFER" => OfServer(m.ip, m.gw, m.ns)
  /\ m.type = "ACK" => m.gw \in {m.ip[1], None} /\ m.ns \in {m.ip[1], None}
LeaseShape ==
  /\ dhcp = [waiting |-> dhcp.waiting, done |-> dhcp.done, txid |-> dhcp.txid, phase |-> dhcp.phase,
             nak |-> dhcp.nak, offer |-> dhcp.offer, leased |-> dhcp.leased]
  /\ dhcp.offer = [ip |-> dhcp.offer.ip, gw |-> dhcp.offer.gw, ns |-> dhcp.offer.ns, tx |-> dhcp.offer.tx]
  /\ ifc = [ip |-> ifc.ip, gw |-> ifc.gw, ns |-> ifc.ns, tx |-> ifc.tx, asked |-> ifc.asked]
  /\ cnt = [tx |-> cnt.tx, id |-> cnt.id, events |-> cnt.events]
(* The ACKs that may be taken, or may once the shell is in net_dhcp_renew. *)
Renewing == dhcp.phase = 3 \/ sh.pc = "r_begin"
Acknowledged(m) == m.type = "ACK" /\ m.tx = dhcp.txid => m.ip = dhcp.offer.ip /\ m.ip # None
LeaseWire ==
  /\ cnt.tx \in Nat /\ dhcp.txid \in 0..cnt.tx
  /\ \A m \in wire : m.k = "dhcp" => DhcpMessage(m, cnt.tx)
  /\ Renewing => \A m \in wire : m.k = "dhcp" => Acknowledged(m)
  /\ dhcp.offer.ip # None => OfServer(dhcp.offer.ip, dhcp.offer.gw, dhcp.offer.ns)
LeaseClient ==
  /\ dhcp.waiting => sh.pc \in {"d_arp", "d_wait", "r_arp", "r_wait"}
  /\ sh.pc \in {"d_arp", "d_wait"} => dhcp.waiting /\ dhcp.phase = 1
  /\ sh.pc \in {"r_arp", "r_wait"} => dhcp.waiting /\ dhcp.phase = 3
  /\ sh.pc \in {"d_arp", "d_wait", "r_arp", "r_wait"} => dhcp.txid = sh.id
  /\ sh.pc \in {"d_arp", "d_wait", "d_adopt", "r_arp", "r_wait", "r_end"} /\ dhcp.done /\ ~dhcp.nak =>
       dhcp.offer.tx = sh.id /\ OfServer(dhcp.offer.ip, dhcp.offer.gw, dhcp.offer.ns)
  /\ sh.pc \in {"d_arp", "d_wait", "d_adopt"} => ~dhcp.nak
  /\ sh.pc = "d_rest" =>
       /\ ifc.tx = ifc.asked /\ ifc.ip = dhcp.offer.ip
       /\ OfServer(dhcp.offer.ip, dhcp.offer.gw, dhcp.offer.ns)
LeaseInv == ShellShape /\ LeaseShape /\ LeaseWire /\ LeaseClient /\ LeaseMatches

(* Names: f follows the zone from a name.  The answers that may still have   *)
(* the id of the query are those of the names on the way so far.             *)
Follows(f, x) == f = [i \in 0..HOPS-1 |-> IF i = 0 THEN x ELSE Zone1(f[i - 1]).v]
Chain(x) == CHOOSE f : Follows(f, x)
OnTheWay(a, x, hop) == a = NoAnswer \/ \E j \in 0..hop : a = Zone1(Chain(x)[j])
AskPc == {"q_send", "q_arp", "q_wait", "q_got"}
Awaits(s, id) == s.pc \in AskPc /\ id = s.id /\ (s.pc # "q_send" \/ s.again)
Good(s, d) == Awaits(s, d.id) => OnTheWay(d.ans, s.arg, s.hop)
RingPlaces == 0..UDP_QLEN-1
SockShape(u) ==
  /\ u = [used |-> u.used, bound |-> u.bound, port |-> u.port, qr |-> u.qr, qw |-> u.qw, qn |-> u.qn, q |-> u.q]
  /\ u.qr \in RingPlaces /\ u.qw \in RingPlaces /\ u.qn \in 0..UDP_QLEN
  /\ u.q = [i \in RingPlaces |-> u.q[i]]
SocksInv ==
  /\ socks = [s \in Fds |-> socks[s]] /\ \A s \in Fds : SockShape(socks[s])
  /\ sh.pc = "q_got" => sh.n \in 1..UDP_QLEN
DnsIds ==
  /\ cnt = [tx |-> cnt.tx, id |-> cnt.id, events |-> cnt.events] /\ cnt.id \in Nat
  /\ \A m \in wire : m.k = "dns" => m.id \in 0..cnt.id
  /\ sh.pc \in AskPc =>
       /\ sh.id \in 0..cnt.id
       /\ \A i \in RingPlaces : socks[Fd].q[i].id \in 0..cnt.id
  /\ sh.pc = "q_got" => sh.dgram.id \in 0..cnt.id
DnsWay ==
  /\ sh.hop \in 0..HOPS-1
  /\ sh.name = Junk \/ \E j \in 0..sh.hop : sh.name = Chain(sh.arg)[j]
  /\ \A i \in RingPlaces : Good(sh, socks[Fd].q[i])
  /\ sh.pc = "q_got" => Good(sh, sh.dgram)
DnsInv ==
  /\ ShellShape /\ SocksInv /\ DnsIds
  /\ \A m \in wire : m.k = "dns" => Good(sh, m)
  /\ sh.pc \in AskPc => DnsWay
  /\ DnsTrue

-----------------------------------------------------------------------------
(* The caches.                                                               *)

(* An entry that tells the truth is stored or learned. *)
LEMMA StoreTrue ==
  ASSUME NEW cache, CacheTrue(cache), NEW e, True(e)
  PROVE  CacheTrue(store(cache, e)) /\ CacheTrue(learn(cache, e))
<1>1. ASSUME NEW k PROVE CacheTrue([cache EXCEPT ![k] = e])
  BY DEF CacheTrue, True
<1> QED BY <1>1 DEF store, learn

(* An empty cache tells no lies, and forgetting an entry adds none. *)
LEMMA ForgetTrue ==
  /\ CacheTrue(EmptyCache)
  /\ \A cache : CacheTrue(cache) => \A i : CacheTrue([cache EXCEPT ![i] = NoEntry])
BY DEF CacheTrue, True, EmptyCache, NoEntry

(* The entry that a look-up finds. *)
LEMMA HitTrue ==
  ASSUME NEW cache, CacheTrue(cache), NEW ip, Hits(cache, ip) # {}
  PROVE  LET e == cache[Min(Hits(cache, ip))] IN e.ip = ip /\ True(e)
<1>1. Hits(cache, ip) \in SUBSET Nat
  BY NeighAssumption DEF Hits
<1>2. Min(Hits(cache, ip)) \in Hits(cache, ip)
  BY <1>1, MinIsLeast
<1> QED BY <1>2 DEF Hits, CacheTrue

-----------------------------------------------------------------------------
(* arp_resolve and what it shares with the interrupts.                       *)
ArpOps ==
  \/ \E c \in Callers : \E ip : ResolveBegin(c, ip) /\ UNCHANGED arp
  \/ \E c \in Callers : ResolveArm(c) \/ ResolveStop(c) \/ ResolveEnd(c)
  \/ \E c \in Callers : EndResolve(c) /\ UNCHANGED arp
  \/ rs' = [rs EXCEPT !["sh"] = [NotResolving EXCEPT !.st = "ok", !.ip = All, !.mac = All]] /\ UNCHANGED arp
  \/ \E m : (handle_arp(m) \/ Learned(m)) /\ UNCHANGED rs
  \/ arp' = [arp EXCEPT !.cache = EmptyCache] /\ UNCHANGED rs
  \/ arp_aging_poll
  \/ UNCHANGED <<arp, rs>>

(* What every step does to the ARP cache, its waiter and its callers is one  *)
(* of these.                                                                 *)
LEMMA NextArpOps == [Next]_vars => ArpOps
<1> SUFFICES ASSUME [Next]_vars PROVE ArpOps
  OBVIOUS
<1> USE NetAssumption DEF ArpOps
<1>1. CASE Resolving("sh") \/ Resolving("pr")
  BY <1>1 DEF Resolving
<1>2. CASE PingStart \/ ProcSend \/ DnsSend \/ RenewSend
  BY <1>2 DEF PingStart, ProcSend, DnsSend, RenewSend
<1>3. CASE PingSend \/ ProcSent \/ DnsSent \/ RenewSent \/ Discovered
  BY <1>3 DEF PingSend, ProcSent, DnsSent, RenewSent, Discovered
<1>4. CASE Discover
  BY <1>4 DEF Discover, ResolveBroadcast
<1>5. CASE Deliver \/ DeliverCopy
  BY <1>5 DEF Deliver, DeliverCopy, net_handle_eth
<1>6. CASE NeighbourAsks \/ Aging
  BY <1>6 DEF NeighbourAsks, Aging, nd6_aging_poll
<1>7. CASE BootInit \/ AdoptRest
  BY <1>7 DEF BootInit, AdoptRest
<1>8. CASE \/ Resolving6 \/ Ping6Start \/ Ping6Send \/ PingEnd \/ Ping6End \/ DhcpStart \/ NoOffer \/ GotOffer
           \/ Adopt \/ RenewStart \/ RenewStop \/ RenewEnd \/ DnsStart \/ DnsTake \/ DnsGot \/ DnsTimeout
  BY <1>8 DEF Resolving6, Ping6Start, Ping6Send, PingEnd, Ping6End, DhcpStart, NoOffer, GotOffer, Adopt,
              RenewStart, RenewStop, RenewEnd, DnsStart, DnsTake, DnsGot, DnsTimeout, neighVars
<1>9. CASE Redirect \/ RedirExpire \/ DnsExpire \/ dhcp_auto_poll \/ Solicitation \/ UNCHANGED vars
  BY <1>9 DEF Redirect, RedirExpire, DnsExpire, dhcp_auto_poll, Solicitation, ip6_slaac_poll, neighVars, vars
<1> QED BY <1>1, <1>2, <1>3, <1>4, <1>5, <1>6, <1>7, <1>8, <1>9 DEF Next, Shell, Process, Interrupts, Event

(* The part of ArpInv about one caller. *)
CallerTrue(r, want) ==
  /\ Resolver(r) /\ r.st \in {"idle", "sent", "wait", "woken", "ok", "fail"} /\ r.sure \in BOOLEAN
  /\ r.st \in {"wait", "woken"} /\ r.sure => want = r.ip
  /\ r.st = "ok" => True(r)

(* Each of them keeps the caches and the resolutions true. *)
LEMMA ArpInvOps == ArpInv /\ ArpOps => ArpInv'
<1> SUFFICES ASSUME ArpInv, ArpOps PROVE ArpInv'
  OBVIOUS
<1>1. WaiterTrue(arp) /\ rs = [c \in Callers |-> rs[c]] /\ \A c \in Callers : CallerTrue(rs[c], arp.want)
  BY DEF ArpInv, CallerTrue
<1>2. SUFFICES /\ WaiterTrue(arp') /\ rs' = [c \in Callers |-> rs'[c]]
               /\ \A c \in Callers : CallerTrue(rs'[c], arp'.want)
  BY DEF ArpInv, CallerTrue, WaiterTrue, Waiter, CacheTrue, Resolver, True
(* One caller changes. *)
<1>3. ASSUME NEW c \in Callers, NEW r, CallerTrue(r, arp.want), rs' = [rs EXCEPT ![c] = r], UNCHANGED arp
      PROVE  /\ WaiterTrue(arp') /\ rs' = [d \in Callers |-> rs'[d]]
             /\ \A d \in Callers : CallerTrue(rs'[d], arp'.want)
  BY <1>1, <1>3
(* Only the cache changes. *)
<1>4. ASSUME NEW cache, CacheTrue(cache), arp' = [arp EXCEPT !.cache = cache]
      PROVE  WaiterTrue(arp') /\ arp'.want = arp.want
  BY <1>1, <1>4 DEF WaiterTrue, Waiter
<1>5. CASE \E c \in Callers : \E ip : ResolveBegin(c, ip) /\ UNCHANGED arp
  <2>1. PICK c \in Callers : \E ip : ResolveBegin(c, ip) /\ UNCHANGED arp
    BY <1>5
  <2>2. PICK ip : ResolveBegin(c, ip) /\ UNCHANGED arp
    BY <2>1
  <2>3. CASE Hits(arp.cache, ip) # {}
    <3>1. PICK e : e = arp.cache[Min(Hits(arp.cache, ip))]
      OBVIOUS
    <3>2. e.ip = ip /\ True(e)
      BY <1>1, <2>3, <3>1, HitTrue DEF WaiterTrue
    <3>3. PICK r : r = [st |-> "ok", ip |-> ip, mac |-> e.mac, sure |-> e.sure]
      OBVIOUS
    <3>4. CallerTrue(r, arp.want) /\ rs' = [rs EXCEPT ![c] = r]
      BY <2>2, <2>3, <3>1, <3>2, <3>3 DEF ResolveBegin, CallerTrue, Resolver, True
    <3> QED BY <1>3, <2>2, <3>4
  <2>4. CASE Hits(arp.cache, ip) = {}
    <3>1. PICK r : r = [NotResolving EXCEPT !.st = "sent", !.ip = ip]
      OBVIOUS
    <3>2. CallerTrue(r, arp.want) /\ rs' = [rs EXCEPT ![c] = r]
      BY <2>2, <2>4, <3>1 DEF ResolveBegin, CallerTrue, Resolver, NotResolving
    <3> QED BY <1>3, <2>2, <3>2
  <2> QED BY <2>3, <2>4
<1>6. CASE \E c \in Callers : ResolveArm(c)
  <2>1. PICK c \in Callers : ResolveArm(c)
    BY <1>6
  <2>2. WaiterTrue(arp') /\ arp'.want = rs[c].ip
    BY <1>1, <2>1 DEF ResolveArm, WaiterTrue, Waiter
  <2>3. CallerTrue(rs'[c], arp'.want)
    BY <1>1, <2>1, <2>2 DEF ResolveArm, CallerTrue, Resolver
  <2>4. ASSUME NEW d \in Callers, d # c PROVE CallerTrue(rs'[d], arp'.want)
    <3>1. CASE rs[d].st \in {"wait", "woken"}
      <4>1. PICK r : r = rs[d]
        OBVIOUS
      <4>2. Resolver(r) /\ r.st \in {"wait", "woken"}
        BY <1>1, <3>1, <4>1 DEF CallerTrue
      <4>3. PICK no : no = FALSE
        OBVIOUS
      <4>4. rs'[d] = [r EXCEPT !.sure = no]
        BY <2>1, <2>4, <3>1, <4>1, <4>3 DEF ResolveArm
      <4>5. Resolver(rs'[d]) /\ rs'[d].st = r.st /\ rs'[d].sure = no
        BY <4>2, <4>4 DEF Resolver
      <4> QED BY <4>2, <4>3, <4>5 DEF CallerTrue
    <3>2. CASE rs[d].st \notin {"wait", "woken"}
      BY <1>1, <2>1, <2>4, <3>2 DEF ResolveArm, CallerTrue
    <3> QED BY <3>1, <3>2
  <2> QED BY <2>1, <2>2, <2>3, <2>4 DEF ResolveArm
<1>7. CASE \E c \in Callers : ResolveStop(c)
  <2>1. PICK c \in Callers : ResolveStop(c)
    BY <1>7
  <2>2. WaiterTrue(arp') /\ arp'.want = arp.want
    BY <1>1, <2>1 DEF ResolveStop, WaiterTrue, Waiter
  <2>3. CallerTrue(rs'[c], arp.want)
    BY <1>1, <2>1 DEF ResolveStop, CallerTrue, Resolver
  <2> QED BY <1>1, <2>1, <2>2, <2>3 DEF ResolveStop
<1>8. CASE \E c \in Callers : ResolveEnd(c)
  <2>1. PICK c \in Callers : ResolveEnd(c)
    BY <1>8
  <2>2. CASE arp.done
    <3>1. PICK e : e = [ip |-> rs[c].ip, mac |-> arp.reply, sure |-> rs[c].sure]
      OBVIOUS
    <3>2. True(e)
      BY <1>1, <2>1, <2>2, <3>1 DEF ResolveEnd, WaiterTrue, CallerTrue, True
    <3>3. CacheTrue(store(arp.cache, e))
      BY <1>1, <3>2, StoreTrue DEF WaiterTrue
    <3>4. arp' = [arp EXCEPT !.cache = store(arp.cache, e)]
      BY <1>1, <2>1, <2>2, <3>1 DEF ResolveEnd, WaiterTrue, Waiter
    <3>5. CallerTrue(rs'[c], arp.want)
      <4>1. rs'[c] = [st |-> "ok", ip |-> rs[c].ip, mac |-> arp.reply, sure |-> rs[c].sure]
        <5>1. Resolver(rs[c]) /\ rs' = [rs EXCEPT ![c] = [rs[c] EXCEPT !.st = "ok", !.mac = arp.reply]]
          BY <1>1, <2>1, <2>2 DEF ResolveEnd, CallerTrue
        <5> QED BY <1>1, <5>1 DEF Resolver
      <4> QED BY <3>1, <3>2, <4>1 DEF CallerTrue, Resolver, True
    <3> QED BY <1>1, <1>4, <2>1, <2>2, <3>3, <3>4, <3>5 DEF ResolveEnd
  <2>3. CASE ~arp.done
    <3>1. CallerTrue(rs'[c], arp.want)
      BY <1>1, <2>1, <2>3 DEF ResolveEnd, CallerTrue, Resolver
    <3> QED BY <1>1, <2>1, <2>3, <3>1 DEF ResolveEnd
  <2> QED BY <2>2, <2>3
<1>9. CASE \E c \in Callers : EndResolve(c) /\ UNCHANGED arp
  <2>1. CallerTrue(NotResolving, arp.want)
    BY DEF CallerTrue, Resolver, NotResolving
  <2> QED BY <1>3, <1>9, <2>1 DEF EndResolve
<1>10. CASE rs' = [rs EXCEPT !["sh"] = [NotResolving EXCEPT !.st = "ok", !.ip = All, !.mac = All]] /\ UNCHANGED arp
  <2>1. CallerTrue([NotResolving EXCEPT !.st = "ok", !.ip = All, !.mac = All], arp.want)
    <3>1. PICK r : r = [NotResolving EXCEPT !.st = "ok", !.ip = All, !.mac = All]
      OBVIOUS
    <3>2. Resolver(r) /\ r.st = "ok" /\ r.mac = r.ip /\ r.sure = NotResolving.sure
      BY <3>1 DEF Resolver, NotResolving
    <3>3. NotResolving.sure \in BOOLEAN
      BY DEF NotResolving
    <3> QED BY <3>1, <3>2, <3>3 DEF CallerTrue, True
  <2>2. "sh" \in Callers
    BY NetAssumption
  <2> QED BY <1>3, <1>10, <2>1, <2>2
<1>11. CASE \E m : (handle_arp(m) \/ Learned(m)) /\ UNCHANGED rs
  <2>1. PICK m : (handle_arp(m) \/ Learned(m)) /\ UNCHANGED rs
    BY <1>11
  <2>2. PICK cache : cache = learn(arp.cache, Heard(m.src, m.src))
    OBVIOUS
  <2>3. CacheTrue(cache)
    <3>1. True(Heard(m.src, m.src))
      BY DEF True, Heard
    <3> QED BY <1>1, <2>2, <3>1, StoreTrue DEF WaiterTrue
  <2>4. PICK heard : heard = [arp EXCEPT !.cache = cache]
    OBVIOUS
  <2>5. \/ arp' = heard
        \/ arp' = [heard EXCEPT !.reply = m.src, !.done = TRUE] /\ m.src = arp.want
    BY <1>1, <2>1, <2>2, <2>4 DEF handle_arp, Learned, WaiterTrue, Waiter
  <2>6. CASE arp' = heard
    BY <1>1, <1>4, <2>1, <2>3, <2>4, <2>6
  <2>7. CASE arp' = [heard EXCEPT !.reply = m.src, !.done = TRUE] /\ m.src = arp.want
    <3>1. WaiterTrue(arp') /\ arp'.want = arp.want
      BY <1>1, <2>3, <2>4, <2>7 DEF WaiterTrue, Waiter
    <3> QED BY <1>1, <2>1, <3>1
  <2> QED BY <2>5, <2>6, <2>7
<1>12. CASE arp' = [arp EXCEPT !.cache = EmptyCache] /\ UNCHANGED rs
  BY <1>1, <1>4, <1>12, ForgetTrue
<1>13. CASE arp_aging_poll
  <2>1. PICK i \in 1..NCACHE : arp' = [arp EXCEPT !.cache[i] = NoEntry] /\ UNCHANGED rs
    BY <1>13 DEF arp_aging_poll
  <2>2. PICK cache : cache = [arp.cache EXCEPT ![i] = NoEntry]
    OBVIOUS
  <2>3. CacheTrue(cache)
    BY <1>1, <2>2, ForgetTrue DEF WaiterTrue
  <2>4. arp' = [arp EXCEPT !.cache = cache]
    BY <1>1, <2>1, <2>2 DEF WaiterTrue, Waiter
  <2> QED BY <1>1, <1>4, <2>1, <2>3, <2>4
<1>14. CASE UNCHANGED <<arp, rs>>
  BY <1>1, <1>14
<1> QED BY <1>5, <1>6, <1>7, <1>8, <1>9, <1>10, <1>11, <1>12, <1>13, <1>14 DEF ArpOps

-----------------------------------------------------------------------------
(* nd6_resolve and what it shares with the interrupts.                       *)
NdOps ==
  \/ \E ip : Resolve6Begin(ip)
  \/ Resolve6Arm \/ Resolve6End
  \/ rs6' = NotResolving6 /\ UNCHANGED nd
  \/ \E m : (handle_na(m) \/ handle_ns(m)) /\ UNCHANGED rs6
  \/ nd' = [nd EXCEPT !.cache = EmptyCache, !.waiting = FALSE, !.done = FALSE] /\ UNCHANGED rs6
  \/ nd6_aging_poll
  \/ UNCHANGED <<nd, rs6>>

(* What every step does to the NDP cache, its waiter and its caller is one   *)
(* of these.                                                                 *)
LEMMA NextNdOps == [Next]_vars => NdOps
<1> SUFFICES ASSUME [Next]_vars PROVE NdOps
  OBVIOUS
<1> USE DEF NdOps
<1>1. CASE Resolving6 \/ Ping6Start \/ Ping6Send
  BY <1>1 DEF Resolving6, Ping6Start, Ping6Send
<1>2. CASE Deliver \/ DeliverCopy
  BY <1>2 DEF Deliver, DeliverCopy, net_handle_eth
<1>3. CASE NeighbourAsks \/ Aging \/ BootInit
  BY <1>3 DEF NeighbourAsks, Aging, arp_aging_poll, BootInit
<1>4. CASE \/ Resolving("sh") \/ Resolving("pr") \/ PingStart \/ PingSend \/ PingEnd \/ ProcSend \/ ProcSent
           \/ DnsStart \/ DnsSend \/ DnsSent \/ DnsTake \/ DnsGot \/ DnsTimeout \/ Ping6End
  BY <1>4 DEF Resolving, PingStart, PingSend, PingEnd, ProcSend, ProcSent, DnsStart, DnsSend, DnsSent, DnsTake,
              DnsGot, DnsTimeout, Ping6End, neighVars
<1>5. CASE \/ DhcpStart \/ Discover \/ Discovered \/ NoOffer \/ GotOffer \/ Adopt \/ AdoptRest
           \/ RenewStart \/ RenewSend \/ RenewSent \/ RenewStop \/ RenewEnd
  BY <1>5 DEF DhcpStart, Discover, Discovered, NoOffer, GotOffer, Adopt, AdoptRest,
              RenewStart, RenewSend, RenewSent, RenewStop, RenewEnd, neighVars
<1>6. CASE Redirect \/ RedirExpire \/ DnsExpire \/ dhcp_auto_poll \/ Solicitation \/ UNCHANGED vars
  BY <1>6 DEF Redirect, RedirExpire, DnsExpire, dhcp_auto_poll, Solicitation, ip6_slaac_poll, neighVars, vars
<1> QED BY <1>1, <1>2, <1>3, <1>4, <1>5, <1>6 DEF Next, Shell, Process, Interrupts, Event

(* Nobody resolves. *)
LEMMA Resolver6Shape == Resolver6(NotResolving6) /\ NotResolving6.st = "idle"
<1>1. 0 \in 0..NS_TRIES
  BY NeighAssumption
<1> QED BY <1>1 DEF Resolver6, NotResolving6

(* Each of them keeps the cache and the resolution true. *)
LEMMA NdInvOps == NdInv /\ NdOps => NdInv'
<1> SUFFICES ASSUME NdInv, NdOps PROVE NdInv'
  OBVIOUS
<1>1. WaiterTrue(nd) /\ Resolver6(rs6) /\ (rs6.st = "wait" => nd.want = rs6.ip) /\ (rs6.st = "ok" => True(rs6))
  BY DEF NdInv
<1>2. SUFFICES /\ WaiterTrue(nd') /\ Resolver6(rs6')
               /\ (rs6'.st = "wait" => nd'.want = rs6'.ip) /\ (rs6'.st = "ok" => True(rs6'))
  BY DEF NdInv, WaiterTrue, Waiter, CacheTrue, Resolver6, True
(* A caller takes the reply; it may be an earlier one's, and is then unsure. *)
<1>3. ASSUME NEW r, Resolver6(r), NEW sure \in BOOLEAN, sure /\ nd.done => nd.want = r.ip, nd.done, Resolved6(r, sure)
      PROVE  /\ WaiterTrue(nd') /\ Resolver6(rs6')
             /\ (rs6'.st = "wait" => nd'.want = rs6'.ip) /\ (rs6'.st = "ok" => True(rs6'))
  <2>1. PICK e : e = [ip |-> r.ip, mac |-> nd.reply, sure |-> sure]
    OBVIOUS
  <2>2. True(e)
    BY <1>1, <1>3, <2>1 DEF WaiterTrue, True
  <2>3. CacheTrue(learn(nd.cache, e))
    BY <1>1, <2>2, StoreTrue DEF WaiterTrue
  <2>4. nd' = [nd EXCEPT !.waiting = FALSE, !.cache = learn(nd.cache, e)]
    BY <1>1, <1>3, <2>1 DEF Resolved6, WaiterTrue, Waiter
  <2>5. WaiterTrue(nd')
    BY <1>1, <2>3, <2>4 DEF WaiterTrue, Waiter
  <2>6. rs6' = [r EXCEPT !.st = "ok", !.mac = nd.reply, !.sure = sure]
    BY <1>3 DEF Resolved6
  <2>7. Resolver6(rs6') /\ rs6'.st = "ok" /\ rs6'.ip = e.ip /\ rs6'.mac = e.mac /\ rs6'.sure = e.sure
    BY <1>3, <2>1, <2>6 DEF Resolver6
  <2> QED BY <2>2, <2>5, <2>7 DEF True
(* A caller asks. *)
<1>4. ASSUME NEW r, Resolver6(r), r.try < NS_TRIES, Solicit(r), UNCHANGED nd
      PROVE  WaiterTrue(nd') /\ Resolver6(rs6') /\ rs6'.st = "sent"
  <2>1. PICK n : n = r.try + 1
    OBVIOUS
  <2>2. n \in 0..NS_TRIES
    BY <1>4, <2>1, NeighAssumption DEF Resolver6
  <2>3. rs6' = [r EXCEPT !.st = "sent", !.try = n]
    BY <1>4, <2>1 DEF Solicit
  <2> QED BY <1>1, <1>4, <2>2, <2>3 DEF Resolver6
(* Only the cache changes. *)
<1>5. ASSUME NEW cache, CacheTrue(cache), nd' = [nd EXCEPT !.cache = cache]
      PROVE  WaiterTrue(nd') /\ nd'.want = nd.want
  BY <1>1, <1>5 DEF WaiterTrue, Waiter
<1>6. CASE \E ip : Resolve6Begin(ip)
  <2>1. PICK ip : Resolve6Begin(ip)
    BY <1>6
  <2>2. PICK r : r = [NotResolving6 EXCEPT !.ip = ip]
    OBVIOUS
  <2>3. Resolver6(r) /\ r.ip = ip /\ r.try < NS_TRIES
    <3>1. 0 \in 0..NS_TRIES /\ 0 < NS_TRIES
      BY NeighAssumption
    <3> QED BY <2>2, <3>1 DEF Resolver6, NotResolving6
  <2>4. CASE Hits(nd.cache, ip) # {}
    <3>1. PICK e : e = nd.cache[Min(Hits(nd.cache, ip))]
      OBVIOUS
    <3>2. e.ip = ip /\ True(e)
      BY <1>1, <2>4, <3>1, HitTrue DEF WaiterTrue
    <3>3. rs6' = [r EXCEPT !.st = "ok", !.mac = e.mac, !.sure = e.sure] /\ UNCHANGED nd
      BY <2>1, <2>2, <2>4, <3>1 DEF Resolve6Begin
    <3>4. Resolver6(rs6') /\ rs6'.st = "ok" /\ rs6'.ip = e.ip /\ rs6'.mac = e.mac /\ rs6'.sure = e.sure
      BY <2>3, <3>2, <3>3 DEF Resolver6
    <3> QED BY <1>1, <3>2, <3>3, <3>4 DEF True
  <2>5. CASE nd.done /\ Resolved6(r, FALSE)
    BY <1>3, <2>3, <2>5
  <2>6. CASE Solicit(r) /\ UNCHANGED nd
    BY <1>4, <2>3, <2>6
  <2> QED BY <2>1, <2>2, <2>4, <2>5, <2>6 DEF Resolve6Begin
<1>7. CASE Resolve6Arm
  <2>1. WaiterTrue(nd') /\ nd'.want = rs6.ip
    BY <1>1, <1>7 DEF Resolve6Arm, WaiterTrue, Waiter
  <2>2. Resolver6(rs6') /\ rs6'.st = "wait" /\ rs6'.ip = rs6.ip
    BY <1>1, <1>7 DEF Resolve6Arm, Resolver6
  <2> QED BY <2>1, <2>2
<1>8. CASE Resolve6End
  <2>1. CASE nd.done /\ Resolved6(rs6, TRUE)
    <3>1. nd.want = rs6.ip
      BY <1>1, <1>8 DEF Resolve6End
    <3> QED BY <1>1, <1>3, <2>1, <3>1
  <2>2. CASE rs6.try < NS_TRIES /\ Solicit(rs6) /\ UNCHANGED nd
    BY <1>1, <1>4, <2>2
  <2>3. CASE nd' = [nd EXCEPT !.waiting = FALSE] /\ rs6' = [rs6 EXCEPT !.st = "fail"]
    <3>1. WaiterTrue(nd')
      BY <1>1, <2>3 DEF WaiterTrue, Waiter
    <3>2. Resolver6(rs6') /\ rs6'.st = "fail"
      BY <1>1, <2>3 DEF Resolver6
    <3> QED BY <3>1, <3>2
  <2> QED BY <1>8, <2>1, <2>2, <2>3 DEF Resolve6End
<1>9. CASE rs6' = NotResolving6 /\ UNCHANGED nd
  BY <1>1, <1>9, Resolver6Shape
<1>10. CASE \E m : (handle_na(m) \/ handle_ns(m)) /\ UNCHANGED rs6
  <2>1. PICK m : (handle_na(m) \/ handle_ns(m)) /\ UNCHANGED rs6
    BY <1>10
  <2>2. PICK src : (src = m.src /\ handle_na(m)) \/ (src = m /\ handle_ns(m))
    BY <2>1
  <2>3. PICK cache : cache = learn(nd.cache, Heard(src, src))
    OBVIOUS
  <2>4. CacheTrue(cache)
    <3>1. True(Heard(src, src))
      BY DEF True, Heard
    <3> QED BY <1>1, <2>3, <3>1, StoreTrue DEF WaiterTrue
  <2>5. PICK heard : heard = [nd EXCEPT !.cache = cache]
    OBVIOUS
  <2>6. \/ nd' = heard
        \/ nd' = [heard EXCEPT !.reply = src, !.done = TRUE] /\ src = nd.want
    BY <1>1, <2>2, <2>3, <2>5 DEF handle_na, handle_ns, WaiterTrue, Waiter
  <2>7. CASE nd' = heard
    BY <1>1, <1>5, <2>1, <2>4, <2>5, <2>7
  <2>8. CASE nd' = [heard EXCEPT !.reply = src, !.done = TRUE] /\ src = nd.want
    <3>1. WaiterTrue(nd') /\ nd'.want = nd.want
      BY <1>1, <2>4, <2>5, <2>8 DEF WaiterTrue, Waiter
    <3> QED BY <1>1, <2>1, <3>1
  <2> QED BY <2>6, <2>7, <2>8
<1>11. CASE nd' = [nd EXCEPT !.cache = EmptyCache, !.waiting = FALSE, !.done = FALSE] /\ UNCHANGED rs6
  <2>1. WaiterTrue(nd') /\ nd'.want = nd.want
    BY <1>1, <1>11, ForgetTrue DEF WaiterTrue, Waiter
  <2> QED BY <1>1, <1>11, <2>1
<1>12. CASE nd6_aging_poll
  <2>1. PICK i \in 1..NCACHE : nd' = [nd EXCEPT !.cache[i] = NoEntry] /\ UNCHANGED rs6
    BY <1>12 DEF nd6_aging_poll
  <2>2. PICK cache : cache = [nd.cache EXCEPT ![i] = NoEntry]
    OBVIOUS
  <2>3. CacheTrue(cache)
    BY <1>1, <2>2, ForgetTrue DEF WaiterTrue
  <2>4. nd' = [nd EXCEPT !.cache = cache]
    BY <1>1, <2>1, <2>2 DEF WaiterTrue, Waiter
  <2> QED BY <1>1, <1>5, <2>1, <2>3, <2>4
<1>13. CASE UNCHANGED <<nd, rs6>>
  BY <1>1, <1>13
<1> QED BY <1>6, <1>7, <1>8, <1>9, <1>10, <1>11, <1>12, <1>13 DEF NdOps

LEMMA NeighbourInvs == Spec => [](ArpInv /\ NdInv)
<1>1. Init => ArpInv /\ NdInv
  <2> SUFFICES ASSUME Init PROVE ArpInv /\ NdInv
    OBVIOUS
  <2>1. WaiterTrue(NoWaiter)
    <3>1. CacheTrue(NoWaiter.cache)
      BY ForgetTrue DEF NoWaiter
    <3> QED BY <3>1 DEF WaiterTrue, Waiter, NoWaiter
  <2>2. ArpInv
    BY <2>1 DEF Init, ArpInv, NotResolving, Resolver
  <2>3. NdInv
    BY <2>1, Resolver6Shape DEF Init, NdInv
  <2> QED BY <2>2, <2>3
<1>2. ArpInv /\ NdInv /\ [Next]_vars => ArpInv' /\ NdInv'
  BY NextArpOps, NextNdOps, ArpInvOps, NdInvOps
<1> QED BY <1>1, <1>2, PTL DEF Spec

(* A neighbour's MAC is its own: the entries of the two caches of net.cpp    *)
(* and what arp_resolve and nd6_resolve return, whoever asks, answers late   *)
(* or twice, and for caches of any size and any number of callers' sends;    *)
(* but for the two races that NeighboursTrue leaves out.                     *)
THEOREM NeighbourTruth == Spec => []NeighboursTrue
<1>1. ArpInv /\ NdInv => NeighboursTrue
  BY DEF ArpInv, NdInv, NeighboursTrue, WaiterTrue, CacheTrue, True
<1> QED BY <1>1, NeighbourInvs, PTL

-----------------------------------------------------------------------------
(* The shell's record, and what its commands do to it.                       *)
LEMMA ShellShaped == ShellShape /\ [Next]_vars => ShellShape'
<1> SUFFICES ASSUME ShellShape, [Next]_vars PROVE ShellShape'
  OBVIOUS
<1> DEFINE
  Shaped(s) == s = [pc |-> s.pc, arg |-> s.arg, id |-> s.id, hop |-> s.hop, try |-> s.try, name |-> s.name,
                    dgram |-> s.dgram, n |-> s.n, again |-> s.again]
<1>1. Shaped(sh) /\ Shaped(Idle)
  BY DEF ShellShape, Idle
<1>2. SUFFICES Shaped(sh')
  BY DEF ShellShape
<1>3. CASE UNCHANGED sh
  BY <1>1, <1>3
<1>4. CASE sh' = Idle
  BY <1>1, <1>4
<1>5. CASE \E pc : sh' = [sh EXCEPT !.pc = pc]
  BY <1>1, <1>5
<1>6. CASE Return \/ \E pc : Goto(pc)
  BY <1>4, <1>5, <1>6 DEF Return, Goto
<1>7. CASE \/ PingStart \/ Ping6Start \/ DhcpStart \/ Discover \/ RenewStart \/ RenewSend
           \/ DnsStart \/ DnsSend \/ DnsTake \/ DnsTimeout
  BY <1>1, <1>7 DEF PingStart, Ping6Start, DhcpStart, Discover, RenewStart, RenewSend,
                    DnsStart, DnsSend, DnsTake, DnsTimeout, Return
<1>8. CASE DnsGot
  BY <1>1, <1>8 DEF DnsGot, Return
<1>9. CASE PingSend \/ PingEnd \/ Ping6Send \/ Ping6End \/ Discovered \/ NoOffer \/ BootInit \/ GotOffer
           \/ Adopt \/ AdoptRest \/ RenewSent \/ RenewStop \/ RenewEnd \/ DnsSent
  BY <1>6, <1>9 DEF PingSend, PingEnd, Ping6Send, Ping6End, Discovered, NoOffer, BootInit, GotOffer,
                    Adopt, AdoptRest, RenewSent, RenewStop, RenewEnd, DnsSent
<1>10. CASE Resolving("sh") \/ Resolving("pr") \/ Resolving6 \/ ProcSend \/ ProcSent \/ Interrupts \/ UNCHANGED vars
  <2>1. UNCHANGED sh
    BY <1>10 DEF Resolving, Resolving6, ProcSend, ProcSent, Interrupts, Deliver, DeliverCopy, net_handle_eth, Event,
                 NeighbourAsks, Redirect, RedirExpire, Aging, DnsExpire, dhcp_auto_poll, Solicitation, netVars, vars
  <2> QED BY <1>3, <2>1
<1> QED BY <1>7, <1>8, <1>9, <1>10 DEF Next, Shell, Process

(* The frames that a step draws. *)
LEMMA FramesDrawn ==
  [Next]_vars => \A m \in wire' :
    \/ m \in wire \/ m.k \in {"arprep", "na", "ra", "echo6"}
    \/ m.k = "echo" /\ PingSend
    \/ m.k = "dhcp" /\ (Discovered \/ RenewSent \/ dhcp_auto_poll)
    \/ m.k = "dns" /\ DnsSent
<1> SUFFICES ASSUME [Next]_vars, NEW m \in wire', m \notin wire
             PROVE  \/ m.k \in {"arprep", "na", "ra", "echo6"}
                    \/ m.k = "echo" /\ PingSend
                    \/ m.k = "dhcp" /\ (Discovered \/ RenewSent \/ dhcp_auto_poll)
                    \/ m.k = "dns" /\ DnsSent
  OBVIOUS
<1>1. \A c, ip : ResolveBegin(c, ip) => m.k = "arprep"
  BY DEF ResolveBegin, IfHere
<1>2. \A r : Solicit(r) => m.k = "na"
  BY DEF Solicit, IfHere
<1>3. CASE PingStart \/ ProcSend \/ RenewSend \/ DnsSend \/ Discover
  BY <1>1, <1>3 DEF PingStart, ProcSend, RenewSend, DnsSend, Discover, ResolveBroadcast
<1>4. CASE Ping6Start \/ Resolving6
  BY <1>2, <1>4 DEF Ping6Start, Resolve6Begin, Resolving6, Resolve6Arm, Resolve6End
<1>5. CASE PingSend
  BY <1>5 DEF PingSend, IfHere
<1>6. CASE Ping6Send
  BY <1>6 DEF Ping6Send
<1>7. CASE Discovered
  BY <1>7 DEF Discovered, Offer
<1>8. CASE RenewSent
  BY <1>8 DEF RenewSent, Answers, Acks
<1>9. CASE dhcp_auto_poll
  BY <1>9 DEF dhcp_auto_poll, Answers, Acks
<1>10. CASE DnsSent
  BY <1>10 DEF DnsSent
<1>11. CASE Solicitation
  BY <1>11 DEF Solicitation, ip6_slaac_poll, IfHere
<1>12. CASE \/ Resolving("sh") \/ Resolving("pr") \/ PingEnd \/ Ping6End \/ ProcSent \/ DhcpStart \/ NoOffer \/ BootInit
            \/ GotOffer \/ Adopt \/ AdoptRest \/ RenewStart \/ RenewStop \/ RenewEnd
            \/ DnsStart \/ DnsTake \/ DnsGot \/ DnsTimeout
  BY <1>12 DEF Resolving, ResolveArm, ResolveStop, ResolveEnd, PingEnd, Ping6End, ProcSent, DhcpStart, NoOffer, BootInit,
               GotOffer, Adopt, AdoptRest, RenewStart, RenewStop, RenewEnd, DnsStart, DnsTake, DnsGot, DnsTimeout, neighVars
<1>13. CASE Deliver \/ DeliverCopy \/ NeighbourAsks \/ Redirect \/ RedirExpire \/ Aging \/ DnsExpire \/ UNCHANGED vars
  BY <1>13 DEF Deliver, DeliverCopy, NeighbourAsks, Redirect, RedirExpire, Aging, arp_aging_poll, nd6_aging_poll,
               DnsExpire, neighVars, vars
<1> QED BY <1>3, <1>4, <1>5, <1>6, <1>7, <1>8, <1>9, <1>10, <1>11, <1>12, <1>13 DEF Next, Shell, Process, Interrupts, Event

(* The commands other than DHCP, by where the shell is in them. *)
PingPc == {"idle", "p_arp", "p_wait", "6_nd", "6_wait"}
LEMMA PingMoves ==
  ASSUME ShellShape, PingStart \/ PingSend \/ PingEnd \/ Ping6Start \/ Ping6Send \/ Ping6End
  PROVE  {sh.pc, sh'.pc} \subseteq PingPc
<1> USE DEF PingPc
<1>1. CASE PingStart \/ Ping6Start
  BY <1>1 DEF PingStart, Ping6Start, Command, Idle
<1>2. CASE PingEnd \/ Ping6End
  BY <1>2 DEF PingEnd, Ping6End, Return, Idle
<1>3. CASE PingSend \/ Ping6Send
  BY <1>3 DEF PingSend, Ping6Send, Goto, Return, Idle, ShellShape
<1> QED BY <1>1, <1>2, <1>3

DnsPc == {"idle", "q_send", "q_arp", "q_wait", "q_got"}
LEMMA DnsMoves ==
  ASSUME ShellShape, DnsStart \/ DnsSend \/ DnsSent \/ DnsTake \/ DnsGot \/ DnsTimeout
  PROVE  {sh.pc, sh'.pc} \subseteq DnsPc
<1> USE DEF DnsPc
<1>1. Idle.pc = "idle"
  BY DEF Idle
<1>2. CASE DnsStart
  <2>1. sh' = Idle \/ \E x : sh' = [Idle EXCEPT !.pc = "q_send", !.arg = Arg, !.name = x]
    BY <1>2, Zenon DEF DnsStart, Return
  <2>2. \A x : [Idle EXCEPT !.pc = "q_send", !.arg = Arg, !.name = x].pc = "q_send"
    BY DEF Idle
  <2> QED BY <1>1, <1>2, <2>1, <2>2, ZenonT(60) DEF DnsStart, Command
<1>3. CASE DnsSend
  <2>1. \/ \E id : sh' = [sh EXCEPT !.pc = "q_arp", !.again = FALSE, !.id = id]
        \/ sh' = [sh EXCEPT !.pc = "q_arp", !.again = FALSE]
    BY <1>3, Zenon DEF DnsSend
  <2> QED BY <1>3, <2>1 DEF DnsSend, ShellShape
<1>4. CASE DnsSent
  BY <1>4 DEF DnsSent, Goto, ShellShape
<1>5. CASE DnsTake
  BY <1>5 DEF DnsTake, ShellShape
<1>6. CASE DnsTimeout
  <2>1. sh' = Idle \/ \E try : sh' = [sh EXCEPT !.pc = "q_send", !.try = try]
    BY <1>6, Zenon DEF DnsTimeout, Return
  <2>2. \A try : [sh EXCEPT !.pc = "q_send", !.try = try].pc = "q_send"
    BY DEF ShellShape
  <2> QED BY <1>1, <1>6, <2>1, <2>2 DEF DnsTimeout
<1>7. CASE DnsGot
  <2>1. PICK again : again = [sh EXCEPT !.dgram = NoDgram, !.n = 0]
    OBVIOUS
  <2>2. PICK more : more = (sh.try > 0)
    OBVIOUS
  <2>3. PICK hop : hop = again.hop + 1
    OBVIOUS
  <2>4. PICK name : name = Overlay(sh.dgram.ans.v, sh.name)
    OBVIOUS
  <2>5. \/ sh' = Idle
        \/ sh' = [again EXCEPT !.pc = "q_send", !.hop = hop, !.try = 0, !.again = more, !.name = name]
        \/ sh' = [again EXCEPT !.pc = "q_wait"]
    BY <1>7, <2>1, <2>2, <2>3, <2>4, Zenon DEF DnsGot, Return
  <2>6. again = [pc |-> again.pc, arg |-> again.arg, id |-> again.id, hop |-> again.hop, try |-> again.try,
                 name |-> again.name, dgram |-> again.dgram, n |-> again.n, again |-> again.again]
    BY <2>1 DEF ShellShape
  <2> QED BY <1>1, <1>7, <2>5, <2>6 DEF DnsGot
<1> QED BY <1>2, <1>3, <1>4, <1>5, <1>6, <1>7

-----------------------------------------------------------------------------
(* Pings.                                                                    *)
InPing == {"p_wait", "6_nd", "6_wait"}
(* No echo reply is drawn. *)
Silent == \A m \in wire' : m.k = "echo" => m \in wire
EchoSent ==
  /\ sh.pc = "p_arp" /\ sh' = [sh EXCEPT !.pc = "p_wait"]
  /\ ping' = [ping EXCEPT !.active = TRUE, !.done = FALSE, !.ident = @ + 1]
  /\ \A m \in wire' : m.k = "echo" => m \in wire \/ (m.src = sh.arg /\ m.id = ping.ident + 1)
  /\ UNCHANGED ping6
PingOps ==
  \/ EchoSent
  \/ /\ Silent /\ sh'.pc \notin InPing
     /\ UNCHANGED ping6 /\ (UNCHANGED ping \/ ping' = [ping EXCEPT !.active = FALSE])
  \/ /\ Silent /\ sh'.pc \notin InPing /\ UNCHANGED ping
     /\ \/ ping6' = [ping6 EXCEPT !.active = FALSE]
        \/ ping6' = [ping6 EXCEPT !.active = FALSE, !.done = FALSE]
  \/ /\ Silent /\ UNCHANGED ping /\ sh'.pc = "6_nd"
     /\ ping6' = [ping6 EXCEPT !.active = TRUE, !.done = FALSE, !.ident = @ + 1, !.want = sh'.arg]
  \/ Silent /\ sh.pc = "6_nd" /\ sh'.pc = "6_wait" /\ sh'.arg = sh.arg /\ UNCHANGED <<ping, ping6>>
  \/ Silent /\ UNCHANGED <<sh, ping6>> /\ \E m \in wire : m.k = "echo" /\ handle_echo(m)
  \/ Silent /\ UNCHANGED <<sh, ping>> /\ \E m : handle_echo6(m)
  \/ Silent /\ UNCHANGED <<sh, ping, ping6>>

(* What every step does to the pings is one of these.                        *)
LEMMA NextPingOps == ShellShape /\ [Next]_vars => PingOps
<1> SUFFICES ASSUME ShellShape, [Next]_vars PROVE PingOps
  OBVIOUS
<1> USE DEF InPing
<1>1. CASE PingSend
  <2>1. CASE rs["sh"].st = "ok"
    BY <1>1, <2>1 DEF PingOps, EchoSent, PingSend, Goto, IfHere
  <2>2. CASE rs["sh"].st = "fail"
    BY <1>1, <2>2 DEF PingOps, Silent, PingSend, Return, Idle
  <2> QED BY <1>1, <2>1, <2>2 DEF PingSend
<1>2. CASE ~PingSend
  <2>1. Silent
    BY <1>2, FramesDrawn DEF Silent
  <2>2. CASE PingEnd \/ Ping6End \/ BootInit
    BY <2>1, <2>2 DEF PingOps, PingEnd, Ping6End, BootInit, Return, Idle
  <2>3. CASE Ping6Start
    BY <2>1, <2>3 DEF PingOps, Ping6Start, Idle
  <2>4. CASE Ping6Send
    BY <2>1, <2>4 DEF PingOps, Ping6Send, Goto, ShellShape
  <2>5. CASE \/ PingStart \/ DhcpStart \/ RenewStart \/ RenewSend \/ Discover \/ Discovered \/ RenewSent
             \/ NoOffer \/ GotOffer \/ Adopt \/ AdoptRest \/ RenewStop \/ RenewEnd
    <3>1. CASE PingStart \/ DhcpStart \/ RenewStart \/ RenewSend \/ Discover \/ Discovered \/ RenewSent
      BY <2>1, <3>1 DEF PingOps, PingStart, DhcpStart, RenewStart, RenewSend, Discover, Discovered, RenewSent, Idle, Goto, ShellShape
    <3>2. CASE NoOffer \/ GotOffer \/ Adopt \/ AdoptRest \/ RenewStop \/ RenewEnd
      BY <2>1, <3>2 DEF PingOps, NoOffer, GotOffer, Adopt, AdoptRest, RenewStop, RenewEnd, Return, Idle, Goto, ShellShape
    <3> QED BY <2>5, <3>1, <3>2
  <2>6. CASE DnsStart \/ DnsSend \/ DnsSent \/ DnsTake \/ DnsGot \/ DnsTimeout
    <3>1. sh'.pc \notin InPing
      BY <2>6, DnsMoves DEF DnsPc
    <3> QED BY <2>1, <2>6, <3>1 DEF PingOps, DnsStart, DnsSend, DnsSent, DnsTake, DnsGot, DnsTimeout
  <2>7. CASE Deliver \/ DeliverCopy
    BY <2>1, <2>7 DEF PingOps, Deliver, DeliverCopy, net_handle_eth
  <2>8. CASE \/ Resolving("sh") \/ Resolving("pr") \/ Resolving6 \/ ProcSend \/ ProcSent \/ NeighbourAsks \/ Redirect
             \/ RedirExpire \/ Aging \/ DnsExpire \/ dhcp_auto_poll \/ Solicitation \/ UNCHANGED vars
    BY <2>1, <2>8 DEF PingOps, Resolving, Resolving6, ProcSend, ProcSent, NeighbourAsks, Redirect, RedirExpire, Aging, DnsExpire,
                      dhcp_auto_poll, Solicitation, netVars, vars
  <2> QED BY <1>2, <2>2, <2>3, <2>4, <2>5, <2>6, <2>7, <2>8 DEF Next, Shell, Process, Interrupts, Event
<1> QED BY <1>1, <1>2

(* A reply that is taken is one to the last request, hence its host's.       *)
LEMMA PingInvOps == PingInv /\ PingOps /\ ShellShape' => PingInv'
<1> SUFFICES ASSUME PingInv, PingOps, ShellShape' PROVE PingInv'
  OBVIOUS
<1>1. CASE EchoSent
  <2>1. ping = [active |-> ping.active, done |-> ping.done, ident |-> ping.ident, src |-> ping.src] /\ ping.ident \in Nat
    BY DEF PingInv
  <2>2. /\ ping'.ident = ping.ident + 1 /\ ping'.ident \in Nat /\ ~ping'.done
        /\ ping' = [active |-> ping'.active, done |-> ping'.done, ident |-> ping'.ident, src |-> ping'.src]
    <3>1. PICK n : n = ping.ident + 1
      OBVIOUS
    <3>2. ping' = [ping EXCEPT !.active = TRUE, !.done = FALSE, !.ident = n]
      BY <1>1, <3>1 DEF EchoSent
    <3>3. ping' = [active |-> TRUE, done |-> FALSE, ident |-> n, src |-> ping.src]
      BY <2>1, <3>2, Zenon
    <3> QED BY <2>1, <3>1, <3>3
  <2>3. sh'.pc = "p_wait" /\ sh'.arg = sh.arg
    BY <1>1 DEF PingInv, EchoSent, ShellShape
  <2>4. ASSUME NEW m \in wire', m.k = "echo"
        PROVE  m.id \in 0..ping'.ident /\ (m.id = ping'.ident => m.src = sh.arg)
    <3>1. CASE m \in wire
      <4>1. m.id \in 0..ping.ident
        BY <2>4, <3>1 DEF PingInv
      <4> QED BY <2>2, <4>1 DEF PingInv
    <3>2. CASE m.src = sh.arg /\ m.id = ping.ident + 1
      BY <2>2, <3>2
    <3> QED BY <1>1, <2>4, <3>1, <3>2 DEF EchoSent
  <2> QED BY <1>1, <2>2, <2>3, <2>4 DEF PingInv, EchoSent
<1>2. CASE \/ /\ Silent /\ sh'.pc \notin InPing
              /\ UNCHANGED ping6 /\ (UNCHANGED ping \/ ping' = [ping EXCEPT !.active = FALSE])
           \/ /\ Silent /\ sh'.pc \notin InPing /\ UNCHANGED ping
              /\ \/ ping6' = [ping6 EXCEPT !.active = FALSE]
                 \/ ping6' = [ping6 EXCEPT !.active = FALSE, !.done = FALSE]
  BY <1>2 DEF PingInv, Silent, InPing
<1>3. CASE /\ Silent /\ UNCHANGED ping /\ sh'.pc = "6_nd"
           /\ ping6' = [ping6 EXCEPT !.active = TRUE, !.done = FALSE, !.ident = @ + 1, !.want = sh'.arg]
  BY <1>3 DEF PingInv, Silent
<1>4. CASE Silent /\ sh.pc = "6_nd" /\ sh'.pc = "6_wait" /\ sh'.arg = sh.arg /\ UNCHANGED <<ping, ping6>>
  BY <1>4 DEF PingInv, Silent
<1>5. CASE Silent /\ UNCHANGED <<sh, ping6>> /\ \E m \in wire : m.k = "echo" /\ handle_echo(m)
  BY <1>5 DEF PingInv, Silent, handle_echo
<1>6. CASE Silent /\ UNCHANGED <<sh, ping>> /\ \E m : handle_echo6(m)
  BY <1>6 DEF PingInv, Silent, handle_echo6
<1>7. CASE Silent /\ UNCHANGED <<sh, ping, ping6>>
  BY <1>7 DEF PingInv, Silent
<1> QED BY <1>1, <1>2, <1>3, <1>4, <1>5, <1>6, <1>7 DEF PingOps

(* An answered ping was answered by the host it was sent to: handle_icmp     *)
(* compares only the identifier, which is new in every ping, and             *)
(* handle_icmp6 the address as well.  For any hosts, scripts and numbers of  *)
(* late and doubled replies.                                                 *)
THEOREM PingTruth == Spec => []PingMatches
<1>1. Init => PingInv
  BY DEF Init, PingInv, ShellShape, Idle
<1>2. PingInv /\ [Next]_vars => PingInv'
  <2>1. PingInv => ShellShape
    BY DEF PingInv
  <2> QED BY <2>1, ShellShaped, NextPingOps, PingInvOps
<1>3. PingInv => PingMatches
  BY DEF PingInv, PingMatches
<1> QED BY <1>1, <1>2, <1>3, PTL DEF Spec

-----------------------------------------------------------------------------
(* Leases.                                                                   *)
DhcpPc == {"d_start", "d_begin", "d_arp", "d_wait", "d_adopt", "d_rest", "r_begin", "r_arp", "r_wait", "r_end", "b_init"}
NoDhcp == \A m \in wire' : m.k = "dhcp" => m \in wire
(* A step that is none of the DHCP client. *)
LeaseQuiet ==
  /\ NoDhcp
  /\ UNCHANGED <<dhcp, ifc>>
  /\ UNCHANGED cnt \/ (\E n : cnt' = [cnt EXCEPT !.events = n]) \/ \E n : cnt' = [cnt EXCEPT !.id = n]
  /\ UNCHANGED sh \/ {sh.pc, sh'.pc} \cap DhcpPc = {}
DhcpDelivered ==
  /\ dhcp.waiting /\ NoDhcp /\ UNCHANGED <<ifc, sh>>
  /\ UNCHANGED cnt \/ \E n : cnt' = [cnt EXCEPT !.events = n]
  /\ \E m \in wire : m.k = "dhcp" /\ handle_dhcp(m)
DhcpClient ==
  \/ DhcpStart \/ Discover \/ Discovered \/ NoOffer \/ BootInit \/ GotOffer \/ Adopt \/ AdoptRest
  \/ RenewStart \/ RenewSend \/ RenewSent \/ RenewStop \/ RenewEnd \/ dhcp_auto_poll

LEMMA NextLeaseOps == ShellShape /\ [Next]_vars => LeaseQuiet \/ DhcpDelivered \/ (DhcpClient /\ [Next]_vars)
<1> SUFFICES ASSUME ShellShape, [Next]_vars, ~DhcpClient PROVE LeaseQuiet \/ DhcpDelivered
  OBVIOUS
<1>1. NoDhcp
  BY FramesDrawn DEF NoDhcp, DhcpClient
<1>2. CASE Deliver \/ (DeliverCopy /\ Event)
  <2>1. UNCHANGED <<ifc, sh>>
    BY <1>2 DEF Deliver, DeliverCopy, net_handle_eth
  <2>2. UNCHANGED cnt \/ \E n : cnt' = [cnt EXCEPT !.events = n]
    BY <1>2, Zenon DEF Deliver, Event
  <2>3. PICK m \in wire : net_handle_eth(m)
    BY <1>2 DEF Deliver, DeliverCopy
  <2>4. UNCHANGED dhcp \/ (dhcp.waiting /\ m.k = "dhcp" /\ handle_dhcp(m))
    BY <2>3 DEF net_handle_eth
  <2> QED BY <1>1, <2>1, <2>2, <2>4 DEF LeaseQuiet, DhcpDelivered
<1>3. CASE Event /\ ~DeliverCopy
  <2>1. UNCHANGED <<ifc, sh, dhcp>>
    BY <1>3 DEF Event, NeighbourAsks, Redirect, RedirExpire, Aging, DnsExpire
  <2>2. \E n : cnt' = [cnt EXCEPT !.events = n]
    BY <1>3, Zenon DEF Event
  <2> QED BY <1>1, <2>1, <2>2 DEF LeaseQuiet
<1>4. CASE PingStart \/ PingSend \/ PingEnd \/ Ping6Start \/ Ping6Send \/ Ping6End
  <2>1. UNCHANGED <<ifc, dhcp, cnt>>
    BY <1>4 DEF PingStart, PingSend, PingEnd, Ping6Start, Ping6Send, Ping6End
  <2>2. {sh.pc, sh'.pc} \cap DhcpPc = {}
    BY <1>4, PingMoves DEF PingPc, DhcpPc
  <2> QED BY <1>1, <2>1, <2>2 DEF LeaseQuiet
<1>5. CASE DnsStart \/ DnsSend \/ DnsSent \/ DnsTake \/ DnsGot \/ DnsTimeout
  <2>1. UNCHANGED <<ifc, dhcp>>
    BY <1>5 DEF DnsStart, DnsSend, DnsSent, DnsTake, DnsGot, DnsTimeout
  <2>2. UNCHANGED cnt \/ \E n : cnt' = [cnt EXCEPT !.id = n]
    BY <1>5, Zenon DEF DnsStart, DnsSend, DnsSent, DnsTake, DnsGot, DnsTimeout
  <2>3. {sh.pc, sh'.pc} \cap DhcpPc = {}
    BY <1>5, DnsMoves DEF DnsPc, DhcpPc
  <2> QED BY <1>1, <2>1, <2>2, <2>3 DEF LeaseQuiet
<1>6. CASE Resolving("sh") \/ Resolving("pr") \/ Resolving6 \/ ProcSend \/ ProcSent \/ Solicitation \/ UNCHANGED vars
  BY <1>1, <1>6 DEF LeaseQuiet, Resolving, Resolving6, ProcSend, ProcSent, Solicitation, netVars, vars
<1> QED BY <1>2, <1>3, <1>4, <1>5, <1>6 DEF Next, Shell, Process, Interrupts, Event, DhcpClient

(* The numbers of the transactions only grow. *)
LEMMA DhcpMessageLater ==
  ASSUME NEW tx \in Nat, NEW later \in Nat, tx <= later, NEW m, DhcpMessage(m, tx)
  PROVE  DhcpMessage(m, later)
BY DEF DhcpMessage

(* Steps that are not the client's, and its receipt of a message. *)
LEMMA LeaseInvQuiet == LeaseInv /\ ShellShape' /\ LeaseQuiet => LeaseInv'
<1> SUFFICES ASSUME LeaseInv, ShellShape', LeaseQuiet PROVE LeaseInv'
  OBVIOUS
<1>1. LeaseShape' /\ cnt'.tx = cnt.tx
  BY DEF LeaseInv, LeaseShape, LeaseQuiet
<1>2. UNCHANGED <<dhcp, ifc>> /\ (UNCHANGED sh \/ {sh.pc, sh'.pc} \cap DhcpPc = {}) /\ NoDhcp
  BY DEF LeaseQuiet
<1>3. LeaseWire'
  <2>1. Renewing' => Renewing
    BY <1>2 DEF Renewing, DhcpPc
  <2> QED BY <1>1, <1>2, <2>1 DEF LeaseInv, LeaseWire, NoDhcp, Acknowledged
<1>4. LeaseClient' /\ LeaseMatches'
  BY <1>2 DEF LeaseInv, LeaseClient, LeaseMatches, DhcpPc
<1> QED BY <1>1, <1>3, <1>4 DEF LeaseInv

LEMMA LeaseInvDelivered == LeaseInv /\ ShellShape' /\ DhcpDelivered => LeaseInv'
<1> SUFFICES ASSUME LeaseInv, ShellShape', DhcpDelivered PROVE LeaseInv'
  OBVIOUS
<1>1. PICK m \in wire : m.k = "dhcp" /\ handle_dhcp(m)
  BY DEF DhcpDelivered
<1>2. UNCHANGED <<ifc, sh>> /\ dhcp.waiting /\ NoDhcp
  BY DEF DhcpDelivered
<1>3. cnt'.tx = cnt.tx /\ cnt' = [tx |-> cnt'.tx, id |-> cnt'.id, events |-> cnt'.events]
  BY DEF DhcpDelivered, LeaseInv, LeaseShape
<1>4. DhcpMessage(m, cnt.tx)
  BY <1>1 DEF LeaseInv, LeaseWire
(* The message that counts. *)
<1>5. \/ UNCHANGED dhcp
      \/ /\ m.tx = dhcp.txid /\ dhcp.phase = 1 /\ m.type = "OFFER"
         /\ dhcp' = [dhcp EXCEPT !.offer = [ip |-> m.ip, gw |-> m.gw, ns |-> m.ns, tx |-> m.tx], !.done = TRUE]
      \/ /\ m.tx = dhcp.txid /\ dhcp.phase = 3 /\ m.type = "ACK"
         /\ dhcp' = [dhcp EXCEPT !.offer = [ip |-> m.ip, tx |-> m.tx, gw |-> IF m.gw # None THEN m.gw ELSE dhcp.offer.gw,
                                            ns |-> IF m.ns # None THEN m.ns ELSE dhcp.offer.ns],
                                 !.leased = TRUE, !.nak = FALSE, !.done = TRUE]
      \/ dhcp.phase = 3 /\ dhcp' = [dhcp EXCEPT !.nak = TRUE, !.done = TRUE]
  BY <1>1 DEF handle_dhcp, Answer
<1>6. CASE UNCHANGED dhcp
  BY <1>2, <1>3, <1>6 DEF LeaseInv, LeaseShape, LeaseWire, LeaseClient, LeaseMatches, Renewing, Acknowledged, NoDhcp
<1>7. CASE /\ m.tx = dhcp.txid /\ dhcp.phase = 1 /\ m.type = "OFFER"
           /\ dhcp' = [dhcp EXCEPT !.offer = [ip |-> m.ip, gw |-> m.gw, ns |-> m.ns, tx |-> m.tx], !.done = TRUE]
  <2>1. LeaseShape'
    BY <1>2, <1>3, <1>7 DEF LeaseInv, LeaseShape
  <2>2. /\ dhcp'.offer.ip = m.ip /\ dhcp'.offer.gw = m.gw /\ dhcp'.offer.ns = m.ns /\ dhcp'.offer.tx = dhcp.txid
        /\ dhcp'.txid = dhcp.txid /\ dhcp'.phase = 1 /\ (dhcp'.waiting <=> dhcp.waiting) /\ (dhcp'.nak <=> dhcp.nak)
    BY <1>7 DEF LeaseInv, LeaseShape
  <2>3. OfServer(dhcp'.offer.ip, dhcp'.offer.gw, dhcp'.offer.ns)
    BY <1>4, <1>7, <2>2 DEF DhcpMessage
  <2>4. sh.pc \in {"d_arp", "d_wait"}
    BY <1>2, <1>7 DEF LeaseInv, LeaseClient
  <2>5. LeaseWire'
    BY <1>2, <1>3, <2>2, <2>3, <2>4 DEF LeaseInv, LeaseWire, Renewing, NoDhcp
  <2>6. LeaseClient' /\ LeaseMatches'
    BY <1>2, <2>2, <2>3, <2>4 DEF LeaseInv, LeaseClient, LeaseMatches
  <2> QED BY <2>1, <2>5, <2>6 DEF LeaseInv
<1>8. CASE /\ m.tx = dhcp.txid /\ dhcp.phase = 3 /\ m.type = "ACK"
           /\ dhcp' = [dhcp EXCEPT !.offer = [ip |-> m.ip, tx |-> m.tx, gw |-> IF m.gw # None THEN m.gw ELSE dhcp.offer.gw,
                                              ns |-> IF m.ns # None THEN m.ns ELSE dhcp.offer.ns],
                                   !.leased = TRUE, !.nak = FALSE, !.done = TRUE]
  <2>1. LeaseShape'
    BY <1>2, <1>3, <1>8 DEF LeaseInv, LeaseShape
  <2>2. /\ dhcp'.offer.ip = m.ip /\ dhcp'.offer.tx = dhcp.txid
        /\ dhcp'.offer.gw = IF m.gw # None THEN m.gw ELSE dhcp.offer.gw
        /\ dhcp'.offer.ns = IF m.ns # None THEN m.ns ELSE dhcp.offer.ns
        /\ dhcp'.txid = dhcp.txid /\ dhcp'.phase = 3 /\ (dhcp'.waiting <=> dhcp.waiting)
    BY <1>8 DEF LeaseInv, LeaseShape
  <2>3. m.ip = dhcp.offer.ip /\ m.ip # None
    BY <1>1, <1>8 DEF LeaseInv, LeaseWire, Renewing, Acknowledged
  <2>4. OfServer(dhcp'.offer.ip, dhcp'.offer.gw, dhcp'.offer.ns)
    <3>1. OfServer(dhcp.offer.ip, dhcp.offer.gw, dhcp.offer.ns)
      BY <2>3 DEF LeaseInv, LeaseWire
    <3> QED BY <1>4, <1>8, <2>2, <2>3, <3>1 DEF DhcpMessage, OfServer
  <2>5. sh.pc \in {"r_arp", "r_wait"}
    BY <1>2, <1>8 DEF LeaseInv, LeaseClient
  <2>6. LeaseWire'
    BY <1>2, <1>3, <1>8, <2>2, <2>3, <2>4, <2>5 DEF LeaseInv, LeaseWire, Renewing, Acknowledged, NoDhcp
  <2>7. LeaseClient' /\ LeaseMatches'
    BY <1>2, <2>2, <2>4, <2>5 DEF LeaseInv, LeaseClient, LeaseMatches
  <2> QED BY <2>1, <2>6, <2>7 DEF LeaseInv
<1>9. CASE dhcp.phase = 3 /\ dhcp' = [dhcp EXCEPT !.nak = TRUE, !.done = TRUE]
  <2>1. LeaseShape'
    BY <1>2, <1>3, <1>9 DEF LeaseInv, LeaseShape
  <2>2. /\ dhcp'.offer = dhcp.offer /\ dhcp'.nak
        /\ dhcp'.txid = dhcp.txid /\ dhcp'.phase = 3 /\ (dhcp'.waiting <=> dhcp.waiting)
    BY <1>9 DEF LeaseInv, LeaseShape
  <2>3. sh.pc \in {"r_arp", "r_wait"}
    BY <1>2, <1>9 DEF LeaseInv, LeaseClient
  <2>4. LeaseWire'
    BY <1>2, <1>3, <1>9, <2>2 DEF LeaseInv, LeaseWire, Renewing, Acknowledged, NoDhcp
  <2>5. LeaseClient' /\ LeaseMatches'
    BY <1>2, <2>2, <2>3 DEF LeaseInv, LeaseClient, LeaseMatches
  <2> QED BY <2>1, <2>4, <2>5 DEF LeaseInv
<1> QED BY <1>5, <1>6, <1>7, <1>8, <1>9

(* The messages of the servers. *)
LEMMA OffersAre ==
  ASSUME NEW s \in Servers, NEW t \in Nat
  PROVE  DhcpMessage(Offer(s, t), t) /\ Offer(s, t).type = "OFFER"
BY NetAssumption DEF DhcpMessage, OfServer, Offer

LEMMA AnswersAre ==
  ASSUME NEW t \in Nat, NEW reached, NEW m \in Answers(t, reached)
  PROVE  DhcpMessage(m, t) /\ m.tx = t /\ (m.type = "ACK" => m.ip = dhcp.offer.ip /\ m.ip # None)
<1>1. dhcp.offer.ip # None /\ m \in Acks(dhcp.offer, t)
  BY DEF Answers
<1>2. PICK g \in {dhcp.offer.ip[1], None} :
        \/ m = [k |-> "dhcp", type |-> "ACK", tx |-> t, src |-> dhcp.offer.ip[1], ip |-> dhcp.offer.ip, gw |-> g, ns |-> g]
        \/ m = [k |-> "dhcp", type |-> "NAK", tx |-> t, src |-> dhcp.offer.ip[1], ip |-> None, gw |-> None, ns |-> None]
  BY <1>1 DEF Acks
<1> QED BY <1>1, <1>2 DEF DhcpMessage

(* The client's own steps. *)
LEMMA LeaseInvClient == LeaseInv /\ ShellShape' /\ DhcpClient => LeaseInv'
<1> SUFFICES ASSUME LeaseInv, ShellShape', DhcpClient PROVE LeaseInv'
  OBVIOUS
<1>1. ShellShape /\ LeaseShape /\ LeaseWire /\ LeaseClient /\ LeaseMatches
  BY DEF LeaseInv
(* A new transaction, which nobody has answered yet. *)
<1>2. ASSUME cnt'.tx = cnt.tx + 1, dhcp'.txid = cnt.tx + 1, dhcp'.offer = dhcp.offer,
             \A m \in wire' : m \in wire \/ \E reached : m \in Answers(cnt.tx + 1, reached)
      PROVE  LeaseWire'
  <2>1. cnt.tx \in Nat /\ cnt'.tx \in Nat /\ cnt.tx <= cnt'.tx /\ dhcp'.txid \in 0..cnt'.tx
    BY <1>1, <1>2 DEF LeaseWire
  <2>2. ASSUME NEW m \in wire', m.k = "dhcp"
        PROVE  DhcpMessage(m, cnt'.tx) /\ Acknowledged(m)'
    <3>1. CASE m \in wire
      <4>1. DhcpMessage(m, cnt.tx)
        BY <1>1, <2>2, <3>1 DEF LeaseWire
      <4>2. m.tx # dhcp'.txid
        BY <1>2, <2>1, <4>1 DEF DhcpMessage
      <4> QED BY <2>1, <4>1, <4>2, DhcpMessageLater DEF Acknowledged
    <3>2. CASE \E reached : m \in Answers(cnt.tx + 1, reached)
      <4>1. DhcpMessage(m, cnt'.tx) /\ (m.type = "ACK" => m.ip = dhcp.offer.ip /\ m.ip # None)
        BY <1>2, <2>1, <3>2, AnswersAre
      <4> QED BY <1>2, <4>1 DEF Acknowledged
    <3> QED BY <1>2, <2>2, <3>1, <3>2
  <2> QED BY <1>1, <1>2, <2>1, <2>2 DEF LeaseWire
(* No new transaction, and nothing on the wire that counts. *)
<1>3. ASSUME UNCHANGED cnt, dhcp'.txid = dhcp.txid, dhcp'.offer = dhcp.offer, UNCHANGED wire, Renewing' => Renewing
      PROVE  LeaseWire'
  BY <1>1, <1>3 DEF LeaseWire, Acknowledged
<1>4. CASE DhcpStart \/ RenewStart
  <2>1. /\ dhcp' = [dhcp EXCEPT !.txid = cnt.tx + 1] /\ cnt' = [cnt EXCEPT !.tx = cnt.tx + 1]
        /\ sh.pc \in {"idle", "d_start"} /\ sh'.pc \in {"d_begin", "r_begin"} /\ UNCHANGED <<ifc, wire>>
    BY <1>4 DEF DhcpStart, RenewStart, Command, Idle, neighVars
  <2>2. LeaseShape' /\ cnt'.tx = cnt.tx + 1 /\ dhcp'.txid = cnt.tx + 1 /\ dhcp'.offer = dhcp.offer
    BY <1>1, <2>1 DEF LeaseShape
  <2>3. (dhcp'.waiting <=> dhcp.waiting)
    BY <1>1, <2>1 DEF LeaseShape
  <2>4. LeaseWire'
    BY <1>2, <2>1, <2>2
  <2>5. LeaseClient' /\ LeaseMatches'
    BY <1>1, <2>1, <2>3 DEF LeaseClient, LeaseMatches
  <2> QED BY <2>2, <2>4, <2>5 DEF LeaseInv
<1>5. CASE dhcp_auto_poll
  <2>1. /\ dhcp' = [dhcp EXCEPT !.txid = cnt.tx + 1, !.phase = 3, !.done = FALSE]
        /\ ~dhcp.waiting /\ UNCHANGED <<ifc, sh>>
    BY <1>5 DEF dhcp_auto_poll
  <2>2. \E n : cnt' = [cnt EXCEPT !.tx = cnt.tx + 1, !.events = n]
    BY <1>5, Zenon DEF dhcp_auto_poll
  <2>3. LeaseShape' /\ cnt'.tx = cnt.tx + 1 /\ dhcp'.txid = cnt.tx + 1 /\ dhcp'.offer = dhcp.offer
    BY <1>1, <2>1, <2>2 DEF LeaseShape
  <2>4. ~dhcp'.waiting /\ ~dhcp'.done /\ dhcp'.nak = dhcp.nak
    BY <1>1, <2>1 DEF LeaseShape
  <2>5. LeaseWire'
    <3>1. \A m \in wire' : m \in wire \/ \E reached : m \in Answers(cnt.tx + 1, reached)
      BY <1>5 DEF dhcp_auto_poll
    <3> QED BY <1>2, <2>3, <3>1
  <2>6. LeaseClient' /\ LeaseMatches'
    BY <1>1, <2>1, <2>3, <2>4 DEF LeaseClient, LeaseMatches
  <2> QED BY <2>1, <2>3, <2>5, <2>6 DEF LeaseInv
<1>6. CASE Discover
  <2>1. /\ dhcp' = [dhcp EXCEPT !.waiting = TRUE, !.phase = 1, !.nak = FALSE, !.done = FALSE]
        /\ UNCHANGED <<ifc, cnt>> /\ sh.pc \in {"d_begin", "d_wait"}
        /\ \E n : sh' = [sh EXCEPT !.pc = "d_arp", !.try = n, !.id = dhcp.txid]
    BY <1>6 DEF Discover
  <2>2. sh'.pc = "d_arp" /\ sh'.id = dhcp.txid
    BY <1>1, <2>1 DEF ShellShape
  <2>3. /\ LeaseShape' /\ dhcp'.txid = dhcp.txid /\ dhcp'.offer = dhcp.offer /\ dhcp'.waiting /\ dhcp'.phase = 1
        /\ ~dhcp'.nak /\ ~dhcp'.done
    BY <1>1, <2>1 DEF LeaseShape
  <2>4. NoDhcp
    BY <1>6 DEF Discover, ResolveBroadcast, ResolveBegin, IfHere, NoDhcp
  <2>5. LeaseWire'
    BY <1>1, <2>1, <2>2, <2>3, <2>4 DEF LeaseWire, Renewing, NoDhcp
  <2>6. LeaseClient' /\ LeaseMatches'
    BY <1>1, <2>1, <2>2, <2>3 DEF LeaseClient, LeaseMatches
  <2> QED BY <2>3, <2>5, <2>6 DEF LeaseInv
<1>7. CASE Discovered
  <2>1. sh.pc = "d_arp" /\ sh' = [sh EXCEPT !.pc = "d_wait"] /\ UNCHANGED <<dhcp, ifc, cnt>>
    BY <1>7 DEF Discovered, Goto
  <2>2. sh'.pc = "d_wait" /\ sh'.id = sh.id
    BY <1>1, <2>1 DEF ShellShape
  <2>3. ~Renewing'
    BY <1>1, <2>1, <2>2 DEF LeaseClient, Renewing
  <2>4. dhcp.txid \in Nat /\ cnt.tx \in Nat /\ dhcp.txid <= cnt.tx
    BY <1>1 DEF LeaseWire
  <2>5. ASSUME NEW m \in wire', m.k = "dhcp" PROVE DhcpMessage(m, cnt.tx)
    <3>1. m \in wire \/ \E s \in Servers : m = Offer(s, dhcp.txid)
      BY <1>7, <2>5 DEF Discovered
    <3>2. CASE m \in wire
      BY <1>1, <2>5, <3>2 DEF LeaseWire
    <3>3. CASE \E s \in Servers : m = Offer(s, dhcp.txid)
      BY <2>4, <3>3, OffersAre, DhcpMessageLater
    <3> QED BY <3>1, <3>2, <3>3
  <2>6. LeaseWire'
    BY <1>1, <2>1, <2>3, <2>5 DEF LeaseWire
  <2>7. LeaseShape' /\ LeaseClient' /\ LeaseMatches'
    BY <1>1, <2>1, <2>2 DEF LeaseShape, LeaseClient, LeaseMatches
  <2> QED BY <2>6, <2>7 DEF LeaseInv
<1>8. CASE RenewSend
  <2>1. /\ dhcp' = [dhcp EXCEPT !.waiting = TRUE, !.phase = 3, !.done = FALSE, !.nak = FALSE]
        /\ UNCHANGED <<ifc, cnt>> /\ sh.pc = "r_begin"
        /\ sh' = [sh EXCEPT !.pc = "r_arp", !.id = dhcp.txid]
    BY <1>8 DEF RenewSend
  <2>2. sh'.pc = "r_arp" /\ sh'.id = dhcp.txid
    BY <1>1, <2>1 DEF ShellShape
  <2>3. /\ LeaseShape' /\ dhcp'.txid = dhcp.txid /\ dhcp'.offer = dhcp.offer /\ dhcp'.waiting /\ dhcp'.phase = 3
        /\ ~dhcp'.nak /\ ~dhcp'.done
    BY <1>1, <2>1 DEF LeaseShape
  <2>4. NoDhcp
    BY <1>8 DEF RenewSend, ResolveBegin, IfHere, NoDhcp
  <2>5. LeaseWire'
    BY <1>1, <2>1, <2>3, <2>4 DEF LeaseWire, Renewing, Acknowledged, NoDhcp
  <2>6. LeaseClient' /\ LeaseMatches'
    BY <1>1, <2>1, <2>2, <2>3 DEF LeaseClient, LeaseMatches
  <2> QED BY <2>3, <2>5, <2>6 DEF LeaseInv
<1>9. CASE RenewSent
  <2>1. sh.pc = "r_arp" /\ sh' = [sh EXCEPT !.pc = "r_wait"] /\ UNCHANGED <<dhcp, ifc, cnt>>
    BY <1>9 DEF RenewSent, Goto
  <2>2. sh'.pc = "r_wait" /\ sh'.id = sh.id
    BY <1>1, <2>1 DEF ShellShape
  <2>3. Renewing
    BY <1>1, <2>1 DEF LeaseClient, Renewing
  <2>4. dhcp.txid \in Nat /\ cnt.tx \in Nat /\ dhcp.txid <= cnt.tx
    BY <1>1 DEF LeaseWire
  <2>5. ASSUME NEW m \in wire', m.k = "dhcp" PROVE DhcpMessage(m, cnt.tx) /\ Acknowledged(m)
    <3>1. m \in wire \/ m \in Answers(dhcp.txid, Reached(rs["sh"]))
      BY <1>9, <2>5 DEF RenewSent
    <3>2. CASE m \in wire
      BY <1>1, <2>3, <2>5, <3>2 DEF LeaseWire
    <3>3. CASE m \in Answers(dhcp.txid, Reached(rs["sh"]))
      BY <2>4, <3>3, AnswersAre, DhcpMessageLater DEF Acknowledged
    <3> QED BY <3>1, <3>2, <3>3
  <2>6. LeaseWire'
    BY <1>1, <2>1, <2>5 DEF LeaseWire, Acknowledged
  <2>7. LeaseShape' /\ LeaseClient' /\ LeaseMatches'
    BY <1>1, <2>1, <2>2 DEF LeaseShape, LeaseClient, LeaseMatches
  <2> QED BY <2>6, <2>7 DEF LeaseInv
(* The waiter is disarmed. *)
<1>10. CASE NoOffer \/ GotOffer \/ RenewStop
  <2>1. /\ dhcp' = [dhcp EXCEPT !.waiting = FALSE] /\ UNCHANGED <<ifc, cnt, wire>> /\ sh.pc \in {"d_wait", "r_wait"}
        /\ \/ sh.pc = "d_wait" /\ ~dhcp.done /\ (sh' = Idle \/ sh' = [sh EXCEPT !.pc = "b_init"])
           \/ sh.pc = "d_wait" /\ sh' = [sh EXCEPT !.pc = "d_adopt"]
           \/ sh.pc = "r_wait" /\ sh' = [sh EXCEPT !.pc = "r_end"]
    BY <1>10 DEF NoOffer, GotOffer, RenewStop, Goto, Return, neighVars
  <2>2. \/ sh'.pc \in {"idle", "b_init"}
        \/ sh.pc = "d_wait" /\ sh'.pc = "d_adopt" /\ sh'.id = sh.id
        \/ sh.pc = "r_wait" /\ sh'.pc = "r_end" /\ sh'.id = sh.id
    BY <1>1, <2>1 DEF ShellShape, Idle
  <2>3. LeaseShape' /\ ~dhcp'.waiting
    BY <1>1, <2>1 DEF LeaseShape
  <2>4. /\ dhcp'.txid = dhcp.txid /\ dhcp'.offer = dhcp.offer /\ dhcp'.phase = dhcp.phase
        /\ dhcp'.done = dhcp.done /\ dhcp'.nak = dhcp.nak
    BY <1>1, <2>1 DEF LeaseShape
  <2>5. LeaseWire'
    BY <1>3, <2>1, <2>2, <2>4 DEF Renewing
  <2>6. LeaseClient' /\ LeaseMatches'
    BY <1>1, <2>1, <2>2, <2>3, <2>4 DEF LeaseClient, LeaseMatches
  <2> QED BY <2>3, <2>5, <2>6 DEF LeaseInv
(* The end of a call. *)
<1>11. CASE BootInit \/ Adopt \/ RenewEnd
  <2>1. UNCHANGED <<dhcp, cnt, wire>> /\ sh.pc \in {"b_init", "d_adopt", "r_end"}
    BY <1>11 DEF BootInit, Adopt, RenewEnd, neighVars
  <2>2. ~dhcp.waiting
    BY <1>1, <2>1 DEF LeaseClient
  <2>3. LeaseWire' /\ LeaseShape'
    <3>1. sh'.pc # "r_begin"
      BY <1>1, <1>11 DEF BootInit, Adopt, RenewEnd, Goto, Return, Idle, ShellShape
    <3>2. LeaseShape'
      BY <1>1, <1>11, <2>1 DEF BootInit, Adopt, RenewEnd, LeaseShape
    <3> QED BY <1>3, <2>1, <3>1, <3>2 DEF Renewing
  <2>4. ASSUME sh'.pc = "idle" \/ (sh'.pc = "d_start" /\ UNCHANGED ifc) \/ sh'.pc = "d_rest",
               LeaseMatches',
               sh'.pc = "d_rest" => /\ ifc'.tx = ifc'.asked /\ ifc'.ip = dhcp.offer.ip
                                    /\ OfServer(dhcp.offer.ip, dhcp.offer.gw, dhcp.offer.ns)
        PROVE  LeaseInv'
    <3>1. LeaseClient'
      BY <2>1, <2>2, <2>4 DEF LeaseClient
    <3> QED BY <2>3, <2>4, <3>1 DEF LeaseInv
  <2>5. CASE BootInit
    <3>1. sh'.pc = "idle" /\ ifc'.tx = 0 /\ ifc'.asked = 0
      BY <2>5 DEF BootInit, Return, Idle
    <3> QED BY <2>4, <3>1 DEF LeaseMatches
  <2>6. CASE Adopt
    <3>1. CASE dhcp.done
      <4>1. sh'.pc = "d_rest" /\ sh'.id = sh.id
        BY <1>1, <2>6, <3>1 DEF Adopt, Goto, ShellShape
      <4>2. ifc'.ip = dhcp.offer.ip /\ ifc'.tx = dhcp.offer.tx /\ ifc'.asked = sh.id
        BY <1>1, <2>6, <3>1 DEF Adopt, LeaseShape
      <4>3. dhcp.offer.tx = sh.id /\ OfServer(dhcp.offer.ip, dhcp.offer.gw, dhcp.offer.ns)
        BY <1>1, <2>6, <3>1 DEF Adopt, LeaseClient
      <4> QED BY <2>4, <4>1, <4>2, <4>3 DEF LeaseMatches
    <3>2. CASE ~dhcp.done
      <4>1. sh'.pc = "idle" /\ UNCHANGED ifc /\ sh.pc # "d_rest"
        BY <2>6, <3>2 DEF Adopt, Return, Idle
      <4> QED BY <1>1, <2>4, <4>1 DEF LeaseMatches
    <3> QED BY <3>1, <3>2
  <2>7. CASE RenewEnd
    <3>1. CASE dhcp.done /\ ~dhcp.nak
      <4>1. sh'.pc = "idle"
        BY <2>7, <3>1 DEF RenewEnd, Return, Idle
      <4>2. dhcp.offer.tx = sh.id /\ OfServer(dhcp.offer.ip, dhcp.offer.gw, dhcp.offer.ns)
        BY <1>1, <2>7, <3>1 DEF RenewEnd, LeaseClient
      <4>3. /\ ifc'.ip = dhcp.offer.ip /\ ifc'.tx = dhcp.offer.tx /\ ifc'.asked = sh.id
            /\ ifc'.gw = IF dhcp.offer.gw # None THEN dhcp.offer.gw ELSE ifc.gw
            /\ ifc'.ns = IF dhcp.offer.ns # None THEN dhcp.offer.ns ELSE ifc.ns
        BY <2>7, <3>1 DEF RenewEnd
      <4> QED BY <2>4, <4>1, <4>2, <4>3 DEF LeaseMatches, OfServer
    <3>2. CASE ~(dhcp.done /\ ~dhcp.nak)
      <4>1. sh'.pc = "d_start" /\ UNCHANGED ifc /\ sh.pc # "d_rest"
        BY <1>1, <2>7, <3>2 DEF RenewEnd, Goto, ShellShape
      <4> QED BY <1>1, <2>4, <4>1 DEF LeaseMatches
    <3> QED BY <3>1, <3>2
  <2> QED BY <1>11, <2>5, <2>6, <2>7
<1>12. CASE AdoptRest
  <2>1. /\ dhcp' = [dhcp EXCEPT !.leased = TRUE] /\ UNCHANGED <<cnt, wire>> /\ sh.pc = "d_rest"
        /\ ifc' = [ifc EXCEPT !.gw = dhcp.offer.gw, !.ns = dhcp.offer.ns]
    BY <1>12 DEF AdoptRest
  <2>2. sh'.pc = "idle"
    BY <1>12 DEF AdoptRest, Return, Idle
  <2>3. /\ LeaseShape' /\ dhcp'.txid = dhcp.txid /\ dhcp'.offer = dhcp.offer /\ dhcp'.phase = dhcp.phase
        /\ (dhcp'.waiting <=> dhcp.waiting)
    BY <1>1, <2>1 DEF LeaseShape
  <2>4. /\ ifc'.ip = ifc.ip /\ ifc'.tx = ifc.tx /\ ifc'.asked = ifc.asked
        /\ ifc'.gw = dhcp.offer.gw /\ ifc'.ns = dhcp.offer.ns
    BY <1>1, <2>1 DEF LeaseShape
  <2>5. LeaseWire'
    BY <1>3, <2>1, <2>2, <2>3 DEF Renewing
  <2>6. LeaseClient' /\ LeaseMatches'
    BY <1>1, <2>1, <2>2, <2>3, <2>4 DEF LeaseClient, LeaseMatches, OfServer
  <2> QED BY <2>3, <2>5, <2>6 DEF LeaseInv
<1> QED BY <1>4, <1>5, <1>6, <1>7, <1>8, <1>9, <1>10, <1>11, <1>12 DEF DhcpClient

LEMMA LeaseInvHolds == Spec => []LeaseInv
<1>1. Init => LeaseInv
  <2> SUFFICES ASSUME Init PROVE LeaseInv
    OBVIOUS
  <2>1. ShellShape /\ sh.pc = "idle"
    BY DEF Init, ShellShape, Idle
  <2>2. LeaseShape
    BY DEF Init, LeaseShape, NoLease
  <2>3. /\ cnt.tx = 0 /\ dhcp.txid = 0 /\ dhcp.phase = 0 /\ ~dhcp.waiting /\ dhcp.offer.ip = None /\ wire = {}
        /\ ifc.tx = 0 /\ ifc.asked = 0
    BY DEF Init, NoLease
  <2> QED BY <2>1, <2>2, <2>3 DEF LeaseInv, LeaseWire, LeaseClient, LeaseMatches, Renewing
<1>2. LeaseInv /\ [Next]_vars => LeaseInv'
  <2>1. LeaseInv => ShellShape
    BY DEF LeaseInv
  <2> QED BY <2>1, ShellShaped, NextLeaseOps, LeaseInvQuiet, LeaseInvDelivered, LeaseInvClient
<1> QED BY <1>1, <1>2, PTL DEF Spec

(* The address, the gateway and the name server in use come from one server  *)
(* and from an answer to the transaction that net_dhcp or net_dhcp_renew had *)
(* sent: for any servers, any number of transactions, and dhcp_auto_poll and *)
(* handle_dhcp at any time in between.                                       *)
THEOREM LeaseTruth == Spec => []LeaseMatches
<1>1. LeaseInv => LeaseMatches
  BY DEF LeaseInv
<1> QED BY <1>1, LeaseInvHolds, PTL

-----------------------------------------------------------------------------
(* Names.                                                                    *)

(* The zone can be followed from every name: were there a least number of    *)
(* names to which a way does not extend, it would extend there.              *)
LEMMA ChainFollows == ASSUME NEW x PROVE Follows(Chain(x), x)
<1> DEFINE Way(f, n) == f = [i \in 0..n |-> IF i = 0 THEN x ELSE Zone1(f[i - 1]).v]
           short == {n \in Nat : ~\E f : Way(f, n)}
<1>1. short = {}
  <2> SUFFICES ASSUME short # {} PROVE FALSE
    OBVIOUS
  <2>1. PICK n \in short : \A k \in short : n <= k
    <3>1. short \in SUBSET Nat
      OBVIOUS
    <3> QED BY <3>1, LeastNumber
  <2>2. n \in Nat /\ ~\E f : Way(f, n)
    OBVIOUS
  <2>3. n # 0
    <3>1. PICK f : f = [i \in 0..0 |-> x]
      OBVIOUS
    <3>2. Way(f, 0)
      BY <3>1
    <3> QED BY <2>2, <3>2
  <2>4. PICK f : Way(f, n - 1)
    <3>1. n - 1 \in Nat /\ n - 1 \notin short
      BY <2>1, <2>2, <2>3
    <3> QED BY <3>1
  <2>5. PICK g : g = [i \in 0..n |-> IF i = n THEN Zone1(f[n - 1]).v ELSE f[i]]
    OBVIOUS
  <2>6. \A i \in 0..n : g[i] = IF i = 0 THEN x ELSE Zone1(g[i - 1]).v
    <3>1. SUFFICES ASSUME NEW i \in 0..n PROVE g[i] = IF i = 0 THEN x ELSE Zone1(g[i - 1]).v
      OBVIOUS
    <3>2. CASE i = n
      <4>1. g[i] = Zone1(f[n - 1]).v /\ g[i - 1] = f[n - 1] /\ i # 0
        BY <2>2, <2>3, <2>5, <3>2
      <4> QED BY <3>2, <4>1
    <3>3. CASE i # n
      <4>1. i \in 0..n-1 /\ g[i] = f[i] /\ (i # 0 => i - 1 \in 0..n /\ i - 1 # n /\ g[i - 1] = f[i - 1])
        BY <2>2, <2>5, <3>3
      <4>2. f[i] = IF i = 0 THEN x ELSE Zone1(f[i - 1]).v
        BY <2>4, <4>1
      <4> QED BY <4>1, <4>2
    <3> QED BY <3>2, <3>3
  <2>7. Way(g, n)
    BY <2>5, <2>6
  <2> QED BY <2>2, <2>7
<1>2. \E f : Way(f, HOPS - 1)
  <2>1. HOPS - 1 \in Nat
    BY NetAssumption
  <2> QED BY <1>1, <2>1
<1>3. \E f : Follows(f, x)
  BY <1>2 DEF Follows
<1> QED BY <1>3, Zenon DEF Chain

(* Its first name, and the next of each. *)
LEMMA ChainNext ==
  ASSUME NEW x
  PROVE  /\ Chain(x)[0] = x
         /\ \A j \in 0..HOPS-2 : Chain(x)[j + 1] = Zone1(Chain(x)[j]).v
<1>1. PICK f : f = Chain(x)
  OBVIOUS
<1>2. f = [i \in 0..HOPS-1 |-> IF i = 0 THEN x ELSE Zone1(f[i - 1]).v]
  BY <1>1, ChainFollows DEF Follows
<1>3. HOPS \in Nat \ {0}
  BY NetAssumption
<1>4. f[0] = x
  BY <1>2, <1>3
<1>5. ASSUME NEW j \in 0..HOPS-2 PROVE f[j + 1] = Zone1(f[j]).v
  <2>1. PICK i : i = j + 1
    OBVIOUS
  <2>2. i \in 0..HOPS-1 /\ i # 0 /\ i - 1 = j
    BY <1>3, <1>5, <2>1
  <2>3. f[i] = Zone1(f[i - 1]).v
    BY <1>2, <2>2
  <2> QED BY <2>1, <2>2, <2>3
<1> QED BY <1>1, <1>4, <1>5

(* An address on the way is one that AddressOf names. *)
LEMMA ChainAddress ==
  ASSUME NEW x, NEW j \in 0..HOPS-1, Zone1(Chain(x)[j]).t = "A"
  PROVE  Zone1(Chain(x)[j]).v \in AddressOf(x)
<1> DEFINE at[i \in 0..HOPS-1] == IF i = 0 THEN x ELSE Zone1(at[i - 1]).v
<1>1. at = Chain(x)
  BY Zenon DEF Chain, Follows
<1>2. AddressOf(x) = {Zone1(at[i]).v : i \in {k \in 0..HOPS-1 : Zone1(at[k]).t = "A"}}
  BY Zenon DEF AddressOf
<1> HIDE DEF at
<1> QED BY <1>1, <1>2

(* What the socket operations leave in the ring. *)
LEMMA SocksShaped ==
  /\ SockShape(Sock0) /\ \A port : SockShape(Bound([Sock0 EXCEPT !.used = TRUE], port))
  /\ \A port : \A i \in RingPlaces : Bound([Sock0 EXCEPT !.used = TRUE], port).q[i] = NoDgram
  /\ \A u : SockShape(u) =>
       /\ SockShape(Taken(u)) /\ Taken(u).q = u.q
       /\ \A n \in 1..UDP_QLEN : SockShape(Counted(u, n)) /\ Counted(u, n).q = u.q
       /\ \A d : SockShape(enqueue(u, d)) /\ \A i \in RingPlaces : enqueue(u, d).q[i] \in {u.q[i], d}
<1>1. UDP_QLEN \in Nat \ {0} /\ 0 \in RingPlaces /\ 0 \in 0..UDP_QLEN
  BY UdpAssumption DEF RingPlaces
<1>2. \A x \in RingPlaces : (x + 1) % UDP_QLEN \in RingPlaces
  BY <1>1 DEF RingPlaces
<1>3. SockShape(Sock0) /\ \A port : SockShape(Bound([Sock0 EXCEPT !.used = TRUE], port))
  <2>1. [i \in 0..UDP_QLEN-1 |-> NoDgram] = [i \in RingPlaces |-> NoDgram]
    BY DEF RingPlaces
  <2>2. PICK e : e = [i \in RingPlaces |-> NoDgram]
    OBVIOUS
  <2>3. e = [i \in RingPlaces |-> e[i]]
    BY <2>2
  <2>4. Sock0 = [used |-> FALSE, bound |-> FALSE, port |-> 0, qr |-> 0, qw |-> 0, qn |-> 0, q |-> e]
    BY <2>1, <2>2 DEF Sock0
  <2>5. SockShape(Sock0)
    BY <1>1, <2>3, <2>4 DEF SockShape
  <2>6. ASSUME NEW port PROVE SockShape(Bound([Sock0 EXCEPT !.used = TRUE], port))
    <3>1. PICK u : u = [[Sock0 EXCEPT !.used = TRUE] EXCEPT !.bound = TRUE, !.port = port, !.qn = 0, !.qr = 0, !.qw = 0]
      OBVIOUS
    <3>2. u.qr = 0 /\ u.qw = 0 /\ u.qn = 0 /\ u.q = e
      BY <2>4, <3>1
    <3>3. u = [used |-> u.used, bound |-> u.bound, port |-> u.port, qr |-> u.qr, qw |-> u.qw, qn |-> u.qn, q |-> u.q]
      BY <2>4, <3>1
    <3>4. SockShape(u)
      BY <1>1, <2>3, <3>2, <3>3 DEF SockShape
    <3> QED BY <3>1, <3>4 DEF Bound
  <2> QED BY <2>5, <2>6
<1>4. \A port : \A i \in RingPlaces : Bound([Sock0 EXCEPT !.used = TRUE], port).q[i] = NoDgram
  BY DEF Sock0, Bound, RingPlaces
<1>5. ASSUME NEW u, SockShape(u)
      PROVE  /\ SockShape(Taken(u)) /\ Taken(u).q = u.q
             /\ \A n \in 1..UDP_QLEN : SockShape(Counted(u, n)) /\ Counted(u, n).q = u.q
             /\ \A d : SockShape(enqueue(u, d)) /\ \A i \in RingPlaces : enqueue(u, d).q[i] \in {u.q[i], d}
  <2>1. SockShape(Taken(u)) /\ Taken(u).q = u.q
    <3>1. PICK x : x = (u.qr + 1) % UDP_QLEN
      OBVIOUS
    <3>2. x \in RingPlaces
      BY <1>2, <1>5, <3>1 DEF SockShape
    <3>3. Taken(u) = [u EXCEPT !.qr = x]
      BY <3>1 DEF Taken
    <3> QED BY <1>5, <3>2, <3>3 DEF SockShape
  <2>2. ASSUME NEW n \in 1..UDP_QLEN PROVE SockShape(Counted(u, n)) /\ Counted(u, n).q = u.q
    <3>1. PICK x : x = n - 1
      OBVIOUS
    <3>2. x \in 0..UDP_QLEN
      BY <1>1, <3>1
    <3>3. Counted(u, n) = [u EXCEPT !.qn = x]
      BY <3>1 DEF Counted
    <3> QED BY <1>5, <3>2, <3>3 DEF SockShape
  <2>3. ASSUME NEW d PROVE SockShape(enqueue(u, d)) /\ \A i \in RingPlaces : enqueue(u, d).q[i] \in {u.q[i], d}
    <3>1. CASE u.qn >= UDP_QLEN
      BY <1>5, <3>1 DEF enqueue
    <3>2. CASE ~(u.qn >= UDP_QLEN)
      <4>1. PICK x : x = (u.qw + 1) % UDP_QLEN
        OBVIOUS
      <4>2. PICK n : n = u.qn + 1
        OBVIOUS
      <4>3. PICK q : q = [u.q EXCEPT ![u.qw] = d]
        OBVIOUS
      <4>4. x \in RingPlaces /\ n \in 0..UDP_QLEN
        BY <1>1, <1>2, <1>5, <3>2, <4>1, <4>2 DEF SockShape
      <4>5. q = [i \in RingPlaces |-> q[i]] /\ \A i \in RingPlaces : q[i] \in {u.q[i], d}
        BY <1>5, <4>3 DEF SockShape
      <4>6. enqueue(u, d) = [u EXCEPT !.q = q, !.qw = x, !.qn = n]
        BY <1>5, <3>2, <4>1, <4>2, <4>3 DEF enqueue, SockShape
      <4> QED BY <1>5, <4>4, <4>5, <4>6 DEF SockShape
    <3> QED BY <3>1, <3>2
  <2> QED BY <2>1, <2>2, <2>3
<1> QED BY <1>3, <1>4, <1>5

(* A step that is neither the client's nor the arrival of an answer. *)
DnsQuiet ==
  /\ \A m \in wire' : m.k = "dns" => m \in wire
  /\ cnt' = [tx |-> cnt'.tx, id |-> cnt.id, events |-> cnt'.events]
  /\ UNCHANGED socks /\ dns' \subseteq dns
  /\ UNCHANGED sh \/ (sh.pc \notin AskPc /\ sh'.pc \notin AskPc)
DnsDelivered ==
  /\ \A m \in wire' : m.k = "dns" => m \in wire
  /\ cnt' = [tx |-> cnt'.tx, id |-> cnt.id, events |-> cnt'.events]
  /\ UNCHANGED <<sh, dns>>
  /\ \E m \in wire : m.k = "dns" /\ socks' = Handled(DnsPort, [id |-> m.id, ans |-> m.ans])
DnsClient == DnsStart \/ DnsSend \/ DnsSent \/ DnsTake \/ DnsGot \/ DnsTimeout

(* What every step does to names, queries and answers is one of these.       *)
LEMMA NextDnsOps == DnsInv /\ [Next]_vars => DnsQuiet \/ DnsDelivered \/ DnsClient
<1> SUFFICES ASSUME DnsInv, [Next]_vars, ~DnsClient PROVE DnsQuiet \/ DnsDelivered
  OBVIOUS
<1>1. \A m \in wire' : m.k = "dns" => m \in wire
  BY FramesDrawn DEF DnsClient
<1>2. ShellShape /\ cnt = [tx |-> cnt.tx, id |-> cnt.id, events |-> cnt.events]
  BY DEF DnsInv, DnsIds
<1>3. ASSUME UNCHANGED cnt \/ (\E n : cnt' = [cnt EXCEPT !.tx = n]) \/ (\E n : cnt' = [cnt EXCEPT !.events = n])
                \/ \E n, k : cnt' = [cnt EXCEPT !.tx = n, !.events = k]
      PROVE  cnt' = [tx |-> cnt'.tx, id |-> cnt.id, events |-> cnt'.events]
  BY <1>2, <1>3
<1>4. CASE Deliver \/ (DeliverCopy /\ Event)
  <2>1. UNCHANGED <<dns, sh>>
    BY <1>4 DEF Deliver, DeliverCopy, net_handle_eth
  <2>2. UNCHANGED cnt \/ \E n : cnt' = [cnt EXCEPT !.events = n]
    BY <1>4, Zenon DEF Deliver, Event
  <2>3. PICK m \in wire : net_handle_eth(m)
    BY <1>4 DEF Deliver, DeliverCopy
  <2>4. UNCHANGED socks \/ (m.k = "dns" /\ socks' = Handled(DnsPort, [id |-> m.id, ans |-> m.ans]))
    BY <2>3 DEF net_handle_eth
  <2> QED BY <1>1, <1>3, <2>1, <2>2, <2>4 DEF DnsQuiet, DnsDelivered
<1>5. CASE Event /\ ~DeliverCopy
  <2>1. UNCHANGED <<sh, socks>> /\ dns' \subseteq dns
    BY <1>5 DEF Event, NeighbourAsks, Redirect, RedirExpire, Aging, DnsExpire
  <2>2. \E n : cnt' = [cnt EXCEPT !.events = n]
    BY <1>5, Zenon DEF Event
  <2> QED BY <1>1, <1>3, <2>1, <2>2 DEF DnsQuiet
<1>6. CASE PingStart \/ PingSend \/ PingEnd \/ Ping6Start \/ Ping6Send \/ Ping6End
  <2>1. UNCHANGED <<dns, socks, cnt>>
    BY <1>6 DEF PingStart, PingSend, PingEnd, Ping6Start, Ping6Send, Ping6End
  <2>2. sh.pc \notin AskPc /\ sh'.pc \notin AskPc
    BY <1>2, <1>6, PingMoves DEF PingPc, AskPc
  <2> QED BY <1>1, <1>3, <2>1, <2>2 DEF DnsQuiet
<1>7. CASE \/ DhcpStart \/ Discover \/ Discovered \/ NoOffer \/ BootInit \/ GotOffer \/ Adopt \/ AdoptRest
           \/ RenewStart \/ RenewSend \/ RenewSent \/ RenewStop \/ RenewEnd
  <2>1. UNCHANGED <<dns, socks>>
    BY <1>7 DEF DhcpStart, Discover, Discovered, NoOffer, BootInit, GotOffer, Adopt, AdoptRest,
                RenewStart, RenewSend, RenewSent, RenewStop, RenewEnd
  <2>2. UNCHANGED cnt \/ \E n : cnt' = [cnt EXCEPT !.tx = n]
    BY <1>7, Zenon DEF DhcpStart, Discover, Discovered, NoOffer, BootInit, GotOffer, Adopt, AdoptRest,
                       RenewStart, RenewSend, RenewSent, RenewStop, RenewEnd
  <2>3. sh.pc \notin AskPc /\ sh'.pc \notin AskPc
    <3>1. CASE DhcpStart \/ RenewStart
      BY <3>1 DEF DhcpStart, RenewStart, Command, Idle, AskPc
    <3>2. CASE Discover \/ Discovered \/ RenewSend \/ RenewSent
      BY <1>2, <3>2 DEF Discover, Discovered, RenewSend, RenewSent, Goto, ShellShape, AskPc
    <3>3. CASE NoOffer \/ BootInit \/ GotOffer \/ Adopt \/ AdoptRest \/ RenewStop \/ RenewEnd
      BY <1>2, <3>3 DEF NoOffer, BootInit, GotOffer, Adopt, AdoptRest, RenewStop, RenewEnd, Goto, Return, Idle, ShellShape, AskPc
    <3> QED BY <1>7, <3>1, <3>2, <3>3
  <2> QED BY <1>1, <1>3, <2>1, <2>2, <2>3 DEF DnsQuiet
<1>8. CASE dhcp_auto_poll
  <2>1. UNCHANGED <<dns, socks, sh>>
    BY <1>8 DEF dhcp_auto_poll
  <2>2. \E n, k : cnt' = [cnt EXCEPT !.tx = n, !.events = k]
    BY <1>8, Zenon DEF dhcp_auto_poll
  <2> QED BY <1>1, <1>3, <2>1, <2>2 DEF DnsQuiet
<1>9. CASE Resolving("sh") \/ Resolving("pr") \/ Resolving6 \/ ProcSend \/ ProcSent \/ Solicitation \/ UNCHANGED vars
  <2>1. UNCHANGED <<dns, socks, sh, cnt>>
    BY <1>9 DEF Resolving, Resolving6, ProcSend, ProcSent, Solicitation, netVars, vars
  <2> QED BY <1>1, <1>3, <2>1 DEF DnsQuiet
<1> QED BY <1>4, <1>5, <1>6, <1>7, <1>8, <1>9 DEF Next, Shell, Process, Interrupts, Event, DnsClient

LEMMA DnsInvQuiet == DnsInv /\ ShellShape' /\ DnsQuiet => DnsInv'
<1> SUFFICES ASSUME DnsInv, ShellShape', DnsQuiet PROVE DnsInv'
  OBVIOUS
<1>1. cnt'.id = cnt.id /\ UNCHANGED socks /\ (UNCHANGED sh \/ (sh.pc \notin AskPc /\ sh'.pc \notin AskPc))
  BY DEF DnsQuiet
<1>2. SocksInv'
  BY <1>1 DEF DnsInv, SocksInv, AskPc
<1>3. DnsIds'
  BY <1>1 DEF DnsInv, DnsIds, DnsQuiet, AskPc
<1>4. \A m \in wire' : m.k = "dns" => Good(sh', m)
  BY <1>1 DEF DnsInv, DnsQuiet, Good, Awaits
<1>5. sh'.pc \in AskPc => DnsWay'
  BY <1>1 DEF DnsInv, DnsWay, Good, Awaits, OnTheWay
<1>6. DnsTrue'
  BY DEF DnsInv, DnsQuiet, DnsTrue
<1>7. (\A m \in wire : m.k = "dns" => Good(sh, m))'
  BY <1>4 DEF Good, Awaits, OnTheWay
<1> QED BY <1>2, <1>3, <1>5, <1>6, <1>7 DEF DnsInv

(* An answer that arrives is one that may be on the wire. *)
LEMMA DnsInvDelivered == DnsInv /\ ShellShape' /\ DnsDelivered => DnsInv'
<1> SUFFICES ASSUME DnsInv, ShellShape', DnsDelivered PROVE DnsInv'
  OBVIOUS
<1>1. cnt'.id = cnt.id /\ UNCHANGED <<sh, dns>> /\ \A m \in wire' : m.k = "dns" => m \in wire
  BY DEF DnsDelivered
<1>2. PICK m \in wire : m.k = "dns" /\ socks' = Handled(DnsPort, [id |-> m.id, ans |-> m.ans])
  BY DEF DnsDelivered
<1>3. PICK d : d = [id |-> m.id, ans |-> m.ans]
  OBVIOUS
<1>4. d.id \in 0..cnt.id /\ Good(sh, d)
  BY <1>2, <1>3 DEF DnsInv, DnsIds, Good
<1>5. UNCHANGED socks \/ \E s \in Fds : socks' = [socks EXCEPT ![s] = enqueue(socks[s], d)]
  <2>1. udp_sock_bound(DnsPort) \in SUBSET Nat /\ udp_sock_bound(DnsPort) \subseteq Fds
    BY UdpAssumption DEF udp_sock_bound, Fds
  <2>2. CASE udp_sock_bound(DnsPort) = {}
    BY <1>2, <2>2 DEF Handled
  <2>3. CASE udp_sock_bound(DnsPort) # {}
    <3>1. Min(udp_sock_bound(DnsPort)) \in Fds
      BY <2>1, <2>3, MinIsLeast
    <3> QED BY <1>2, <1>3, <2>3, <3>1 DEF Handled
  <2> QED BY <2>2, <2>3
<1>6. SocksInv' /\ \A i \in RingPlaces : socks'[Fd].q[i] \in {socks[Fd].q[i], d}
  <2>1. SocksInv /\ Fd \in Fds
    BY UdpAssumption DEF DnsInv, Fd, Fds
  <2>2. CASE UNCHANGED socks
    BY <1>1, <2>1, <2>2 DEF SocksInv
  <2>3. CASE \E s \in Fds : socks' = [socks EXCEPT ![s] = enqueue(socks[s], d)]
    <3>1. PICK s \in Fds : socks' = [socks EXCEPT ![s] = enqueue(socks[s], d)]
      BY <2>3
    <3>2. SockShape(enqueue(socks[s], d)) /\ \A i \in RingPlaces : enqueue(socks[s], d).q[i] \in {socks[s].q[i], d}
      BY <2>1, SocksShaped DEF SocksInv
    <3>3. /\ socks' = [t \in Fds |-> socks'[t]]
          /\ \A t \in Fds : socks'[t] = IF t = s THEN enqueue(socks[s], d) ELSE socks[t]
      BY <2>1, <3>1 DEF SocksInv
    <3> QED BY <1>1, <2>1, <3>2, <3>3 DEF SocksInv
  <2> QED BY <1>5, <2>2, <2>3
<1>7. DnsIds'
  BY <1>1, <1>4, <1>6 DEF DnsInv, DnsIds, DnsDelivered, AskPc
<1>8. (\A f \in wire : f.k = "dns" => Good(sh, f))'
  BY <1>1 DEF DnsInv, Good, Awaits, OnTheWay
<1>9. sh.pc \in AskPc => DnsWay'
  <2> SUFFICES ASSUME sh.pc \in AskPc PROVE DnsWay'
    OBVIOUS
  <2>1. DnsWay
    BY DEF DnsInv
  <2>2. \A i \in RingPlaces : Good(sh, socks'[Fd].q[i])
    BY <1>4, <1>6, <2>1 DEF DnsWay
  <2> QED BY <1>1, <2>1, <2>2 DEF DnsWay, Good, Awaits, OnTheWay
<1> QED BY <1>1, <1>6, <1>7, <1>8, <1>9 DEF DnsInv, DnsTrue

(* The queries are over. *)
LEMMA DnsInvOver ==
  ASSUME DnsInv, ShellShape', sh'.pc \notin AskPc, UNCHANGED <<wire, cnt>>, DnsTrue',
         UNCHANGED socks \/ socks' = [socks EXCEPT ![Fd] = Sock0]
  PROVE  DnsInv'
<1>1. Fd \in Fds
  BY UdpAssumption DEF Fd, Fds
<1>2. SocksInv'
  BY <1>1, SocksShaped DEF DnsInv, SocksInv, AskPc
<1>3. DnsIds'
  BY DEF DnsInv, DnsIds, AskPc
<1>4. (\A f \in wire : f.k = "dns" => Good(sh, f))'
  BY DEF Good, Awaits
<1> QED BY <1>2, <1>3, <1>4 DEF DnsInv

(* The queries go on: what is awaited was awaited, and the way is no shorter. *)
GoesOn ==
  /\ sh'.pc \in AskPc /\ sh'.arg = sh.arg /\ sh.hop <= sh'.hop
  /\ \A id \in 0..cnt.id : Awaits(sh', id) => Awaits(sh, id)
LEMMA GoodGoesOn ==
  ASSUME GoesOn, sh.hop \in 0..HOPS-1, sh'.hop \in 0..HOPS-1, NEW d, Good(sh, d), d.id \in 0..cnt.id
  PROVE  Good(sh', d)
<1> SUFFICES ASSUME Awaits(sh', d.id) PROVE OnTheWay(d.ans, sh.arg, sh'.hop)
  BY DEF Good, GoesOn
<1>1. OnTheWay(d.ans, sh.arg, sh.hop)
  BY DEF Good, GoesOn
<1>2. \A j \in 0..sh.hop : j \in 0..sh'.hop
  BY NetAssumption DEF GoesOn
<1> QED BY <1>1, <1>2 DEF OnTheWay

OnName(name, x, hop) == name = Junk \/ \E j \in 0..hop : name = Chain(x)[j]
LEMMA DnsInvGoesOn ==
  ASSUME DnsInv, ShellShape', sh.pc \in AskPc, GoesOn,
         sh'.hop \in 0..HOPS-1, OnName(sh'.name, sh.arg, sh'.hop),
         cnt' = [tx |-> cnt'.tx, id |-> cnt'.id, events |-> cnt'.events],
         cnt'.id \in Nat, cnt.id <= cnt'.id, sh'.id \in 0..cnt'.id,
         \A m \in wire' : m.k = "dns" => m \in wire \/ (m.id \in 0..cnt'.id /\ Good(sh', m)),
         SocksInv', socks'[Fd].q = socks[Fd].q, UNCHANGED dns,
         sh'.pc = "q_got" => sh'.dgram \in {socks[Fd].q[i] : i \in RingPlaces}
  PROVE  DnsInv'
<1>1. DnsWay /\ DnsIds /\ sh.hop \in 0..HOPS-1
  BY DEF DnsInv, DnsWay
<1>2. \A id \in 0..cnt.id : id \in 0..cnt'.id
  BY <1>1 DEF DnsIds
<1>3. ASSUME NEW i \in RingPlaces
      PROVE  Good(sh', socks[Fd].q[i]) /\ socks[Fd].q[i].id \in 0..cnt'.id
  <2>1. Good(sh, socks[Fd].q[i]) /\ socks[Fd].q[i].id \in 0..cnt.id
    BY <1>1 DEF DnsWay, DnsIds
  <2> QED BY <1>1, <1>2, <2>1, GoodGoesOn
<1>4. ASSUME NEW m \in wire', m.k = "dns" PROVE Good(sh', m) /\ m.id \in 0..cnt'.id
  <2>1. CASE m \in wire
    <3>1. Good(sh, m) /\ m.id \in 0..cnt.id
      BY <1>1, <1>4, <2>1 DEF DnsInv, DnsIds
    <3> QED BY <1>1, <1>2, <3>1, GoodGoesOn
  <2> QED BY <1>4, <2>1
<1>5. DnsIds'
  <2>1. sh'.pc = "q_got" => sh'.dgram.id \in 0..cnt'.id
    BY <1>3
  <2> QED BY <1>3, <1>4, <2>1 DEF DnsIds, GoesOn
<1>6. DnsWay'
  <2>1. sh'.arg = sh.arg
    BY DEF GoesOn
  <2>2. sh'.pc = "q_got" => Good(sh', sh'.dgram)
    BY <1>3
  <2>3. \A i \in RingPlaces : Good(sh', socks'[Fd].q[i])
    BY <1>3
  <2>4. sh'.name = Junk \/ \E j \in 0..sh'.hop : sh'.name = Chain(sh'.arg)[j]
    BY <2>1 DEF OnName
  <2> QED BY <2>2, <2>3, <2>4 DEF DnsWay, Good, Awaits, OnTheWay
<1>7. (\A f \in wire : f.k = "dns" => Good(sh, f))'
  BY <1>4 DEF Good, Awaits, OnTheWay
<1>8. DnsTrue'
  BY DEF DnsInv, DnsTrue
<1> QED BY <1>5, <1>6, <1>7, <1>8 DEF DnsInv

(* The socket of the queries is replaced by one of the right shape. *)
LEMMA SocksInvFd ==
  ASSUME SocksInv, NEW u, SockShape(u), socks' = [socks EXCEPT ![Fd] = u], sh'.pc = "q_got" => sh'.n \in 1..UDP_QLEN
  PROVE  SocksInv' /\ socks'[Fd] = u
<1>1. Fd \in Fds
  BY UdpAssumption DEF Fd, Fds
<1>2. socks' = [t \in Fds |-> socks'[t]] /\ \A t \in Fds : socks'[t] = IF t = Fd THEN u ELSE socks[t]
  BY <1>1 DEF SocksInv
<1> QED BY <1>1, <1>2 DEF SocksInv

(* The client's own steps. *)
LEMMA DnsInvClient == DnsInv /\ ShellShape' /\ DnsClient => DnsInv'
<1> SUFFICES ASSUME DnsInv, ShellShape', DnsClient PROVE DnsInv'
  OBVIOUS
<1>1. ShellShape /\ SocksInv /\ DnsIds /\ DnsTrue
  BY DEF DnsInv
<1>2. Idle.pc \notin AskPc
  BY DEF Idle, AskPc
<1>3. UNCHANGED dns => DnsTrue'
  BY <1>1 DEF DnsTrue
<1>4. CASE DnsStart
  <2>1. UNCHANGED <<wire, cnt, dns>>
    BY <1>4 DEF DnsStart, neighVars
  <2>2. CASE Return /\ UNCHANGED socks
    BY <1>2, <1>3, <2>1, <2>2, DnsInvOver DEF Return
  <2>3. CASE ~(Return /\ UNCHANGED socks)
    <3>1. PICK x \in {Arg, Junk} : sh' = [Idle EXCEPT !.pc = "q_send", !.arg = Arg, !.name = x]
      BY <1>4, <2>3 DEF DnsStart
    <3>2. sh'.pc = "q_send" /\ sh'.arg = Arg /\ sh'.name = x /\ sh'.hop = 0 /\ sh'.id = 0 /\ ~sh'.again
      BY <3>1 DEF Idle
    <3>3. PICK u : u = Bound([Sock0 EXCEPT !.used = TRUE], DnsPort)
      OBVIOUS
    <3>4. SockShape(u) /\ \A i \in RingPlaces : u.q[i] = NoDgram
      BY <3>3, SocksShaped
    <3>5. socks' = [socks EXCEPT ![Fd] = u]
      BY <1>4, <2>3, <3>3 DEF DnsStart
    <3>6. SocksInv' /\ socks'[Fd] = u
      BY <1>1, <3>2, <3>4, <3>5, SocksInvFd
    <3>7. \A d : Good(sh', d)
      BY <3>2 DEF Good, Awaits
    <3>8. DnsIds'
      <4>1. NoDgram.id = 0
        BY NetAssumption
      <4> QED BY <1>1, <2>1, <3>2, <3>4, <3>6, <4>1 DEF DnsIds
    <3>9. DnsWay'
      <4>1. 0 \in 0..HOPS-1 /\ 0 \in 0..0 /\ Chain(sh'.arg)[0] = sh'.arg
        BY NetAssumption, ChainNext
      <4>2. sh'.name = Junk \/ \E j \in 0..sh'.hop : sh'.name = Chain(sh'.arg)[j]
        BY <3>2, <4>1
      <4> QED BY <3>2, <3>7, <4>1, <4>2 DEF DnsWay, Good, Awaits, OnTheWay
    <3>10. (\A f \in wire : f.k = "dns" => Good(sh, f))'
      BY <3>7 DEF Good, Awaits, OnTheWay
    <3> QED BY <1>3, <2>1, <3>6, <3>8, <3>9, <3>10 DEF DnsInv
  <2> QED BY <2>2, <2>3
<1>5. CASE sh.pc \in AskPc /\ ~DnsStart
  <2>1. DnsWay /\ sh.hop \in 0..HOPS-1 /\ OnName(sh.name, sh.arg, sh.hop) /\ sh.id \in 0..cnt.id /\ cnt.id \in Nat
    BY <1>5 DEF DnsInv, DnsWay, DnsIds, OnName
  <2>2. cnt = [tx |-> cnt.tx, id |-> cnt.id, events |-> cnt.events]
    BY <1>1 DEF DnsIds
  <2>3. CASE DnsSend
    <3>1. UNCHANGED <<dns, socks>> /\ sh.pc = "q_send"
      BY <2>3 DEF DnsSend
    <3>2. \A m \in wire' : m.k = "dns" => m \in wire
      BY <2>3 DEF DnsSend, ResolveBegin, IfHere
    <3>3. UNCHANGED socks => SocksInv'
      <4>1. sh'.pc # "q_got"
        BY <1>1, <2>3, DnsMoves, ZenonT(60) DEF DnsSend, ShellShape
      <4> QED BY <1>1, <4>1 DEF SocksInv
    <3>4. CASE UNCHANGED cnt
      <4>1. sh.again /\ sh' = [sh EXCEPT !.pc = "q_arp", !.again = FALSE]
        <5>1. cnt' # [cnt EXCEPT !.id = cnt.id + 1]
          BY <2>1, <2>2, <3>4
        <5> QED BY <2>3, <5>1 DEF DnsSend
      <4>2. sh'.pc = "q_arp" /\ sh'.arg = sh.arg /\ sh'.name = sh.name /\ sh'.hop = sh.hop /\ sh'.id = sh.id
        BY <1>1, <4>1 DEF ShellShape
      <4>3. GoesOn
        BY <2>1, <3>1, <4>1, <4>2 DEF GoesOn, Awaits, AskPc
      <4> QED BY <1>5, <2>1, <2>2, <3>1, <3>2, <3>3, <3>4, <4>2, <4>3, DnsInvGoesOn
    <3>5. CASE cnt' # cnt
      <4>1. PICK id : id = cnt.id + 1
        OBVIOUS
      <4>2. sh' = [sh EXCEPT !.pc = "q_arp", !.again = FALSE, !.id = id] /\ cnt' = [cnt EXCEPT !.id = id]
        BY <2>3, <3>5, <4>1 DEF DnsSend
      <4>3. sh'.pc = "q_arp" /\ sh'.arg = sh.arg /\ sh'.name = sh.name /\ sh'.hop = sh.hop /\ sh'.id = id
        BY <1>1, <4>2 DEF ShellShape
      <4>4. cnt'.id = id /\ cnt' = [tx |-> cnt'.tx, id |-> cnt'.id, events |-> cnt'.events]
        BY <2>2, <4>2
      <4>5. id \in Nat /\ cnt.id <= id /\ id \in 0..id /\ id \notin 0..cnt.id
        BY <2>1, <4>1
      <4>6. GoesOn
        BY <2>1, <4>3, <4>5 DEF GoesOn, Awaits, AskPc
      <4> QED BY <1>5, <2>1, <3>1, <3>2, <3>3, <4>3, <4>4, <4>5, <4>6, DnsInvGoesOn
    <3> QED BY <3>4, <3>5
  <2>4. CASE DnsSent
    <3>1. UNCHANGED <<dns, socks, cnt>> /\ sh.pc = "q_arp" /\ sh' = [sh EXCEPT !.pc = "q_wait"]
      BY <2>4 DEF DnsSent, Goto
    <3>2. /\ sh'.pc = "q_wait" /\ sh'.arg = sh.arg /\ sh'.name = sh.name /\ sh'.hop = sh.hop /\ sh'.id = sh.id
      BY <1>1, <3>1 DEF ShellShape
    <3>3. GoesOn
      BY <2>1, <3>1, <3>2 DEF GoesOn, Awaits, AskPc
    <3>4. SocksInv'
      BY <1>1, <3>1, <3>2 DEF SocksInv
    <3>5. ASSUME NEW m \in wire', m.k = "dns", m \notin wire PROVE m.id \in 0..cnt'.id /\ Good(sh', m)
      <4>1. m.id = sh.id /\ m.ans = Zone1(sh.name)
        BY <2>4, <3>5 DEF DnsSent
      <4>2. Zone1(Junk) = NoAnswer
        BY NetAssumption DEF Zone1, Junk
      <4>3. OnTheWay(m.ans, sh.arg, sh.hop)
        BY <2>1, <4>1, <4>2 DEF OnName, OnTheWay
      <4> QED BY <2>1, <3>1, <3>2, <4>1, <4>3 DEF Good
    <3> QED BY <1>5, <2>1, <2>2, <3>1, <3>2, <3>3, <3>4, <3>5, DnsInvGoesOn
  <2>5. CASE DnsTake
    <3>1. PICK u : u = socks[Fd]
      OBVIOUS
    <3>2. /\ UNCHANGED <<dns, wire, cnt>> /\ sh.pc = "q_wait" /\ socks[Fd].qn > 0
          /\ sh' = [sh EXCEPT !.pc = "q_got", !.dgram = u.q[u.qr], !.n = u.qn] /\ socks' = [socks EXCEPT ![Fd] = Taken(u)]
      BY <2>5, <3>1 DEF DnsTake, neighVars
    <3>3. /\ sh'.pc = "q_got" /\ sh'.arg = sh.arg /\ sh'.name = sh.name /\ sh'.hop = sh.hop /\ sh'.id = sh.id
          /\ sh'.dgram = u.q[u.qr] /\ sh'.n = u.qn
      BY <1>1, <3>2 DEF ShellShape
    <3>4. GoesOn
      BY <2>1, <3>2, <3>3 DEF GoesOn, Awaits, AskPc
    <3>5. SockShape(u)
      BY <1>1, <3>1, UdpAssumption DEF SocksInv, Fd, Fds
    <3>6. u.qn \in 1..UDP_QLEN
      BY <3>1, <3>2, <3>5, UdpAssumption DEF SockShape
    <3>7. SocksInv' /\ socks'[Fd].q = u.q
      <4>1. PICK t : t = Taken(u)
        OBVIOUS
      <4>2. SockShape(t) /\ t.q = u.q
        BY <3>5, <4>1, SocksShaped
      <4>3. socks' = [socks EXCEPT ![Fd] = t]
        BY <3>2, <4>1
      <4> QED BY <1>1, <3>3, <3>6, <4>2, <4>3, SocksInvFd
    <3>8. sh'.dgram \in {socks[Fd].q[i] : i \in RingPlaces}
      BY <3>1, <3>3, <3>5 DEF SockShape
    <3> QED BY <1>5, <2>1, <2>2, <3>1, <3>2, <3>3, <3>4, <3>7, <3>8, DnsInvGoesOn
  <2>6. CASE DnsTimeout
    <3>1. UNCHANGED <<dns, wire, cnt>> /\ sh.pc = "q_wait"
      BY <2>6 DEF DnsTimeout, neighVars
    <3>2. CASE Return
      <4>1. socks' = [socks EXCEPT ![Fd] = Sock0] \/ UNCHANGED socks
        BY <2>6 DEF DnsTimeout, CloseSocket, Closed
      <4> QED BY <1>2, <1>3, <3>1, <3>2, <4>1, DnsInvOver DEF Return
    <3>3. CASE ~Return
      <4>1. UNCHANGED socks /\ \E n : sh' = [sh EXCEPT !.pc = "q_send", !.try = n]
        BY <2>6, <3>3, Zenon DEF DnsTimeout
      <4>2. /\ sh'.pc = "q_send" /\ sh'.arg = sh.arg /\ sh'.name = sh.name /\ sh'.hop = sh.hop /\ sh'.id = sh.id
        BY <1>1, <4>1 DEF ShellShape
      <4>3. GoesOn
        BY <2>1, <3>1, <4>2 DEF GoesOn, Awaits, AskPc
      <4>4. SocksInv'
        BY <1>1, <4>1, <4>2 DEF SocksInv
      <4> QED BY <1>5, <2>1, <2>2, <3>1, <4>1, <4>2, <4>3, <4>4, DnsInvGoesOn
    <3> QED BY <3>2, <3>3
  <2>7. CASE DnsGot
    <3>1. UNCHANGED <<wire, cnt>> /\ sh.pc = "q_got" /\ Good(sh, sh.dgram)
      BY <2>1, <2>7 DEF DnsGot, DnsWay, neighVars
    <3>2. PICK again : again = [sh EXCEPT !.dgram = NoDgram, !.n = 0]
      OBVIOUS
    <3>3. /\ again = [pc |-> again.pc, arg |-> again.arg, id |-> again.id, hop |-> again.hop, try |-> again.try,
                      name |-> again.name, dgram |-> again.dgram, n |-> again.n, again |-> again.again]
          /\ again.arg = sh.arg /\ again.name = sh.name /\ again.hop = sh.hop /\ again.id = sh.id
      BY <1>1, <3>2 DEF ShellShape
    <3>4. PICK a : a = sh.dgram.ans
      OBVIOUS
    <3>5. Answered => OnTheWay(a, sh.arg, sh.hop)
      BY <3>1, <3>4 DEF Answered, Good, Awaits, AskPc
    <3>6. PICK u : u = Counted(socks[Fd], sh.n)
      OBVIOUS
    <3>7. SockShape(u) /\ u.q = socks[Fd].q
      <4>1. SockShape(socks[Fd]) /\ sh.n \in 1..UDP_QLEN
        BY <1>1, <3>1, UdpAssumption DEF SocksInv, Fd, Fds
      <4> QED BY <3>6, <4>1, SocksShaped
    <3>8. CASE Answered /\ a.t = "A" /\ CloseSocket /\ dns_cache_store([name |-> sh.arg, ip |-> a.v]) /\ Return
      <4>1. a.v \in AddressOf(sh.arg)
        <5>1. a # NoAnswer
          BY <3>8 DEF NoAnswer
        <5>2. PICK j \in 0..sh.hop : a = Zone1(Chain(sh.arg)[j])
          BY <3>5, <3>8, <5>1 DEF OnTheWay
        <5>3. j \in 0..HOPS-1
          BY <2>1, NetAssumption
        <5> QED BY <3>8, <5>2, <5>3, ChainAddress
      <4>2. \A e \in dns' : e \in dns \/ e = [name |-> sh.arg, ip |-> a.v]
        BY <3>8 DEF dns_cache_store
      <4>3. DnsTrue'
        BY <1>1, <4>1, <4>2 DEF DnsTrue
      <4> QED BY <1>2, <3>1, <3>8, <4>3, DnsInvOver DEF Return, CloseSocket, Closed
    <3>9. CASE /\ Answered /\ a.t = "CNAME" /\ sh.hop + 1 < HOPS /\ UNCHANGED dns
               /\ socks' = [socks EXCEPT ![Fd] = u]
               /\ \E more : sh' = [again EXCEPT !.pc = "q_send", !.hop = sh.hop + 1, !.try = 0, !.again = more,
                                                !.name = Overlay(a.v, sh.name)]
      <4>1. PICK more : sh' = [again EXCEPT !.pc = "q_send", !.hop = sh.hop + 1, !.try = 0, !.again = more,
                                            !.name = Overlay(a.v, sh.name)]
        BY <3>9
      <4>2. PICK hop : hop = sh.hop + 1
        OBVIOUS
      <4>3. sh'.pc = "q_send" /\ sh'.arg = sh.arg /\ sh'.name = Overlay(a.v, sh.name) /\ sh'.hop = hop /\ sh'.id = sh.id
        BY <3>3, <4>1, <4>2
      <4>4. hop \in 0..HOPS-1 /\ sh.hop <= hop
        BY <2>1, <3>9, <4>2, NetAssumption
      <4>5. OnName(sh'.name, sh.arg, hop)
        <5>1. a # NoAnswer
          BY <3>9 DEF NoAnswer
        <5>2. PICK j \in 0..sh.hop : a = Zone1(Chain(sh.arg)[j])
          BY <3>5, <3>9, <5>1 DEF OnTheWay
        <5>3. j \in 0..HOPS-2 /\ j + 1 \in 0..hop
          BY <2>1, <3>9, <4>2, NetAssumption
        <5>4. a.v = Chain(sh.arg)[j + 1]
          BY <5>2, <5>3, ChainNext
        <5>5. sh'.name \in {a.v, Junk}
          BY <4>3 DEF Overlay
        <5> QED BY <5>3, <5>4, <5>5 DEF OnName
      <4>6. GoesOn
        BY <3>1, <4>3, <4>4 DEF GoesOn, Awaits, AskPc
      <4>7. SocksInv' /\ socks'[Fd] = u
        BY <1>1, <3>7, <3>9, <4>3, SocksInvFd
      <4> QED BY <1>5, <2>1, <2>2, <3>1, <3>7, <3>9, <4>3, <4>4, <4>5, <4>6, <4>7, DnsInvGoesOn
    <3>10. CASE CloseSocket /\ Return /\ UNCHANGED dns
      BY <1>2, <1>3, <3>1, <3>10, DnsInvOver DEF Return, CloseSocket, Closed
    <3>11. CASE sh' = [again EXCEPT !.pc = "q_wait"] /\ socks' = [socks EXCEPT ![Fd] = u] /\ UNCHANGED dns
      <4>1. /\ sh'.pc = "q_wait" /\ sh'.arg = sh.arg /\ sh'.name = sh.name /\ sh'.hop = sh.hop /\ sh'.id = sh.id
        BY <3>3, <3>11
      <4>2. GoesOn
        BY <2>1, <3>1, <4>1 DEF GoesOn, Awaits, AskPc
      <4>3. SocksInv' /\ socks'[Fd] = u
        BY <1>1, <3>7, <3>11, <4>1, SocksInvFd
      <4> QED BY <1>5, <2>1, <2>2, <3>1, <3>7, <3>11, <4>1, <4>2, <4>3, DnsInvGoesOn
    <3>12. PICK more : more = (sh.try > 0)
      OBVIOUS
    <3>13. \/ Answered /\ a.t = "A" /\ CloseSocket /\ dns_cache_store([name |-> sh.arg, ip |-> a.v]) /\ Return
           \/ /\ Answered /\ a.t = "CNAME" /\ sh.hop + 1 < HOPS /\ UNCHANGED dns
              /\ socks' = [socks EXCEPT ![Fd] = u]
              /\ sh' = [again EXCEPT !.pc = "q_send", !.hop = again.hop + 1, !.try = 0, !.again = more,
                                     !.name = Overlay(a.v, sh.name)]
           \/ CloseSocket /\ Return /\ UNCHANGED dns
           \/ sh' = [again EXCEPT !.pc = "q_wait"] /\ socks' = [socks EXCEPT ![Fd] = u] /\ UNCHANGED dns
      BY <2>7, <3>2, <3>4, <3>6, <3>12, Zenon DEF DnsGot
    <3>14. again.hop + 1 = sh.hop + 1
      BY <3>3
    <3> QED BY <3>8, <3>9, <3>10, <3>11, <3>13, <3>14, Zenon
  <2> QED BY <1>5, <2>3, <2>4, <2>5, <2>6, <2>7 DEF DnsClient
<1> QED BY <1>4, <1>5 DEF DnsClient, DnsSend, DnsSent, DnsTake, DnsGot, DnsTimeout, AskPc

LEMMA DnsInvHolds == Spec => []DnsInv
<1>1. Init => DnsInv
  <2> SUFFICES ASSUME Init PROVE DnsInv
    OBVIOUS
  <2>1. ShellShape /\ sh.pc \notin AskPc /\ wire = {} /\ dns = {}
    BY DEF Init, ShellShape, Idle, AskPc
  <2>2. SocksInv
    BY <2>1, SocksShaped DEF Init, SocksInv, AskPc
  <2>3. DnsIds
    BY <2>1 DEF Init, DnsIds, AskPc
  <2> QED BY <2>1, <2>2, <2>3 DEF DnsInv, DnsTrue
<1>2. DnsInv /\ [Next]_vars => DnsInv'
  <2>1. DnsInv => ShellShape
    BY DEF DnsInv
  <2> QED BY <2>1, ShellShaped, NextDnsOps, DnsInvQuiet, DnsInvDelivered, DnsInvClient
<1> QED BY <1>1, <1>2, PTL DEF Spec

(* The DNS cache tells the truth of the zone: net_dns_resolve never binds a  *)
(* name to another name's address, however late or doubled the answers are,  *)
(* whatever an earlier command left on the way to the same port, when the    *)
(* race on the queue's count shows a place again, and though a hop may       *)
(* repeat the last id.  For any zone and any length of the chains of names.  *)
THEOREM DnsTruth == Spec => []DnsTrue
<1>1. DnsInv => DnsTrue
  BY DEF DnsInv
<1> QED BY <1>1, DnsInvHolds, PTL

-----------------------------------------------------------------------------
(* Types, and the bounds of the loops and of the caches.                     *)
Ip6Inv ==
  /\ ip6 = [global |-> ip6.global, gateway |-> ip6.gateway, rs_on |-> ip6.rs_on, tries |-> ip6.tries]
  /\ ip6.tries \in 0..RS_TRIES
DhcpInv == dhcp.phase \in {0, 1, 3} /\ {dhcp.waiting, dhcp.done, dhcp.nak, dhcp.leased} \subseteq BOOLEAN
CacheInv == IsFiniteSet(dns) /\ Cardinality(dns) <= DNS_CACHE
(* The attempts are counted from zero in every call. *)
MaxTry == Max({TRIES, DISCOVERS})
Counts(s) == s.hop \in 0..HOPS-1 /\ s.try \in 0..MaxTry /\ (s.pc = "d_begin" => s.try = 0)
CountsInv == Counts(sh)

LEMMA MaxTryIs == MaxTry \in Nat \ {0} /\ TRIES <= MaxTry /\ DISCOVERS <= MaxTry
<1>1. TRIES \in Nat \ {0} /\ DISCOVERS \in Nat \ {0}
  BY NetAssumption
<1>2. \E x \in {TRIES, DISCOVERS} : \A y \in {TRIES, DISCOVERS} : x >= y
  BY <1>1
<1>3. MaxTry \in {TRIES, DISCOVERS} /\ \A y \in {TRIES, DISCOVERS} : MaxTry >= y
  BY <1>2, Zenon DEF MaxTry, Max
<1> QED BY <1>1, <1>3

LEMMA Ip6InvStep == Ip6Inv /\ [Next]_vars => Ip6Inv'
<1> SUFFICES ASSUME Ip6Inv, [Next]_vars PROVE Ip6Inv'
  OBVIOUS
<1>1. CASE UNCHANGED ip6
  BY <1>1 DEF Ip6Inv
<1>2. CASE BootInit
  <2>1. 0 \in 0..RS_TRIES
    BY NeighAssumption
  <2> QED BY <1>2, <2>1 DEF BootInit, Down6, Ip6Inv
<1>3. CASE Deliver \/ DeliverCopy
  <2>1. UNCHANGED ip6 \/ \E m : handle_ra(m)
    BY <1>3 DEF Deliver, DeliverCopy, net_handle_eth
  <2>2. CASE \E m : handle_ra(m)
    BY <2>2 DEF handle_ra, Ip6Inv
  <2> QED BY <1>1, <2>1, <2>2
<1>4. CASE Solicitation
  <2>1. CASE ip6' = [ip6 EXCEPT !.rs_on = FALSE]
    BY <2>1 DEF Ip6Inv
  <2>2. CASE ip6.tries < RS_TRIES /\ ip6' = [ip6 EXCEPT !.tries = ip6.tries + 1]
    <3>1. PICK n : n = ip6.tries + 1
      OBVIOUS
    <3>2. n \in 0..RS_TRIES
      BY <2>2, <3>1, NeighAssumption DEF Ip6Inv
    <3>3. ip6' = [ip6 EXCEPT !.tries = n]
      BY <2>2, <3>1
    <3> QED BY <3>2, <3>3 DEF Ip6Inv
  <2> QED BY <1>4, <2>1, <2>2 DEF Solicitation, ip6_slaac_poll
<1>5. CASE \/ Resolving("sh") \/ Resolving("pr") \/ Resolving6 \/ ProcSend \/ ProcSent \/ PingStart \/ PingSend \/ PingEnd
           \/ Ping6Start \/ Ping6Send \/ Ping6End \/ DnsClient
  <2>1. UNCHANGED ip6
    BY <1>5 DEF Resolving, Resolving6, ProcSend, ProcSent, PingStart, PingSend, PingEnd, Ping6Start, Ping6Send, Ping6End,
                DnsClient, DnsStart, DnsSend, DnsSent, DnsTake, DnsGot, DnsTimeout, neighVars
  <2> QED BY <1>1, <2>1
<1>6. CASE \/ DhcpStart \/ Discover \/ Discovered \/ NoOffer \/ GotOffer \/ Adopt \/ AdoptRest
           \/ RenewStart \/ RenewSend \/ RenewSent \/ RenewStop \/ RenewEnd \/ dhcp_auto_poll
  <2>1. UNCHANGED ip6
    BY <1>6 DEF DhcpStart, Discover, Discovered, NoOffer, GotOffer, Adopt, AdoptRest,
                RenewStart, RenewSend, RenewSent, RenewStop, RenewEnd, dhcp_auto_poll, neighVars
  <2> QED BY <1>1, <2>1
<1>7. CASE NeighbourAsks \/ Redirect \/ RedirExpire \/ Aging \/ DnsExpire \/ UNCHANGED vars
  <2>1. UNCHANGED ip6
    BY <1>7 DEF NeighbourAsks, Redirect, RedirExpire, Aging, arp_aging_poll, nd6_aging_poll, DnsExpire, neighVars, vars
  <2> QED BY <1>1, <2>1
<1> QED BY <1>2, <1>3, <1>4, <1>5, <1>6, <1>7 DEF Next, Shell, Process, Interrupts, Event, DnsClient

LEMMA CacheInvStep == CacheInv /\ [Next]_vars => CacheInv'
<1> SUFFICES ASSUME CacheInv, [Next]_vars PROVE CacheInv'
  OBVIOUS
<1>1. CASE UNCHANGED dns
  BY <1>1 DEF CacheInv
<1>2. Cardinality(dns) \in Nat /\ DNS_CACHE \in Nat
  BY NetAssumption, FS_CardinalityType DEF CacheInv
<1>3. CASE \E e : dns_cache_store(e)
  <2>1. PICK e : dns_cache_store(e)
    BY <1>3
  <2>2. CASE Cardinality(dns) < DNS_CACHE /\ dns' = dns \cup {e}
    BY <1>2, <2>2, FS_AddElement DEF CacheInv
  <2>3. CASE Cardinality(dns) = DNS_CACHE /\ \E old \in dns : dns' = (dns \ {old}) \cup {e}
    <3>1. PICK old \in dns : dns' = (dns \ {old}) \cup {e}
      BY <2>3
    <3>2. PICK rest : rest = dns \ {old}
      OBVIOUS
    <3>3. IsFiniteSet(rest) /\ Cardinality(rest) = Cardinality(dns) - 1
      BY <3>2, FS_RemoveElement DEF CacheInv
    <3>4. IsFiniteSet(rest \cup {e}) /\ Cardinality(rest \cup {e}) <= Cardinality(rest) + 1
      BY <1>2, <3>3, FS_AddElement
    <3> QED BY <1>2, <2>3, <3>1, <3>2, <3>3, <3>4 DEF CacheInv
  <2> QED BY <2>1, <2>2, <2>3 DEF dns_cache_store
<1>4. CASE DnsExpire
  <2>1. PICK e \in dns : dns' = dns \ {e}
    BY <1>4 DEF DnsExpire
  <2>2. IsFiniteSet(dns \ {e}) /\ Cardinality(dns \ {e}) = Cardinality(dns) - 1
    BY FS_RemoveElement DEF CacheInv
  <2> QED BY <1>2, <2>1, <2>2 DEF CacheInv
<1>5. CASE DnsGot
  BY <1>1, <1>3, <1>5 DEF DnsGot
<1>6. CASE \/ Resolving("sh") \/ Resolving("pr") \/ Resolving6 \/ ProcSend \/ ProcSent \/ PingStart \/ PingSend \/ PingEnd
           \/ Ping6Start \/ Ping6Send \/ Ping6End \/ DnsStart \/ DnsSend \/ DnsSent \/ DnsTake \/ DnsTimeout \/ DhcpClient
  <2>1. UNCHANGED dns
    BY <1>6 DEF Resolving, Resolving6, ProcSend, ProcSent, PingStart, PingSend, PingEnd, Ping6Start, Ping6Send, Ping6End,
                DnsStart, DnsSend, DnsSent, DnsTake, DnsTimeout, DhcpClient, DhcpStart, Discover, Discovered, NoOffer, BootInit,
                GotOffer, Adopt, AdoptRest, RenewStart, RenewSend, RenewSent, RenewStop, RenewEnd, dhcp_auto_poll, netVars
  <2> QED BY <1>1, <2>1
<1>7. CASE Deliver \/ DeliverCopy \/ NeighbourAsks \/ Redirect \/ RedirExpire \/ Aging \/ Solicitation \/ UNCHANGED vars
  <2>1. UNCHANGED dns
    BY <1>7 DEF Deliver, DeliverCopy, net_handle_eth, NeighbourAsks, Redirect, RedirExpire, Aging, Solicitation, netVars, vars
  <2> QED BY <1>1, <2>1
<1> QED BY <1>4, <1>5, <1>6, <1>7 DEF Next, Shell, Process, Interrupts, Event, DhcpClient

LEMMA DhcpInvStep == ShellShape /\ LeaseShape /\ DhcpInv /\ [Next]_vars => DhcpInv'
<1> SUFFICES ASSUME ShellShape, LeaseShape, DhcpInv, [Next]_vars PROVE DhcpInv'
  OBVIOUS
<1> DEFINE Typed(d) == d.phase \in {0, 1, 3} /\ {d.waiting, d.done, d.nak, d.leased} \subseteq BOOLEAN
<1>1. Typed(dhcp)
  BY DEF DhcpInv
<1>2. SUFFICES Typed(dhcp')
  BY DEF DhcpInv
<1>3. dhcp = [waiting |-> dhcp.waiting, done |-> dhcp.done, txid |-> dhcp.txid, phase |-> dhcp.phase,
              nak |-> dhcp.nak, offer |-> dhcp.offer, leased |-> dhcp.leased]
  BY DEF LeaseShape
(* Whatever fields are set. *)
<1>4. ASSUME NEW w \in BOOLEAN, NEW d \in BOOLEAN, NEW t, NEW p \in {0, 1, 3}, NEW n \in BOOLEAN, NEW o, NEW l \in BOOLEAN,
             dhcp' = [waiting |-> w, done |-> d, txid |-> t, phase |-> p, nak |-> n, offer |-> o, leased |-> l]
      PROVE  Typed(dhcp')
  BY <1>4
<1>5. CASE UNCHANGED dhcp
  BY <1>1, <1>5
<1>6. TRUE \in BOOLEAN /\ FALSE \in BOOLEAN
  OBVIOUS
<1>7. CASE LeaseQuiet
  BY <1>5, <1>7 DEF LeaseQuiet
<1>8. CASE DhcpDelivered
  <2>1. \/ UNCHANGED dhcp
        \/ \E o : dhcp' = [dhcp EXCEPT !.offer = o, !.done = TRUE]
        \/ \E o : dhcp' = [dhcp EXCEPT !.offer = o, !.leased = TRUE, !.nak = FALSE, !.done = TRUE]
        \/ dhcp' = [dhcp EXCEPT !.nak = TRUE, !.done = TRUE]
    BY <1>8 DEF DhcpDelivered, handle_dhcp, Answer
  <2>2. CASE \E o : dhcp' = [dhcp EXCEPT !.offer = o, !.done = TRUE]
    <3>1. PICK o : dhcp' = [waiting |-> dhcp.waiting, done |-> TRUE, txid |-> dhcp.txid, phase |-> dhcp.phase,
                            nak |-> dhcp.nak, offer |-> o, leased |-> dhcp.leased]
      BY <1>3, <2>2, Zenon
    <3> QED BY <1>1, <1>4, <1>6, <3>1
  <2>3. CASE \E o : dhcp' = [dhcp EXCEPT !.offer = o, !.leased = TRUE, !.nak = FALSE, !.done = TRUE]
    <3>1. PICK o : dhcp' = [waiting |-> dhcp.waiting, done |-> TRUE, txid |-> dhcp.txid, phase |-> dhcp.phase,
                            nak |-> FALSE, offer |-> o, leased |-> TRUE]
      BY <1>3, <2>3, Zenon
    <3> QED BY <1>1, <1>4, <1>6, <3>1
  <2>4. CASE dhcp' = [dhcp EXCEPT !.nak = TRUE, !.done = TRUE]
    <3>1. dhcp' = [waiting |-> dhcp.waiting, done |-> TRUE, txid |-> dhcp.txid, phase |-> dhcp.phase,
                   nak |-> TRUE, offer |-> dhcp.offer, leased |-> dhcp.leased]
      BY <1>3, <2>4, Zenon
    <3> QED BY <1>1, <1>4, <1>6, <3>1
  <2> QED BY <1>5, <2>1, <2>2, <2>3, <2>4
<1>9. CASE DhcpClient
  <2>1. \/ UNCHANGED dhcp
        \/ dhcp' = [dhcp EXCEPT !.txid = cnt.tx + 1]
        \/ dhcp' = [dhcp EXCEPT !.waiting = TRUE, !.phase = 1, !.nak = FALSE, !.done = FALSE]
        \/ dhcp' = [dhcp EXCEPT !.waiting = FALSE]
        \/ dhcp' = [dhcp EXCEPT !.leased = TRUE]
        \/ dhcp' = [dhcp EXCEPT !.waiting = TRUE, !.phase = 3, !.done = FALSE, !.nak = FALSE]
        \/ dhcp' = [dhcp EXCEPT !.txid = cnt.tx + 1, !.phase = 3, !.done = FALSE]
    BY <1>9, Zenon DEF DhcpClient, DhcpStart, Discover, Discovered, NoOffer, BootInit, GotOffer, Adopt, AdoptRest,
                RenewStart, RenewSend, RenewSent, RenewStop, RenewEnd, dhcp_auto_poll
  <2>2. CASE \E t : dhcp' = [dhcp EXCEPT !.txid = t]
    BY <1>1, <1>3, <2>2
  <2>3. CASE dhcp' = [dhcp EXCEPT !.waiting = TRUE, !.phase = 1, !.nak = FALSE, !.done = FALSE]
    <3>1. dhcp' = [waiting |-> TRUE, done |-> FALSE, txid |-> dhcp.txid, phase |-> 1,
                   nak |-> FALSE, offer |-> dhcp.offer, leased |-> dhcp.leased]
      BY <1>3, <2>3, Zenon
    <3> QED BY <1>1, <1>4, <1>6, <3>1
  <2>4. CASE dhcp' = [dhcp EXCEPT !.waiting = FALSE]
    <3>1. dhcp' = [waiting |-> FALSE, done |-> dhcp.done, txid |-> dhcp.txid, phase |-> dhcp.phase,
                   nak |-> dhcp.nak, offer |-> dhcp.offer, leased |-> dhcp.leased]
      BY <1>3, <2>4, Zenon
    <3> QED BY <1>1, <1>4, <1>6, <3>1
  <2>5. CASE dhcp' = [dhcp EXCEPT !.leased = TRUE]
    <3>1. dhcp' = [waiting |-> dhcp.waiting, done |-> dhcp.done, txid |-> dhcp.txid, phase |-> dhcp.phase,
                   nak |-> dhcp.nak, offer |-> dhcp.offer, leased |-> TRUE]
      BY <1>3, <2>5, Zenon
    <3> QED BY <1>1, <1>4, <1>6, <3>1
  <2>6. CASE dhcp' = [dhcp EXCEPT !.waiting = TRUE, !.phase = 3, !.done = FALSE, !.nak = FALSE]
    <3>1. dhcp' = [waiting |-> TRUE, done |-> FALSE, txid |-> dhcp.txid, phase |-> 3,
                   nak |-> FALSE, offer |-> dhcp.offer, leased |-> dhcp.leased]
      BY <1>3, <2>6, Zenon
    <3> QED BY <1>1, <1>4, <1>6, <3>1
  <2>7. CASE \E t : dhcp' = [dhcp EXCEPT !.txid = t, !.phase = 3, !.done = FALSE]
    <3>1. PICK t : dhcp' = [waiting |-> dhcp.waiting, done |-> FALSE, txid |-> t, phase |-> 3,
                            nak |-> dhcp.nak, offer |-> dhcp.offer, leased |-> dhcp.leased]
      BY <1>3, <2>7, Zenon
    <3> QED BY <1>1, <1>4, <1>6, <3>1
  <2> QED BY <1>5, <2>1, <2>2, <2>3, <2>4, <2>5, <2>6, <2>7, Zenon
<1> QED BY <1>7, <1>8, <1>9, NextLeaseOps

(* Where the shell counts. *)
LEMMA CountsStep == ShellShape /\ Counts(sh) /\ [Next]_vars => Counts(sh')
<1> SUFFICES ASSUME ShellShape, Counts(sh), [Next]_vars PROVE Counts(sh')
  OBVIOUS
<1>1. Idle.pc = "idle" /\ Idle.hop = 0 /\ Idle.try = 0
  BY DEF Idle
<1>2. 0 \in 0..HOPS-1 /\ 0 \in 0..MaxTry /\ HOPS \in Nat \ {0} /\ TRIES \in Nat \ {0} /\ DISCOVERS \in Nat \ {0}
  BY NetAssumption, MaxTryIs
<1>3. CASE sh'.hop = 0 /\ sh'.try = 0
  BY <1>2, <1>3 DEF Counts
<1>4. CASE sh'.hop = sh.hop /\ sh'.try = sh.try /\ sh'.pc # "d_begin"
  BY <1>4 DEF Counts
<1>5. CASE sh' = Idle
  BY <1>1, <1>3, <1>5
<1>6. CASE UNCHANGED sh
  BY <1>6 DEF Counts
<1>7. CASE \E pc : pc # "d_begin" /\ sh' = [sh EXCEPT !.pc = pc]
  BY <1>4, <1>7 DEF ShellShape
<1>8. CASE PingStart \/ Ping6Start \/ DhcpStart \/ RenewStart
  <2>1. \E pc, arg : sh' = [Idle EXCEPT !.pc = pc, !.arg = arg]
    BY <1>8, Zenon DEF PingStart, Ping6Start, DhcpStart, RenewStart
  <2>2. sh'.hop = 0 /\ sh'.try = 0
    BY <2>1 DEF Idle
  <2> QED BY <1>3, <2>2
<1>9. CASE PingSend \/ PingEnd \/ Ping6Send \/ Ping6End \/ Discovered \/ NoOffer \/ BootInit \/ GotOffer
           \/ Adopt \/ AdoptRest \/ RenewSent \/ RenewStop \/ RenewEnd \/ DnsSent
  <2>1. \/ sh' = Idle
        \/ \E pc \in {"p_wait", "6_wait", "d_wait", "b_init", "d_adopt", "d_rest", "r_wait", "r_end", "d_start", "q_wait"} :
             sh' = [sh EXCEPT !.pc = pc]
    BY <1>9 DEF PingSend, PingEnd, Ping6Send, Ping6End, Discovered, NoOffer, BootInit, GotOffer,
                Adopt, AdoptRest, RenewSent, RenewStop, RenewEnd, DnsSent, Goto, Return
  <2> QED BY <1>5, <1>7, <2>1
<1>10. CASE Discover
  <2>1. PICK n : n = sh.try + 1
    OBVIOUS
  <2>2. sh' = [sh EXCEPT !.pc = "d_arp", !.try = n, !.id = dhcp.txid]
    BY <1>10, <2>1 DEF Discover
  <2>3. n \in 0..MaxTry
    BY <1>2, <1>10, <2>1, MaxTryIs DEF Discover, Counts
  <2>4. sh'.pc = "d_arp" /\ sh'.try = n /\ sh'.hop = sh.hop
    BY <2>2 DEF ShellShape
  <2> QED BY <2>3, <2>4 DEF Counts
<1>11. CASE RenewSend
  BY <1>4, <1>11 DEF RenewSend, ShellShape
<1>12. CASE DnsStart
  <2>1. sh' = Idle \/ \E x : sh' = [Idle EXCEPT !.pc = "q_send", !.arg = Arg, !.name = x]
    BY <1>12, Zenon DEF DnsStart, Return
  <2>2. \A x : LET s == [Idle EXCEPT !.pc = "q_send", !.arg = Arg, !.name = x] IN s.hop = 0 /\ s.try = 0
    BY DEF Idle
  <2> QED BY <1>3, <1>5, <2>1, <2>2
<1>13. CASE DnsSend
  <2>1. \/ \E id : sh' = [sh EXCEPT !.pc = "q_arp", !.again = FALSE, !.id = id]
        \/ sh' = [sh EXCEPT !.pc = "q_arp", !.again = FALSE]
    BY <1>13, Zenon DEF DnsSend
  <2> QED BY <1>4, <2>1 DEF ShellShape
<1>14. CASE DnsTake
  <2>1. sh'.hop = sh.hop /\ sh'.try = sh.try /\ sh'.pc = "q_got"
    BY <1>14 DEF DnsTake, ShellShape
  <2> QED BY <1>4, <2>1
<1>15. CASE DnsTimeout
  <2>1. PICK n : n = sh.try + 1
    OBVIOUS
  <2>2. sh' = Idle \/ (n < TRIES /\ sh' = [sh EXCEPT !.pc = "q_send", !.try = n])
    BY <1>15, <2>1 DEF DnsTimeout, Return
  <2>3. CASE n < TRIES /\ sh' = [sh EXCEPT !.pc = "q_send", !.try = n]
    <3>1. n \in 0..MaxTry
      BY <1>2, <2>1, <2>3, MaxTryIs DEF Counts
    <3>2. sh'.pc = "q_send" /\ sh'.try = n /\ sh'.hop = sh.hop
      BY <2>3 DEF ShellShape
    <3> QED BY <3>1, <3>2 DEF Counts
  <2> QED BY <1>5, <2>2, <2>3
<1>16. CASE DnsGot
  <2>1. PICK again : again = [sh EXCEPT !.dgram = NoDgram, !.n = 0]
    OBVIOUS
  <2>2. PICK more : more = (sh.try > 0)
    OBVIOUS
  <2>3. PICK hop : hop = again.hop + 1
    OBVIOUS
  <2>4. PICK name : name = Overlay(sh.dgram.ans.v, sh.name)
    OBVIOUS
  <2>5. \/ sh' = Idle
        \/ sh.hop + 1 < HOPS /\ sh' = [again EXCEPT !.pc = "q_send", !.hop = hop, !.try = 0, !.again = more, !.name = name]
        \/ sh' = [again EXCEPT !.pc = "q_wait"]
    BY <1>16, <2>1, <2>2, <2>3, <2>4, Zenon DEF DnsGot, Return
  <2>6. /\ again = [pc |-> again.pc, arg |-> again.arg, id |-> again.id, hop |-> again.hop, try |-> again.try,
                    name |-> again.name, dgram |-> again.dgram, n |-> again.n, again |-> again.again]
        /\ again.hop = sh.hop /\ again.try = sh.try
    BY <2>1 DEF ShellShape
  <2>7. CASE sh.hop + 1 < HOPS /\ sh' = [again EXCEPT !.pc = "q_send", !.hop = hop, !.try = 0, !.again = more, !.name = name]
    <3>1. sh'.hop = hop /\ sh'.try = 0
      BY <2>6, <2>7
    <3>2. hop \in 0..HOPS-1
      BY <1>2, <2>3, <2>6, <2>7 DEF Counts
    <3> QED BY <1>2, <3>1, <3>2 DEF Counts
  <2>8. CASE sh' = [again EXCEPT !.pc = "q_wait"]
    BY <1>4, <2>6, <2>8
  <2> QED BY <1>5, <2>5, <2>7, <2>8
<1>17. CASE Resolving("sh") \/ Resolving("pr") \/ Resolving6 \/ ProcSend \/ ProcSent \/ Interrupts \/ UNCHANGED vars
  <2>1. UNCHANGED sh
    BY <1>17 DEF Resolving, Resolving6, ProcSend, ProcSent, Interrupts, Deliver, DeliverCopy, net_handle_eth, Event,
                 NeighbourAsks, Redirect, RedirExpire, Aging, DnsExpire, dhcp_auto_poll, Solicitation, netVars, vars
  <2> QED BY <1>6, <2>1
<1> QED BY <1>8, <1>9, <1>10, <1>11, <1>12, <1>13, <1>14, <1>15, <1>16, <1>17 DEF Next, Shell, Process

(* The types, and the bounds that net.cpp keeps: the attempts, hops and      *)
(* solicitations of every loop, the counts and indices of the UDP rings, and *)
(* the size of the DNS cache; for every value of them.                       *)
THEOREM NetTypes == Spec => []TypeOK
<1>1. LeaseInv => ShellShape /\ LeaseShape
  BY DEF LeaseInv
<1>2. Init => Ip6Inv /\ DhcpInv /\ CacheInv /\ CountsInv
  <2> SUFFICES ASSUME Init PROVE Ip6Inv /\ DhcpInv /\ CacheInv /\ CountsInv
    OBVIOUS
  <2>1. Ip6Inv
    BY NeighAssumption DEF Init, Ip6Inv, Down6
  <2>2. DhcpInv
    BY DEF Init, DhcpInv
  <2>3. CacheInv
    BY FS_EmptySet, NetAssumption DEF Init, CacheInv
  <2>4. sh.pc = "idle" /\ sh.hop = 0 /\ sh.try = 0
    BY DEF Init, Idle
  <2>5. CountsInv
    BY <2>4, MaxTryIs, NetAssumption DEF CountsInv, Counts
  <2> QED BY <2>1, <2>2, <2>3, <2>5
<1>3. ShellShape /\ CountsInv /\ [Next]_vars => CountsInv'
  BY CountsStep DEF CountsInv, Counts
<1>4. ArpInv /\ NdInv /\ LeaseInv /\ DnsInv /\ Ip6Inv /\ DhcpInv /\ CacheInv /\ CountsInv => TypeOK
  <2> SUFFICES ASSUME ArpInv, NdInv, DnsInv, Ip6Inv, DhcpInv, CacheInv, CountsInv PROVE TypeOK
    OBVIOUS
  <2>1. \A i \in 1..NCACHE : arp.cache[i].sure \in BOOLEAN /\ nd.cache[i].sure \in BOOLEAN
    BY DEF ArpInv, NdInv, WaiterTrue, CacheTrue, True
  <2>2. \A c \in Callers : rs[c].st \in {"idle", "sent", "wait", "woken", "ok", "fail"}
    BY DEF ArpInv
  <2>3. rs6.st \in {"idle", "sent", "wait", "ok", "fail"} /\ rs6.try \in 0..NS_TRIES
    BY DEF NdInv, Resolver6
  <2>4. \A s \in Fds : socks[s].qn \in 0..UDP_QLEN /\ {socks[s].qr, socks[s].qw} \subseteq 0..UDP_QLEN-1
    BY DEF DnsInv, SocksInv, SockShape, RingPlaces
  <2> QED BY <2>1, <2>2, <2>3, <2>4 DEF TypeOK, Ip6Inv, DhcpInv, CacheInv, CountsInv, Counts, MaxTry
<1> QED BY <1>1, <1>2, <1>3, <1>4, NeighbourInvs, LeaseInvHolds, DnsInvHolds, Ip6InvStep, CacheInvStep, DhcpInvStep, PTL DEF Spec
=============================================================================
