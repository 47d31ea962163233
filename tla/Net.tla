-------------------------------- MODULE Net --------------------------------
(* The calls of the network stack that send a question and wait for the      *)
(* answer (src/kernel/net.cpp): ping, DHCP, DNS over a UDP socket, ping6,    *)
(* and a process's UDP send, composed with neighbour resolution (Neigh) and  *)
(* the UDP sockets (Udp).                                                    *)
(*                                                                           *)
(* The shell runs a script of commands, one blocking call at a time, with    *)
(* interrupts on; a process may be inside net_udp_send_to meanwhile.  The    *)
(* handlers of the interrupts are one step each and run between any two      *)
(* steps of the callers.  Servers answer truthfully, late or not at all.     *)
EXTENDS Neigh, Udp, Sequences

CONSTANTS
  Scripts,     \* [cmds, hosts, sends, events]: what the shell runs, who is on
               \* the link, and two bounds: the datagrams of the process, and
               \* the events that come unasked (see Event)
  Servers,     \* DHCP servers; each is also its router and its name server
  Hosts6,      \* IPv6 hosts
  Routers6,    \* IPv6 routers
  Default,     \* the gateway and name server used without DHCP
  Far,         \* destinations that are on no link
  Zone,        \* Zone[name] = [t, v]: what the name servers say of a name
  NameLen,     \* NameLen[name]
  DISCOVERS,   \* DISCOVERs of one net_dhcp (about 10 in the code)
  HOPS,        \* CNAME hops of one net_dns_resolve (8)
  TRIES,       \* attempts of a hop (3)
  DNS_CACHE    \* entries of the DNS cache (16)

ASSUME NetAssumption ==
  /\ {DISCOVERS, HOPS, TRIES, DNS_CACHE} \subseteq Nat \ {0}
  /\ \A s \in Scripts : {s.sends, s.events} \subseteq Nat
  /\ Callers = {"sh", "pr"}
  /\ None \notin Servers
  /\ "junk" \notin DOMAIN Zone   \* no server knows a name that lacks its end mark (see Junk)
  /\ NoDgram = [id |-> 0, ans |-> [t |-> "none", v |-> "none"]]   \* zeroes, in which no answer is found
  /\ \A x \in DOMAIN Zone : NameLen[x] \in 1..63   \* longer names are cut by dns_cache_store

VARIABLES
  script,  \* the commands still to run
  sh,      \* the shell: [pc, arg, id, hop, try, name, dgram, n, again]
  pr,      \* the process: sends left and whether it is in one
  ifc,     \* our_ip, gateway, dns_server
  redir,   \* the ICMP redirect, or None
  dhcp,    \* the DHCP client
  ping,    \* the waiter of net_ping
  ping6,   \* the waiter of net_ping6
  dns,     \* the DNS cache: a set of [name, ip]
  cnt      \* counters: transactions, query ids, events left

netVars == <<script, sh, pr, ifc, redir, dhcp, ping, ping6, dns, cnt, socks>>
vars == <<here, wire, arp, rs, nd, rs6, ip6, script, sh, pr, ifc, redir, dhcp, ping, ping6, dns, cnt, socks>>

DnsPort == 1
NoName == "none"
Junk == "junk"
NoAnswer == [t |-> "none", v |-> NoName]
Zone1(x) == IF x \in DOMAIN Zone THEN Zone[x] ELSE NoAnswer

Idle == [pc |-> "idle", arg |-> None, id |-> 0, hop |-> 0, try |-> 0, name |-> NoName, dgram |-> NoDgram, n |-> 0, again |-> FALSE]
NoLease == [ip |-> None, gw |-> None, ns |-> None, tx |-> 0]

(* What net_dhcp offers of server s: the address names its server.  tx is    *)
(* the transaction the message answers.                                      *)
Offer(s, t) == [k |-> "dhcp", type |-> "OFFER", tx |-> t, src |-> s, ip |-> <<s, t>>, gw |-> s, ns |-> s]
Acks(l, t) ==   \* the server of lease l acknowledges (with options or without) or refuses
  {[k |-> "dhcp", type |-> "ACK", tx |-> t, src |-> l.ip[1], ip |-> l.ip, gw |-> g, ns |-> g] : g \in {l.ip[1], None}}
    \cup {[k |-> "dhcp", type |-> "NAK", tx |-> t, src |-> l.ip[1], ip |-> None, gw |-> None, ns |-> None]}

Init ==
  /\ \E s \in Scripts :
       /\ script = s.cmds /\ here = s.hosts
       /\ pr = [left |-> s.sends, in |-> FALSE]
       /\ cnt = [tx |-> 0, id |-> 0, events |-> s.events]
  /\ wire = {} /\ arp = NoWaiter /\ rs = [c \in Callers |-> NotResolving]
  /\ nd = NoWaiter /\ rs6 = NotResolving6 /\ ip6 = Down6
  /\ sh = Idle
  /\ ifc = [ip |-> None, gw |-> None, ns |-> None, tx |-> 0, asked |-> 0]
  /\ redir = None
  /\ dhcp = [waiting |-> FALSE, done |-> FALSE, txid |-> 0, phase |-> 0, nak |-> FALSE, offer |-> NoLease, leased |-> FALSE]
  /\ ping = [active |-> FALSE, done |-> FALSE, ident |-> 0, src |-> None]
  /\ ping6 = [active |-> FALSE, done |-> FALSE, ident |-> 0, want |-> None, src |-> None]
  /\ dns = {} /\ socks = [s \in Fds |-> Sock0]

Command(name) == sh.pc = "idle" /\ script # << >> /\ Head(script)[1] = name
Arg == Head(script)[2]
Return == sh' = Idle /\ script' = Tail(script)
Goto(pc) == sh' = [sh EXCEPT !.pc = pc] /\ UNCHANGED script

(* ip_send: the neighbour to resolve for destination d.  With no address yet *)
(* the mask is zero and everything counts as on the link.                    *)
NextHop(d) ==
  IF d \notin Far \/ ifc.ip = None THEN d
  ELSE IF redir # None /\ redir.dst = d THEN redir.hop ELSE ifc.gw

----------------------------------------------------------------------------
(* arp_resolve and nd6_resolve inside a caller's command.                    *)
Resolving(c) ==
  /\ ResolveArm(c) \/ ResolveStop(c) \/ ResolveEnd(c)
  /\ UNCHANGED <<here, nd, rs6, ip6, netVars>>
Resolving6 ==
  /\ Resolve6Arm \/ Resolve6End
  /\ UNCHANGED <<here, arp, rs, ip6, netVars>>
EndResolve(c) == rs' = [rs EXCEPT ![c] = NotResolving]

(* net_ping *)
PingStart ==
  /\ Command("ping")
  /\ ResolveBegin("sh", Arg)
  /\ sh' = [Idle EXCEPT !.pc = "p_arp", !.arg = Arg]
  /\ UNCHANGED <<here, arp, nd, rs6, ip6, script, pr, ifc, redir, dhcp, ping, ping6, dns, cnt, socks>>
PingSend ==
  /\ sh.pc = "p_arp"
  /\ \/ /\ rs["sh"].st = "ok"
        /\ ping' = [ping EXCEPT !.active = TRUE, !.done = FALSE, !.ident = @ + 1]
        /\ wire' = wire \cup IF rs["sh"].mac # sh.arg THEN {}
                             ELSE IfHere(sh.arg, [k |-> "echo", src |-> sh.arg, id |-> ping.ident + 1, dst |-> ifc.ip])
        /\ Goto("p_wait")
     \/ rs["sh"].st = "fail" /\ Return /\ UNCHANGED <<ping, wire>>
  /\ EndResolve("sh")
  /\ UNCHANGED <<here, arp, nd, rs6, ip6, pr, ifc, redir, dhcp, ping6, dns, cnt, socks>>
PingEnd ==
  /\ sh.pc = "p_wait"
  /\ ping' = [ping EXCEPT !.active = FALSE]
  /\ Return
  /\ UNCHANGED <<neighVars, pr, ifc, redir, dhcp, ping6, dns, cnt, socks>>

(* net_ping6 *)
NextHop6(d) == IF d \in Far /\ ip6.global # None /\ ip6.gateway # None THEN ip6.gateway ELSE d
Ping6Start ==
  /\ Command("ping6")
  /\ ping6' = [ping6 EXCEPT !.active = TRUE, !.done = FALSE, !.ident = @ + 1, !.want = Arg]
  /\ Resolve6Begin(NextHop6(Arg))
  /\ sh' = [Idle EXCEPT !.pc = "6_nd", !.arg = Arg]
  /\ UNCHANGED <<here, arp, rs, ip6, script, pr, ifc, redir, dhcp, ping, dns, cnt, socks>>
Ping6Send ==
  /\ sh.pc = "6_nd" /\ rs6.st \in {"ok", "fail"}
  /\ wire' = wire \cup IF rs6.st = "fail" \/ rs6.mac # rs6.ip THEN {}
                       ELSE {[k |-> "echo6", src |-> sh.arg, id |-> ping6.ident]}
  /\ rs6' = NotResolving6
  /\ Goto("6_wait")
  /\ UNCHANGED <<here, arp, rs, nd, ip6, pr, ifc, redir, dhcp, ping, ping6, dns, cnt, socks>>
Ping6End ==
  /\ sh.pc = "6_wait"
  /\ ping6' = [ping6 EXCEPT !.active = FALSE]
  /\ Return
  /\ UNCHANGED <<neighVars, pr, ifc, redir, dhcp, ping, dns, cnt, socks>>

(* net_udp_send_to of a process, up to ip_send. *)
ProcSend ==
  /\ ~pr.in /\ pr.left > 0 /\ ifc.ip # None
  /\ \E d \in (here \cup Far) \ Hosts6 : NextHop(d) # None /\ ResolveBegin("pr", NextHop(d))
  /\ pr' = [left |-> pr.left - 1, in |-> TRUE]
  /\ UNCHANGED <<here, arp, nd, rs6, ip6, script, sh, ifc, redir, dhcp, ping, ping6, dns, cnt, socks>>
ProcSent ==
  /\ pr.in /\ rs["pr"].st \in {"ok", "fail"}
  /\ pr' = [pr EXCEPT !.in = FALSE]
  /\ EndResolve("pr")
  /\ UNCHANGED <<here, wire, arp, nd, rs6, ip6, script, sh, ifc, redir, dhcp, ping, ping6, dns, cnt, socks>>

----------------------------------------------------------------------------
(* net_dhcp.  Its second loop, which would send the REQUEST and wait for the *)
(* ACK, is never entered: dhcp_done is still set from the OFFER.             *)
(* A broadcast.  ip_send tells the link by the mask alone: once there is an  *)
(* address, a broadcast goes to the gateway's card and to no other host.     *)
All == "all"
ResolveBroadcast ==
  \/ /\ ifc.ip = None
     /\ rs' = [rs EXCEPT !["sh"] = [NotResolving EXCEPT !.st = "ok", !.ip = All, !.mac = All]]
     /\ UNCHANGED wire
  \/ ifc.ip # None /\ ResolveBegin("sh", ifc.gw)
Cards(mac) == IF mac = All THEN here ELSE here \cap {mac}
Reached(r) == IF r.st = "ok" THEN Cards(r.mac) ELSE {}

DhcpStart ==
  /\ Command("dhcp") \/ Command("boot") \/ sh.pc = "d_start"
  /\ dhcp' = [dhcp EXCEPT !.txid = cnt.tx + 1]
  /\ cnt' = [cnt EXCEPT !.tx = @ + 1]
  /\ sh' = [Idle EXCEPT !.pc = "d_begin", !.arg = Head(script)[1]]
  /\ UNCHANGED <<neighVars, script, pr, ifc, redir, ping, ping6, dns, socks>>
Discover ==
  /\ sh.pc = "d_begin" \/ (sh.pc = "d_wait" /\ ~dhcp.done /\ sh.try < DISCOVERS)
  /\ dhcp' = [dhcp EXCEPT !.waiting = TRUE, !.phase = 1, !.nak = FALSE, !.done = FALSE]
  /\ ResolveBroadcast
  /\ sh' = [sh EXCEPT !.pc = "d_arp", !.try = @ + 1, !.id = dhcp.txid]
  /\ UNCHANGED <<here, arp, nd, rs6, ip6, script, pr, ifc, redir, ping, ping6, dns, cnt, socks>>
Discovered ==
  /\ sh.pc = "d_arp" /\ rs["sh"].st \in {"ok", "fail"}
  /\ wire' = wire \cup {Offer(s, dhcp.txid) : s \in Servers \cap Reached(rs["sh"])}
  /\ EndResolve("sh")
  /\ Goto("d_wait")
  /\ UNCHANGED <<here, arp, nd, rs6, ip6, pr, ifc, redir, dhcp, ping, ping6, dns, cnt, socks>>
(* The time, or the user's Ctrl+C, ends the loop. *)
NoOffer ==
  /\ sh.pc = "d_wait" /\ ~dhcp.done
  /\ dhcp' = [dhcp EXCEPT !.waiting = FALSE]
  /\ \/ sh.arg = "boot" /\ Goto("b_init")
     \/ sh.arg # "boot" /\ Return
  /\ UNCHANGED <<neighVars, pr, ifc, redir, ping, ping6, dns, cnt, socks>>
(* kernel_main without an offer: net_init with the fixed addresses. *)
BootInit ==
  /\ sh.pc = "b_init"
  /\ ifc' = [ip |-> <<Default, 0>>, gw |-> Default, ns |-> None, tx |-> 0, asked |-> 0]
  /\ arp' = [arp EXCEPT !.cache = EmptyCache]
  /\ nd' = [nd EXCEPT !.cache = EmptyCache, !.waiting = FALSE, !.done = FALSE]
  /\ ip6' = Down6 /\ Return
  /\ ping6' = [ping6 EXCEPT !.active = FALSE, !.done = FALSE]
  /\ UNCHANGED <<here, wire, rs, rs6, pr, redir, dhcp, ping, dns, cnt, socks>>

GotOffer ==
  /\ sh.pc = "d_wait" /\ dhcp.done
  /\ dhcp' = [dhcp EXCEPT !.waiting = FALSE]
  /\ Goto("d_adopt")
  /\ UNCHANGED <<neighVars, pr, ifc, redir, ping, ping6, dns, cnt, socks>>
(* dhcp_done is tested again; dhcp_auto_poll may have cleared it by now.     *)
Adopt ==
  /\ sh.pc = "d_adopt"
  /\ \/ /\ dhcp.done
        /\ ifc' = [ifc EXCEPT !.ip = dhcp.offer.ip, !.tx = dhcp.offer.tx, !.asked = sh.id]
        /\ Goto("d_rest")
     \/ ~dhcp.done /\ Return /\ UNCHANGED ifc
  /\ UNCHANGED <<neighVars, pr, redir, dhcp, ping, ping6, dns, cnt, socks>>
AdoptRest ==
  /\ sh.pc = "d_rest"
  /\ ifc' = [ifc EXCEPT !.gw = dhcp.offer.gw, !.ns = dhcp.offer.ns]
  /\ dhcp' = [dhcp EXCEPT !.leased = TRUE]
  /\ arp' = [arp EXCEPT !.cache = EmptyCache]
  /\ Return
  /\ UNCHANGED <<here, wire, rs, nd, rs6, ip6, pr, redir, ping, ping6, dns, cnt, socks>>

(* net_dhcp_renew; the shell falls back on net_dhcp. *)
RenewStart ==
  /\ Command("renew") /\ ifc.ip # None
  /\ dhcp' = [dhcp EXCEPT !.txid = cnt.tx + 1]
  /\ cnt' = [cnt EXCEPT !.tx = @ + 1]
  /\ sh' = [Idle EXCEPT !.pc = "r_begin", !.arg = "renew"]
  /\ UNCHANGED <<neighVars, script, pr, ifc, redir, ping, ping6, dns, socks>>
Answers(t, reached) == IF dhcp.offer.ip # None /\ dhcp.offer.ip[1] \in reached THEN Acks(dhcp.offer, t) ELSE {}
RenewSend ==
  /\ sh.pc = "r_begin"
  /\ dhcp' = [dhcp EXCEPT !.waiting = TRUE, !.phase = 3, !.done = FALSE, !.nak = FALSE]
  /\ ResolveBegin("sh", ifc.gw)   \* the gateway for a broadcast, as above
  /\ sh' = [sh EXCEPT !.pc = "r_arp", !.id = dhcp.txid] /\ UNCHANGED script
  /\ UNCHANGED <<here, arp, nd, rs6, ip6, pr, ifc, redir, ping, ping6, dns, cnt, socks>>
RenewSent ==
  /\ sh.pc = "r_arp" /\ rs["sh"].st \in {"ok", "fail"}
  /\ wire' = wire \cup Answers(dhcp.txid, Reached(rs["sh"]))
  /\ EndResolve("sh")
  /\ Goto("r_wait")
  /\ UNCHANGED <<here, arp, nd, rs6, ip6, pr, ifc, redir, dhcp, ping, ping6, dns, cnt, socks>>
RenewStop ==
  /\ sh.pc = "r_wait"
  /\ dhcp' = [dhcp EXCEPT !.waiting = FALSE]
  /\ Goto("r_end")
  /\ UNCHANGED <<neighVars, pr, ifc, redir, ping, ping6, dns, cnt, socks>>
RenewEnd ==
  /\ sh.pc = "r_end"
  /\ LET o == dhcp.offer
     IN \/ /\ dhcp.done /\ ~dhcp.nak
           /\ ifc' = [ip |-> o.ip, tx |-> o.tx, asked |-> sh.id,
                      gw |-> IF o.gw # None THEN o.gw ELSE ifc.gw, ns |-> IF o.ns # None THEN o.ns ELSE ifc.ns]
           /\ Return
        \/ ~(dhcp.done /\ ~dhcp.nak) /\ Goto("d_start") /\ UNCHANGED ifc
  /\ UNCHANGED <<neighVars, pr, redir, dhcp, ping, ping6, dns, cnt, socks>>

(* dhcp_auto_poll of the timer interrupt, from half of the lease on.  It may *)
(* not wait for the gateway's card: it sends if the cache knows it.  It does *)
(* not set dhcp_waiting, so that nobody takes the answer.                    *)
dhcp_auto_poll ==
  /\ dhcp.leased /\ ~dhcp.waiting /\ ifc.ip # None /\ cnt.events > 0
  /\ dhcp' = [dhcp EXCEPT !.txid = cnt.tx + 1, !.phase = 3, !.done = FALSE]
  /\ cnt' = [cnt EXCEPT !.tx = @ + 1, !.events = @ - 1]
  /\ LET hit == Hits(arp.cache, ifc.gw)
     IN wire' = wire \cup IF hit = {} THEN {} ELSE Answers(cnt.tx + 1, Cards(arp.cache[Min(hit)].mac))
  /\ UNCHANGED <<here, arp, rs, nd, rs6, ip6, script, sh, pr, ifc, redir, ping, ping6, dns, socks>>

(* The client once message m was taken. *)
Answer(m) ==
  LET o == dhcp.offer
  IN CASE dhcp.phase = 1 /\ m.type = "OFFER" ->
            [dhcp EXCEPT !.offer = [ip |-> m.ip, gw |-> m.gw, ns |-> m.ns, tx |-> m.tx], !.done = TRUE]
       [] dhcp.phase = 3 /\ m.type = "ACK" ->
            [dhcp EXCEPT !.offer = [ip |-> m.ip, tx |-> m.tx, gw |-> IF m.gw # None THEN m.gw ELSE o.gw,
                                    ns |-> IF m.ns # None THEN m.ns ELSE o.ns],
                         !.leased = TRUE, !.nak = FALSE, !.done = TRUE]
       [] dhcp.phase = 3 /\ m.type = "NAK" -> [dhcp EXCEPT !.nak = TRUE, !.done = TRUE]
       [] OTHER -> dhcp

\* A plausible bug: the transaction of an answer is not compared.
handle_dhcp_any(m) == dhcp' = Answer(m)

handle_dhcp(m) == dhcp' = IF m.tx = dhcp.txid THEN Answer(m) ELSE dhcp

----------------------------------------------------------------------------
(* net_dns_resolve.  The copy of the name that is asked for has no end mark: *)
(* what follows it on the stack may belong to it (the name asked for is then *)
(* Junk), and so does the end of a longer name that a CNAME replaces.        *)
Fd == 0
Overlay(new, old) == IF NameLen[new] >= NameLen[old] THEN new ELSE Junk
NameServer == IF ifc.ns # None THEN ifc.ns ELSE Default

DnsStart ==
  /\ Command("dns")
  /\ \/ (\E e \in dns : e.name = Arg) /\ Return /\ UNCHANGED socks
     \/ /\ \A e \in dns : e.name # Arg
        /\ Fd \in FreeFds /\ socks' = [socks EXCEPT ![Fd] = Bound([Sock0 EXCEPT !.used = TRUE], DnsPort)]
        /\ \E x \in {Arg, Junk} : sh' = [Idle EXCEPT !.pc = "q_send", !.arg = Arg, !.name = x]
        /\ UNCHANGED script
  /\ UNCHANGED <<neighVars, pr, ifc, redir, dhcp, ping, ping6, dns, cnt>>
(* The id is made of tick + attempt + hop, so that the first query of a hop  *)
(* may repeat the id of the last one when that was a second attempt.         *)
DnsSend ==
  /\ sh.pc = "q_send"
  /\ ResolveBegin("sh", NextHop(NameServer))
  /\ \/ sh' = [sh EXCEPT !.pc = "q_arp", !.again = FALSE, !.id = cnt.id + 1] /\ cnt' = [cnt EXCEPT !.id = @ + 1]
     \/ sh.again /\ sh' = [sh EXCEPT !.pc = "q_arp", !.again = FALSE] /\ UNCHANGED cnt
  /\ UNCHANGED <<here, arp, nd, rs6, ip6, script, pr, ifc, redir, dhcp, ping, ping6, dns, socks>>
DnsSent ==
  /\ sh.pc = "q_arp" /\ rs["sh"].st \in {"ok", "fail"}
  /\ wire' = wire \cup IF rs["sh"].st = "fail" \/ rs["sh"].mac # rs["sh"].ip THEN {}
                       ELSE {[k |-> "dns", src |-> rs["sh"].ip, id |-> sh.id, ans |-> Zone1(sh.name), dst |-> ifc.ip]}
  /\ EndResolve("sh")
  /\ Goto("q_wait")
  /\ UNCHANGED <<here, arp, nd, rs6, ip6, pr, ifc, redir, dhcp, ping, ping6, dns, cnt, socks>>

CloseSocket == socks' = [socks EXCEPT ![Fd] = Closed(@)]
DnsTake ==
  /\ sh.pc = "q_wait" /\ socks[Fd].qn > 0
  /\ sh' = [sh EXCEPT !.pc = "q_got", !.dgram = socks[Fd].q[socks[Fd].qr], !.n = socks[Fd].qn]
  /\ socks' = [socks EXCEPT ![Fd] = Taken(@)]
  /\ UNCHANGED <<neighVars, script, pr, ifc, redir, dhcp, ping, ping6, dns, cnt>>

\* A plausible bug: the id of an answer is not compared.
Answered_any == TRUE

Answered == sh.dgram.id = sh.id

\* A plausible bug: no entry makes room for the new one.
dns_cache_store_grow(e) == dns' = dns \cup {e}

dns_cache_store(e) ==
  \/ Cardinality(dns) < DNS_CACHE /\ dns' = dns \cup {e}
  \/ Cardinality(dns) = DNS_CACHE /\ \E old \in dns : dns' = (dns \ {old}) \cup {e}   \* the code: the first to expire
DnsGot ==
  /\ sh.pc = "q_got"
  /\ LET a == sh.dgram.ans
         counted == [socks EXCEPT ![Fd] = Counted(@, sh.n)]
         again == [sh EXCEPT !.dgram = NoDgram, !.n = 0]
     IN \/ /\ Answered /\ a.t = "A"
           /\ CloseSocket /\ dns_cache_store([name |-> sh.arg, ip |-> a.v]) /\ Return
        \/ /\ Answered /\ a.t = "CNAME" /\ sh.hop + 1 < HOPS
           /\ sh' = [again EXCEPT !.pc = "q_send", !.hop = @ + 1, !.try = 0, !.again = sh.try > 0,
                                    !.name = Overlay(a.v, sh.name)]
           /\ socks' = counted /\ UNCHANGED <<dns, script>>
        \/ Answered /\ a.t = "CNAME" /\ sh.hop + 1 = HOPS /\ CloseSocket /\ Return /\ UNCHANGED dns
        \/ /\ ~Answered \/ a.t = "none"
           /\ sh' = [again EXCEPT !.pc = "q_wait"] /\ socks' = counted
           /\ UNCHANGED <<dns, script>>
  /\ UNCHANGED <<neighVars, pr, ifc, redir, dhcp, ping, ping6, cnt>>
DnsTimeout ==
  /\ sh.pc = "q_wait"
  /\ \/ /\ sh.try + 1 < TRIES
        /\ sh' = [sh EXCEPT !.pc = "q_send", !.try = @ + 1] /\ UNCHANGED <<socks, script>>
     \/ sh.try + 1 = TRIES /\ CloseSocket /\ Return
  /\ UNCHANGED <<neighVars, pr, ifc, redir, dhcp, ping, ping6, dns, cnt>>
DnsExpire ==
  /\ \E e \in dns : dns' = dns \ {e}
  /\ UNCHANGED <<neighVars, script, sh, pr, ifc, redir, dhcp, ping, ping6, socks>>

----------------------------------------------------------------------------
(* The interrupts. *)
\* A plausible bug: the reply is taken whichever request it answers.
handle_echo_any(m) ==
  ping' = IF ping.active THEN [ping EXCEPT !.src = m.src, !.done = TRUE] ELSE ping

(* handle_icmp and handle_icmp6: echo replies. *)
handle_echo(m) ==
  ping' = IF ping.active /\ m.id = ping.ident THEN [ping EXCEPT !.src = m.src, !.done = TRUE] ELSE ping
handle_echo6(m) ==
  ping6' = IF ping6.active /\ m.id = ping6.ident /\ m.src = ping6.want
           THEN [ping6 EXCEPT !.src = m.src, !.done = TRUE] ELSE ping6

Learned(m) == arp' = [arp EXCEPT !.cache = learn(@, Heard(m.src, m.src))]
(* net_handle_eth: an IPv4 frame for another address is dropped, except      *)
(* while DHCP waits.                                                         *)
Mine(m) == dhcp.waiting \/ m.dst = ifc.ip

net_handle_eth(m) ==
  /\ \/ m.k = "arprep" /\ handle_arp(m) /\ UNCHANGED <<nd, ip6, dhcp, ping, ping6, socks>>
     \/ m.k = "na" /\ handle_na(m) /\ UNCHANGED <<arp, ip6, dhcp, ping, ping6, socks>>
     \/ m.k = "ra" /\ handle_ra(m) /\ UNCHANGED <<arp, nd, dhcp, ping, ping6, socks>>
     \/ m.k = "echo6" /\ handle_echo6(m) /\ UNCHANGED <<arp, nd, ip6, dhcp, ping, socks>>
     \/ m.k = "echo" /\ Mine(m) /\ handle_echo(m) /\ UNCHANGED <<arp, nd, ip6, dhcp, ping6, socks>>
     \/ /\ m.k = "dhcp" /\ Learned(m)
        /\ (dhcp.waiting /\ handle_dhcp(m)) \/ (~dhcp.waiting /\ UNCHANGED dhcp)
        /\ UNCHANGED <<nd, ip6, ping, ping6, socks>>
     \/ /\ m.k = "dns" /\ Mine(m) /\ Learned(m)
        /\ socks' = Handled(DnsPort, [id |-> m.id, ans |-> m.ans])
        /\ UNCHANGED <<nd, ip6, dhcp, ping, ping6>>
     \/ m.k \in {"echo", "dns"} /\ ~Mine(m) /\ UNCHANGED <<arp, nd, ip6, dhcp, ping, ping6, socks>>
  /\ UNCHANGED <<here, rs, rs6, script, sh, pr, ifc, redir, dns>>

Deliver == \E m \in wire : net_handle_eth(m) /\ wire' = wire \ {m} /\ UNCHANGED cnt
DeliverCopy == \E m \in wire : net_handle_eth(m) /\ UNCHANGED wire

(* A neighbour asks for this host's address. *)
NeighbourAsks ==
  /\ \/ \E h \in here \ Hosts6 : handle_arp([k |-> "arpreq", src |-> h]) /\ UNCHANGED nd
     \/ \E h \in here \cap Hosts6 : handle_ns(h) /\ UNCHANGED arp
  /\ UNCHANGED <<here, wire, rs, rs6, ip6, script, sh, pr, ifc, redir, dhcp, ping, ping6, dns, socks>>
(* handle_icmp: a neighbour knows a better way to a far destination. *)
Redirect ==
  /\ ifc.ip # None
  /\ \E d \in Far \ Hosts6, h \in here \ Hosts6 : redir' = [dst |-> d, hop |-> h]
  /\ UNCHANGED <<neighVars, script, sh, pr, ifc, dhcp, ping, ping6, dns, socks>>
RedirExpire ==
  /\ redir # None /\ redir' = None
  /\ UNCHANGED <<neighVars, script, sh, pr, ifc, dhcp, ping, ping6, dns, socks>>
Aging ==
  /\ arp_aging_poll \/ nd6_aging_poll
  /\ UNCHANGED <<script, sh, pr, ifc, redir, dhcp, ping, ping6, dns, socks>>

(* What comes unasked, at most cnt.events times in a behaviour: a frame      *)
(* delivered twice, a neighbour's question, a redirect, the end of an entry's *)
(* time, and an automatic renewal.  The last three and Solicitation are the  *)
(* timer's net_aux_tick.                                                     *)
Event ==
  /\ cnt.events > 0 /\ cnt' = [cnt EXCEPT !.events = @ - 1]
  /\ DeliverCopy \/ NeighbourAsks \/ Redirect \/ RedirExpire \/ Aging \/ DnsExpire
Solicitation == ip6_slaac_poll(Routers6) /\ UNCHANGED netVars

Shell ==
  \/ Resolving("sh") \/ Resolving6
  \/ PingStart \/ PingSend \/ PingEnd \/ Ping6Start \/ Ping6Send \/ Ping6End
  \/ DhcpStart \/ Discover \/ Discovered \/ NoOffer \/ BootInit \/ GotOffer \/ Adopt \/ AdoptRest
  \/ RenewStart \/ RenewSend \/ RenewSent \/ RenewStop \/ RenewEnd
  \/ DnsStart \/ DnsSend \/ DnsSent \/ DnsTake \/ DnsGot \/ DnsTimeout
Process == Resolving("pr") \/ ProcSend \/ ProcSent
Interrupts == Deliver \/ Event \/ dhcp_auto_poll \/ Solicitation

Next == Shell \/ Process \/ Interrupts
Spec == Init /\ [][Next]_vars /\ WF_vars(Shell)

----------------------------------------------------------------------------
(* Types, and the bounds of the loops. *)
TypeOK ==
  /\ \A i \in 1..NCACHE : arp.cache[i].sure \in BOOLEAN /\ nd.cache[i].sure \in BOOLEAN
  /\ \A c \in Callers : rs[c].st \in {"idle", "sent", "wait", "woken", "ok", "fail"}
  /\ rs6.st \in {"idle", "sent", "wait", "ok", "fail"} /\ rs6.try \in 0..NS_TRIES
  /\ ip6.tries \in 0..RS_TRIES
  /\ sh.hop \in 0..HOPS-1 /\ sh.try \in 0..Max({TRIES, DISCOVERS})
  /\ dhcp.phase \in {0, 1, 3} /\ {dhcp.waiting, dhcp.done, dhcp.nak, dhcp.leased} \subseteq BOOLEAN
  /\ \A s \in Fds : socks[s].qn \in 0..UDP_QLEN /\ {socks[s].qr, socks[s].qw} \subseteq 0..UDP_QLEN-1
  /\ Cardinality(dns) <= DNS_CACHE

(* A neighbour's MAC is its own: every entry of the two caches, and every    *)
(* MAC that a resolution returns, is that of the address, however late,      *)
(* doubled or crossed the answers are.  Two cases are left out because the   *)
(* code gets them wrong: a caller of arp_resolve that another one overtakes  *)
(* while it waits, and an nd6_resolve that finds ndp_done set by an earlier. *)
NeighboursTrue ==
  /\ \A i \in 1..NCACHE : LET e == arp.cache[i] IN e.sure => e.mac = e.ip
  /\ \A i \in 1..NCACHE : LET e == nd.cache[i] IN e.sure => e.mac = e.ip
  /\ \A r \in {rs[c] : c \in Callers} \cup {rs6} : (r.st = "ok" /\ r.sure) => r.mac = r.ip

(* The address, the gateway and the name server in use come from one server, *)
(* and from an answer to the transaction that the call had sent, whatever    *)
(* other offers, old answers and automatic renewals come in between.         *)
LeaseMatches ==
  sh.pc # "d_rest" =>
    /\ ifc.tx = ifc.asked
    /\ ifc.asked # 0 => ifc.gw = ifc.ip[1] /\ ifc.ns = ifc.ip[1]

(* A ping that has been answered was answered by the host it was sent to,    *)
(* and not by one that an earlier ping had asked.                            *)
PingMatches ==
  /\ (sh.pc = "p_wait" /\ ping.done) => ping.src = sh.arg
  /\ (sh.pc = "6_wait" /\ ping6.done) => ping6.src = sh.arg

(* What the zone says of a name, followed over at most HOPS names. *)
AddressOf(name) ==
  LET at[i \in 0..HOPS-1] == IF i = 0 THEN name ELSE Zone1(at[i - 1]).v
  IN {Zone1(at[i]).v : i \in {j \in 0..HOPS-1 : Zone1(at[j]).t = "A"}}

(* The DNS cache tells the truth: late and doubled answers, answers of an    *)
(* earlier command that used the same port, and counts lost by the race on   *)
(* the queue never bind a name to another name's address.                    *)
DnsTrue == \A e \in dns : e.ip \in AddressOf(e.name)

(* Every network command of the shell returns: no loop over attempts, hops   *)
(* or solicitations goes on for ever, whatever arrives.                      *)
CommandsReturn == [](sh.pc # "idle" => <>(sh.pc = "idle"))
=============================================================================
