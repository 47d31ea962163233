------------------------------- MODULE Neigh -------------------------------
(* Neighbour resolution of the kernel: ARP (src/kernel/net.cpp 20-34 and     *)
(* 107-198) and its IPv6 counterpart NDP with SLAAC (2426-2760).             *)
(*                                                                           *)
(* A card has the name of its host, so that a cache entry is right when its  *)
(* MAC equals its address.  A request puts the answer it draws in wire: the  *)
(* answer may come at any later time, or never.  Ticks are left out: a wait  *)
(* may end, and an entry grow old, at any time.  Frames that the host sends  *)
(* as answers to others leave the model.                                     *)
EXTENDS Integers, FiniteSets, FiniteSetsExt

CONSTANTS
  NCACHE,     \* entries of each cache (8 in the code)
  NS_TRIES,   \* solicitations of one nd6_resolve (3)
  RS_TRIES,   \* router solicitations (3)
  Callers,    \* threads that may be in arp_resolve: the shell, a process's send
  None

ASSUME NeighAssumption == {NCACHE, NS_TRIES, RS_TRIES} \subseteq Nat \ {0}

VARIABLES
  here,   \* the hosts on the link, fixed
  wire,   \* frames on their way to this host
  arp,    \* arp_cache and the one waiter: [cache, waiting, done, want, reply]
  rs,     \* rs[c]: caller c inside arp_resolve
  nd,     \* nd6_cache and its waiter, as arp
  rs6,    \* the shell inside nd6_resolve
  ip6     \* [global, gateway, rs_on, tries]: SLAAC

neighVars == <<here, wire, arp, rs, nd, rs6, ip6>>

(* sure is a history flag: FALSE on an entry that a resolution stored from   *)
(* the shared reply when the reply may have been another resolution's.       *)
NoEntry == [ip |-> None, mac |-> None, sure |-> TRUE]
EmptyCache == [i \in 1..NCACHE |-> NoEntry]
NoWaiter == [cache |-> EmptyCache, waiting |-> FALSE, done |-> FALSE, want |-> None, reply |-> None]
NotResolving == [st |-> "idle", ip |-> None, mac |-> None, sure |-> TRUE]
NotResolving6 == [st |-> "idle", ip |-> None, mac |-> None, sure |-> TRUE, try |-> 0]
Down6 == [global |-> None, gateway |-> None, rs_on |-> TRUE, tries |-> 0]

Hits(cache, ip) == {i \in 1..NCACHE : cache[i].ip = ip}
FreeEntries(cache) == {i \in 1..NCACHE : cache[i] = NoEntry}
store(cache, e) ==
  IF FreeEntries(cache) = {} THEN cache ELSE [cache EXCEPT ![Min(FreeEntries(cache))] = e]
(* arp_learn and nd6_learn: update, else take a free entry, else forget it.  *)
learn(cache, e) ==
  IF Hits(cache, e.ip) = {} THEN store(cache, e) ELSE [cache EXCEPT ![Min(Hits(cache, e.ip))] = e]
Heard(ip, mac) == [ip |-> ip, mac |-> mac, sure |-> TRUE]

(* The answer x that the frame's target gives if it is on the link. *)
IfHere(h, x) == IF h \in here THEN {x} ELSE {}

----------------------------------------------------------------------------
(* arp_resolve by caller c, from its look-up to the request.                 *)
ResolveBegin(c, ip) ==
  LET hit == Hits(arp.cache, ip)
  IN \/ /\ hit # {}
        /\ LET e == arp.cache[Min(hit)]
           IN rs' = [rs EXCEPT ![c] = [st |-> "ok", ip |-> ip, mac |-> e.mac, sure |-> e.sure]]
        /\ UNCHANGED wire
     \/ /\ hit = {}
        /\ rs' = [rs EXCEPT ![c] = [NotResolving EXCEPT !.st = "sent", !.ip = ip]]
        /\ wire' = wire \cup IfHere(ip, [k |-> "arprep", src |-> ip])

(* The waiter is armed after the request has left.  It is one for all        *)
(* callers: whoever is still in its wait may get the later caller's reply.   *)
ResolveArm(c) ==
  LET overtaken == {d \in Callers \ {c} : rs[d].st \in {"wait", "woken"}}
  IN /\ rs[c].st = "sent"
     /\ arp' = [arp EXCEPT !.want = rs[c].ip, !.waiting = TRUE, !.done = FALSE]
     /\ rs' = [d \in Callers |->
                 IF d = c THEN [rs[c] EXCEPT !.st = "wait"]
                 ELSE IF d \in overtaken THEN [rs[d] EXCEPT !.sure = FALSE] ELSE rs[d]]
     /\ UNCHANGED wire

(* The end of the wait, by the reply or the deadline, and then its outcome.  *)
ResolveStop(c) ==
  /\ rs[c].st = "wait"
  /\ arp' = [arp EXCEPT !.waiting = FALSE]
  /\ rs' = [rs EXCEPT ![c].st = "woken"]
  /\ UNCHANGED wire
ResolveEnd(c) ==
  /\ rs[c].st = "woken"
  /\ \/ /\ arp.done
        /\ arp' = [arp EXCEPT !.cache = store(@, [ip |-> rs[c].ip, mac |-> arp.reply, sure |-> rs[c].sure])]
        /\ rs' = [rs EXCEPT ![c].st = "ok", ![c].mac = arp.reply]
     \/ /\ ~arp.done
        /\ rs' = [rs EXCEPT ![c].st = "fail"]
        /\ UNCHANGED arp
  /\ UNCHANGED wire

\* A plausible bug: any reply ends the wait, whoever sent it.
handle_arp_any(m) ==
  LET heard == [arp EXCEPT !.cache = learn(@, Heard(m.src, m.src))]
  IN arp' = IF m.k = "arprep" /\ arp.waiting THEN [heard EXCEPT !.reply = m.src, !.done = TRUE] ELSE heard

handle_arp(m) ==
  LET heard == [arp EXCEPT !.cache = learn(@, Heard(m.src, m.src))]
  IN arp' = IF m.k = "arprep" /\ arp.waiting /\ m.src = arp.want
            THEN [heard EXCEPT !.reply = m.src, !.done = TRUE] ELSE heard

arp_aging_poll ==
  /\ \E i \in 1..NCACHE : arp.cache[i] # NoEntry /\ arp' = [arp EXCEPT !.cache[i] = NoEntry]
  /\ UNCHANGED <<here, wire, rs, nd, rs6, ip6>>

----------------------------------------------------------------------------
(* nd6_resolve: when ndp_done is still set from an earlier resolution, the   *)
(* loop is not entered and the earlier reply is taken (and learned) at once. *)
Resolved6(r, sure) ==
  /\ nd' = [nd EXCEPT !.waiting = FALSE, !.cache = learn(@, [ip |-> r.ip, mac |-> nd.reply, sure |-> sure])]
  /\ rs6' = [r EXCEPT !.st = "ok", !.mac = nd.reply, !.sure = sure]
Solicit(r) ==
  /\ rs6' = [r EXCEPT !.st = "sent", !.try = @ + 1]
  /\ wire' = wire \cup IfHere(r.ip, [k |-> "na", src |-> r.ip])
Resolve6Begin(ip) ==
  LET hit == Hits(nd.cache, ip)
      r == [NotResolving6 EXCEPT !.ip = ip]
  IN \/ /\ hit # {}
        /\ LET e == nd.cache[Min(hit)] IN rs6' = [r EXCEPT !.st = "ok", !.mac = e.mac, !.sure = e.sure]
        /\ UNCHANGED <<nd, wire>>
     \/ hit = {} /\ nd.done /\ Resolved6(r, FALSE) /\ UNCHANGED wire
     \/ hit = {} /\ ~nd.done /\ Solicit(r) /\ UNCHANGED nd
Resolve6Arm ==
  /\ rs6.st = "sent"
  /\ nd' = [nd EXCEPT !.want = rs6.ip, !.waiting = TRUE, !.done = FALSE]
  /\ rs6' = [rs6 EXCEPT !.st = "wait"]
  /\ UNCHANGED wire

\* A plausible bug: the solicitations are not counted.
Resolve6EndForEver ==
  /\ rs6.st = "wait"
  /\ \/ nd.done /\ Resolved6(rs6, TRUE) /\ UNCHANGED wire
     \/ ~nd.done /\ Solicit([rs6 EXCEPT !.try = 0]) /\ UNCHANGED nd

Resolve6End ==
  /\ rs6.st = "wait"
  /\ \/ nd.done /\ Resolved6(rs6, TRUE) /\ UNCHANGED wire
     \/ ~nd.done /\ rs6.try < NS_TRIES /\ Solicit(rs6) /\ UNCHANGED nd
     \/ /\ ~nd.done /\ rs6.try = NS_TRIES
        /\ nd' = [nd EXCEPT !.waiting = FALSE]
        /\ rs6' = [rs6 EXCEPT !.st = "fail"]
        /\ UNCHANGED wire

(* handle_icmp6: an advertisement, a neighbour's solicitation, a router's    *)
(* advertisement (the prefix is the router's, and is taken only once).       *)
handle_na(m) ==
  LET heard == [nd EXCEPT !.cache = learn(@, Heard(m.src, m.src))]
  IN nd' = IF nd.waiting /\ m.src = nd.want THEN [heard EXCEPT !.reply = m.src, !.done = TRUE] ELSE heard
handle_ns(src) == nd' = [nd EXCEPT !.cache = learn(@, Heard(src, src))]
handle_ra(m) == ip6' = [ip6 EXCEPT !.gateway = m.src, !.global = IF @ = None THEN m.src ELSE @]

nd6_aging_poll ==
  /\ \E i \in 1..NCACHE : nd.cache[i] # NoEntry /\ nd' = [nd EXCEPT !.cache[i] = NoEntry]
  /\ UNCHANGED <<here, wire, arp, rs, rs6, ip6>>

(* ip6_slaac_poll, with the solicitation that the routers may answer.        *)
ip6_slaac_poll(routers) ==
  /\ ip6.rs_on
  /\ \/ /\ ip6.gateway = None /\ ip6.tries < RS_TRIES
        /\ wire' = wire \cup UNION {IfHere(r, [k |-> "ra", src |-> r]) : r \in routers}
        /\ ip6' = [ip6 EXCEPT !.tries = @ + 1]
     \/ /\ ip6.gateway # None \/ ip6.tries = RS_TRIES
        /\ ip6' = [ip6 EXCEPT !.rs_on = FALSE]
        /\ UNCHANGED wire
  /\ UNCHANGED <<here, arp, rs, nd, rs6>>
=============================================================================
