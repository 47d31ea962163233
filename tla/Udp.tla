-------------------------------- MODULE Udp --------------------------------
(* The UDP sockets of the kernel (src/kernel/net.cpp 441-590): a table of    *)
(* sockets, each with a ring of datagrams that the receive interrupt fills   *)
(* (handle_udp) and a caller empties.                                        *)
EXTENDS Integers, FiniteSets, FiniteSetsExt

CONSTANTS
  UDP_SOCKS,  \* sockets (8 in the code)
  UDP_QLEN,   \* datagrams that a socket holds (4)
  NoDgram     \* the contents of an empty place

ASSUME UdpAssumption == {UDP_SOCKS, UDP_QLEN} \subseteq Nat \ {0}

VARIABLE socks

Fds == 0..UDP_SOCKS-1
Sock0 == [used |-> FALSE, bound |-> FALSE, port |-> 0, qr |-> 0, qw |-> 0, qn |-> 0,
          q |-> [i \in 0..UDP_QLEN-1 |-> NoDgram]]

FreeFds == {s \in Fds : ~socks[s].used}
udp_sock_bound(port) == {s \in Fds : socks[s].used /\ socks[s].bound /\ socks[s].port = port}

udp_sock_alloc(s) == s = Min(FreeFds) /\ socks' = [socks EXCEPT ![s] = [Sock0 EXCEPT !.used = TRUE]]
CanBind(s, port) == socks[s].used /\ ~socks[s].bound /\ udp_sock_bound(port) = {}
Bound(u, port) == [u EXCEPT !.bound = TRUE, !.port = port, !.qn = 0, !.qr = 0, !.qw = 0]

\* A plausible bug: a datagram for a full socket overwrites the oldest one.
enqueue_over(u, d) ==
  [u EXCEPT !.q[u.qw] = d, !.qw = (@ + 1) % UDP_QLEN, !.qn = Min({@ + 1, UDP_QLEN})]

\* A plausible bug: the test for a full ring is missing.
enqueue_unchecked(u, d) == [u EXCEPT !.q[u.qw] = d, !.qw = (@ + 1) % UDP_QLEN, !.qn = @ + 1]

(* The datagram is dropped when the ring is full. *)
enqueue(u, d) ==
  IF u.qn >= UDP_QLEN THEN u
  ELSE [u EXCEPT !.q[u.qw] = d, !.qw = (@ + 1) % UDP_QLEN, !.qn = @ + 1]
(* The end of handle_udp: the sockets once datagram d for port was handled.  *)
Handled(port, d) ==
  LET s == udp_sock_bound(port)
  IN IF s = {} THEN socks ELSE [socks EXCEPT ![Min(s)] = enqueue(@, d)]

(* net_udp_recv_from takes the datagram at qr and loads qn ...               *)
Taken(u) == [u EXCEPT !.qr = (@ + 1) % UDP_QLEN]
(* ... and stores it less one.  With interrupts on, a datagram may come in   *)
(* between; its count is then lost.                                          *)
Counted(u, loaded) == [u EXCEPT !.qn = loaded - 1]

(* net_udp_close.  What the ring held is cleared by the next alloc; it is    *)
(* cleared here, since nobody sees it in between.                            *)
Closed(u) == Sock0
=============================================================================
