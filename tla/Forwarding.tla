----------------------------- MODULE Forwarding -----------------------------
(***************************************************************************)
(* handle_ip_packet and send_icmp_response (sr_router.c) in a network of   *)
(* routers that all run this code.                                         *)
(*                                                                         *)
(* The handler keeps no state: it turns one datagram into at most one      *)
(* other, the same one forwarded or an ICMP message about it.  So one      *)
(* datagram is followed from the host that sends it to the end of          *)
(* everything that it causes.  The routing tables are arbitrary: they may  *)
(* have loops and holes.  An ICMP message does not leave by a route but    *)
(* goes back to the neighbour the frame came from.  How a frame waits for  *)
(* ARP is the subject of ArpCache.                                         *)
(***************************************************************************)
EXTENDS Naturals

CONSTANTS
    Router, Host,
    Neighbours,   \* for each router, the routers and hosts on its links
    Tables,       \* the routing tables that the routers may have
    MaxTTL,       \* 255, the greatest uint8_t
    HostTTL,      \* TTLs with which hosts send
    NoRoute,      \* no route matches
    OtherSum,     \* a right checksum that cksum does not yield, see Sum
    Nothing       \* no datagram, no event

\* An interface of router n is known by the neighbour m on its link.
Interface == {i \in Router \X (Router \cup Host) : i[2] \in Neighbours[i[1]]}
Addr == Host \cup Interface

ASSUME ForwardingAssumption ==
    /\ Router \cap Host = {}
    /\ Host \cap Interface = {}
    /\ Neighbours \in [Router -> SUBSET (Router \cup Host)]
    /\ \A n, m \in Router : m \in Neighbours[n] <=> n \in Neighbours[m]
    /\ \A t \in Tables : \A n \in Router : \A a \in Addr :
           t[n][a] \in Neighbours[n] \cup {NoRoute}
    /\ NoRoute \notin Router \cup Host
    /\ MaxTTL \in Nat \ {0}
    /\ HostTTL \subseteq 0 .. MaxTTL

\* "echo" is an echo request that is in order, "udp" stands for TCP too.
Icmp == {"echo", "reply", "exceeded", "net_unreachable", "port_unreachable"}
Kind == Icmp \cup {"udp", "other"}
HostKind == {"echo", "reply", "udp", "other"}

\* The sum is kept as the fields it was taken over, so that it is right for no other
\* header.  Another station may write a right one that cksum never yields: 0, or the sum
\* of a header with options, of which cksum gets the first 20 bytes only.
Cksum == Addr \X Addr \X Kind \X (0 .. MaxTTL)
Sum == Cksum \cup {OtherSum}
Datagram == [src : Addr, dst : Addr, kind : Kind, ttl : 0 .. MaxTTL, sum : Sum]

ASSUME NothingAssumption == Nothing \notin Datagram /\ OtherSum \notin Cksum

INIT_TTL == MaxTTL

VARIABLES
    route,        \* sr_longest_prefix_match of every router
    pkt,          \* the datagram on its way, or Nothing
    at, via,      \* who receives it, and the neighbour it comes from
    \* History.
    first,        \* what the host has sent
    ttl0, hops,   \* the TTL that pkt set out with, and how often it was forwarded
    outcome       \* what has become of it all

vars == <<route, pkt, at, via, first, ttl0, hops, outcome>>

cksum(src, dst, kind, ttl) == <<src, dst, kind, ttl>>
SumOf(p) == cksum(p.src, p.dst, p.kind, p.ttl)

\* ip_ttl--, on an uint8_t.
Decremented(ttl) == IF ttl = 0 THEN MaxTTL ELSE ttl - 1

(* Every variable has the shape its declaration says. *)
TypeOK ==
    /\ \A n \in Router : \A a \in Addr : route[n][a] \in Neighbours[n] \cup {NoRoute}
    /\ pkt = Nothing \/ pkt \in Datagram
    /\ pkt # Nothing => /\ at \in Router \cup Host /\ via \in Router \cup Host
                        /\ at \in Router => via \in Neighbours[at]
    /\ first = Nothing \/ first \in Datagram
    /\ first = Nothing => pkt = Nothing
    /\ ttl0 \in 0 .. MaxTTL
    /\ hops \in 0 .. MaxTTL

Init ==
    /\ route \in Tables
    /\ pkt = Nothing /\ at = Nothing /\ via = Nothing
    /\ first = Nothing
    /\ ttl0 = 0 /\ hops = 0
    /\ outcome = Nothing

\* A host sends, through the router it is attached to, in its own name.  The
\* checksum may be that of another header, or one that cksum does not yield.
HostSends(h) ==
    /\ first = Nothing
    /\ \E n \in Router, a \in Addr, kind \in HostKind, ttl \in HostTTL :
       \E sum \in {cksum(h, a, kind, ttl), cksum(h, a, kind, Decremented(ttl)), OtherSum} :
         /\ h \in Neighbours[n]
         /\ pkt' = [src |-> h, dst |-> a, kind |-> kind, ttl |-> ttl, sum |-> sum]
         /\ at' = n
         /\ ttl0' = ttl
    /\ via' = h
    /\ first' = pkt'
    /\ hops' = 0
    /\ UNCHANGED <<route, outcome>>

-----------------------------------------------------------------------------
(* A router. *)

Finish(what) ==
    /\ pkt' = Nothing /\ at' = Nothing /\ via' = Nothing
    /\ ttl0' = 0 /\ hops' = 0
    /\ outcome' = what
    /\ UNCHANGED <<route, first>>

\* Mutant: the destination of the request is left in the copied header.
Response_SameDst(kind, ip_src) ==
    [src |-> ip_src, dst |-> pkt.dst, kind |-> kind, ttl |-> INIT_TTL,
     sum |-> cksum(ip_src, pkt.dst, kind, INIT_TTL)]

Response(kind, ip_src) ==
    [src |-> ip_src, dst |-> pkt.src, kind |-> kind, ttl |-> INIT_TTL,
     sum |-> cksum(ip_src, pkt.src, kind, INIT_TTL)]

\* Mutant: the message is routed to its destination.
SendBack_ByRoute(n, kind, ip_src) ==
    /\ pkt' = Response(kind, ip_src)
    /\ at' = route[n][pkt.src] /\ via' = n
    /\ ttl0' = INIT_TTL /\ hops' = 0
    /\ UNCHANGED <<route, first, outcome>>

\* The response leaves on the interface the frame came in by, to its sender.
SendBack(n, kind, ip_src) ==
    /\ pkt' = Response(kind, ip_src)
    /\ at' = via /\ via' = n
    /\ ttl0' = INIT_TTL /\ hops' = 0
    /\ UNCHANGED <<route, first, outcome>>

\* send_icmp_response.  Before it sends, it prints icmp_sum through a pointer that nobody
\* has set: the read goes through, or it is the end of the process.  Until the process is
\* started again its links lose every frame.
SendIcmpResponse(n, kind, ip_src) ==
    \/ SendBack(n, kind, ip_src)
    \/ Finish("died")

\* get_dst_interface: any interface of the router, not only the receiving one.
ForUs(n) == pkt.dst \in {<<n, m>> : m \in Neighbours[n]}

Discard(n) == Finish("discarded")

\* A frame that is too short for the header is treated like this one, and a right
\* checksum that cksum does not yield like a wrong one.
WrongSum(n) ==
    /\ pkt.sum # SumOf(pkt)
    /\ Discard(n)

\* Mutant: the type is not looked at.
EchoRequest_AnyType == pkt.kind \in Icmp

EchoRequest == pkt.kind = "echo"

\* ip_interface != NULL: the answer is sent in the name of the address that was asked.
Deliver(n) ==
    /\ pkt.sum = SumOf(pkt)
    /\ ForUs(n)
    /\ \/ EchoRequest /\ SendIcmpResponse(n, "reply", pkt.dst)
       \/ pkt.kind \in Icmp /\ ~EchoRequest /\ Discard(n)
       \/ pkt.kind = "udp" /\ SendIcmpResponse(n, "port_unreachable", pkt.dst)
       \/ pkt.kind = "other" /\ Discard(n)

\* Mutant: the test comes before the decrement.
Exceeded_BeforeDecrement(ttl) == ttl = 0

Exceeded(ttl) == Decremented(ttl) = 0

TimeExceeded(n) ==
    /\ pkt.sum = SumOf(pkt)
    /\ ~ForUs(n)
    /\ Exceeded(pkt.ttl)
    /\ SendIcmpResponse(n, "exceeded", <<n, via>>)

NetUnreachable(n) ==
    /\ pkt.sum = SumOf(pkt)
    /\ ~ForUs(n)
    /\ ~Exceeded(pkt.ttl)
    /\ route[n][pkt.dst] = NoRoute
    /\ SendIcmpResponse(n, "net_unreachable", <<n, via>>)

\* Mutant: the checksum is the one the datagram came with.
NewSum_Kept == pkt.sum

NewSum == cksum(pkt.src, pkt.dst, pkt.kind, Decremented(pkt.ttl))

Forward(n) ==
    /\ pkt.sum = SumOf(pkt)
    /\ ~ForUs(n)
    /\ ~Exceeded(pkt.ttl)
    /\ route[n][pkt.dst] # NoRoute
    /\ pkt' = [pkt EXCEPT !.ttl = Decremented(@), !.sum = NewSum]
    /\ at' = route[n][pkt.dst] /\ via' = n
    /\ hops' = hops + 1
    /\ UNCHANGED <<route, first, ttl0, outcome>>

HandleIpPacket(n) ==
    /\ pkt # Nothing /\ at = n
    /\ \/ WrongSum(n)
       \/ Deliver(n)
       \/ TimeExceeded(n)
       \/ NetUnreachable(n)
       \/ Forward(n)

-----------------------------------------------------------------------------
(* The rest of the network. *)

\* A host takes what is meant for it and is no router.
HostReceives(h) ==
    /\ pkt # Nothing /\ at = h
    /\ Finish(IF pkt.dst = h THEN pkt.kind ELSE "discarded")

\* A frame is lost on the link, or nobody answers ARP for the next hop: the host
\* unreachable that is sent then does not get anywhere either.
Lose ==
    /\ pkt # Nothing
    /\ Finish("lost")

\* The exchange is over, and its history is forgotten before the next one.
Forget ==
    /\ pkt = Nothing /\ first # Nothing
    /\ first' = Nothing /\ outcome' = Nothing
    /\ UNCHANGED <<route, pkt, at, via, ttl0, hops>>

Next ==
    \/ \E h \in Host : HostSends(h) \/ HostReceives(h)
    \/ \E n \in Router : HandleIpPacket(n)
    \/ Lose
    \/ Forget

\* Whoever has received a frame handles it.
Fairness ==
    /\ \A n \in Router : WF_vars(HandleIpPacket(n))
    /\ \A h \in Host : WF_vars(HostReceives(h))

Spec == Init /\ [][Next]_vars /\ Fairness

-----------------------------------------------------------------------------
(* Properties. *)

\* However the routes loop, a datagram is forwarded less often than its TTL says; one
\* that sets out with TTL 0 gets through the first decrement as if it were 256.
HopBound == hops <= IF ttl0 = 0 THEN MaxTTL ELSE ttl0 - 1

\* Whatever a router sends passes the checksum test of the next one: the header is
\* summed up after its last change.
SumsRight == pkt # Nothing /\ pkt # first => pkt.sum = SumOf(pkt)

\* One datagram causes a finite exchange, although routers answer ICMP messages with
\* ICMP messages: what comes of an error about an error ends at the router that is
\* its destination.  The routes to the routers' own addresses have to be right.
Quiesces == pkt # Nothing ~> pkt = Nothing

\* The routes to host h lead to it: each hop comes to a router of a lower rank.
LeadsTo(h, rank) ==
    \A n \in Router : \/ route[n][h] = h
                      \/ /\ route[n][h] \in Router
                         /\ rank[route[n][h]] < rank[n]

\* And they are short enough for a message that sets out with INIT_TTL.
Rank == 0 .. INIT_TTL - 2
Reaches(h) == \E rank \in [Router -> Rank] : LeadsTo(h, rank)

\* No route for address a leads to a host that does not have it.
NotMisled(a) == \A n \in Router : route[n][a] \in Host => route[n][a] = a

\* If nothing is lost and no router dies, a host whose own routes are right learns what
\* has become of its TCP, UDP or echo request: it arrives, or an answer does, also when
\* the routes to the destination loop or end somewhere.  The request has the checksum
\* that the routers compute; one with OtherSum the first router drops without a word.
Answered ==
    /\ pkt = Nothing /\ first # Nothing /\ outcome \notin {"lost", "died"}
    /\ first.sum = SumOf(first) /\ first.kind \in {"echo", "udp"}
    /\ NotMisled(first.dst)
    /\ Reaches(first.src)
    => outcome # "discarded"

=============================================================================
