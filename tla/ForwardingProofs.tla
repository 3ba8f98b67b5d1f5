-------------------------- MODULE ForwardingProofs --------------------------
(* Theorems about Forwarding: for every network, every routing tables and    *)
(* every width of the TTL.                                                   *)
EXTENDS Forwarding, TLAPS

\* The address of a router's own interface is an address.
LEMMA OwnAddr ==
    ASSUME NEW n \in Router, NEW m \in Neighbours[n]
    PROVE  <<n, m>> \in Addr
<1>1. m \in Router \cup Host
    BY ForwardingAssumption
<1> QED
    BY <1>1 DEF Addr, Interface

\* The decrement stays within the width of the TTL.
LEMMA DecrementedType ==
    ASSUME NEW ttl \in 0 .. MaxTTL
    PROVE  /\ Decremented(ttl) \in 0 .. MaxTTL
           /\ ttl # 0 => Decremented(ttl) = ttl - 1
           /\ ttl = 0 => Decremented(ttl) = MaxTTL
BY ForwardingAssumption DEF Decremented

\* A response is a datagram with a full TTL and the right sum.
LEMMA ResponseType ==
    ASSUME pkt \in Datagram, NEW kind \in Kind, NEW a \in Addr
    PROVE  /\ Response(kind, a) \in Datagram
           /\ Response(kind, a).ttl = MaxTTL
           /\ Response(kind, a).sum = SumOf(Response(kind, a))
BY ForwardingAssumption DEF Response, Datagram, Sum, Cksum, INIT_TTL, SumOf, cksum

\* What sending a response does, whatever the router sends it for.
LEMMA ResponseStep ==
    ASSUME TypeOK, pkt # Nothing, NEW n \in Router, at = n,
           NEW kind \in Kind, NEW a \in Addr, SendBack(n, kind, a)
    PROVE  /\ TypeOK'
           /\ pkt'.ttl = ttl0' /\ hops' = 0 /\ ttl0' = MaxTTL
           /\ pkt'.sum = SumOf(pkt')
<1>1. /\ pkt' \in Datagram
      /\ pkt'.ttl = MaxTTL /\ pkt'.sum = SumOf(pkt')
    BY ResponseType DEF TypeOK, SendBack
<1>2. /\ at' \in Router \cup Host /\ via' = n
      /\ at' \in Router => via' \in Neighbours[at']
    BY ForwardingAssumption DEF TypeOK, SendBack
<1>3. /\ ttl0' = MaxTTL /\ hops' = 0
      /\ route' = route /\ first' = first
    BY DEF SendBack, INIT_TTL
<1>4. first' # Nothing
    BY <1>3 DEF TypeOK
<1> QED
    BY <1>1, <1>2, <1>3, <1>4, ForwardingAssumption DEF TypeOK

\* What forwarding does.
LEMMA ForwardStep ==
    ASSUME TypeOK, pkt # Nothing, NEW n \in Router, at = n, Forward(n)
    PROVE  /\ pkt' \in Datagram
           /\ pkt'.ttl = Decremented(pkt.ttl) /\ pkt'.ttl # 0
           /\ pkt'.sum = SumOf(pkt')
           /\ at' \in Router \cup Host /\ via' = n
           /\ at' \in Router => via' \in Neighbours[at']
           /\ hops' = hops + 1 /\ ttl0' = ttl0 /\ route' = route /\ first' = first
<1>1. pkt \in Datagram
    BY DEF TypeOK
<1>2. Decremented(pkt.ttl) \in 0 .. MaxTTL
    BY <1>1, DecrementedType DEF Datagram
<1>3. /\ pkt' \in Datagram
      /\ pkt'.ttl = Decremented(pkt.ttl)
      /\ pkt'.sum = SumOf(pkt')
    BY <1>1, <1>2 DEF Forward, Datagram, Sum, Cksum, NewSum, SumOf, cksum
<1>4. pkt'.ttl # 0
    BY <1>3 DEF Forward, Exceeded
<1>5. /\ at' \in Neighbours[n] /\ via' = n
      /\ hops' = hops + 1 /\ ttl0' = ttl0 /\ route' = route /\ first' = first
    BY <1>1 DEF Forward, TypeOK, Datagram
<1>6. /\ at' \in Router \cup Host
      /\ at' \in Router => via' \in Neighbours[at']
    BY <1>5, ForwardingAssumption
<1> QED
    BY <1>3, <1>4, <1>5, <1>6

\* What a datagram's TTL and the forwards it has had add up to.
Life ==
    pkt # Nothing =>
        \/ hops = 0 /\ pkt.ttl = ttl0
        \/ pkt.ttl # 0 /\ hops + pkt.ttl = IF ttl0 = 0 THEN MaxTTL + 1 ELSE ttl0

\* The inductive invariant: the bound on the hops follows from what is left of the TTL.
Inv == TypeOK /\ Life /\ HopBound /\ SumsRight

\* The end of the exchange keeps the invariant.
LEMMA FinishStep ==
    ASSUME Inv, pkt # Nothing, NEW what, Finish(what)
    PROVE  Inv'
BY ForwardingAssumption DEF Inv, TypeOK, Life, HopBound, SumsRight, Finish

\* A response, or the end of the process in its place, keeps the invariant.
LEMMA ResponseInv ==
    ASSUME Inv, pkt # Nothing, NEW n \in Router, at = n,
           NEW kind \in Kind, NEW a \in Addr, SendIcmpResponse(n, kind, a)
    PROVE  Inv'
<1>1. CASE Finish("died")
    BY <1>1, FinishStep
<1>2. CASE SendBack(n, kind, a)
  <2>1. /\ TypeOK'
        /\ pkt'.ttl = ttl0' /\ hops' = 0 /\ ttl0' = MaxTTL
        /\ pkt'.sum = SumOf(pkt')
    BY <1>2, ResponseStep DEF Inv
  <2>2. HopBound'
    BY <2>1, ForwardingAssumption DEF HopBound
  <2> QED
    BY <2>1, <2>2 DEF Inv, Life, SumsRight
<1> QED
    BY <1>1, <1>2 DEF SendIcmpResponse

\* A forwarded datagram keeps the invariant.
LEMMA ForwardInv ==
    ASSUME Inv, pkt # Nothing, NEW n \in Router, at = n, Forward(n)
    PROVE  Inv'
<1>1. /\ pkt' \in Datagram
      /\ pkt'.ttl = Decremented(pkt.ttl) /\ pkt'.ttl # 0
      /\ pkt'.sum = SumOf(pkt')
      /\ at' \in Router \cup Host /\ via' = n
      /\ at' \in Router => via' \in Neighbours[at']
      /\ hops' = hops + 1 /\ ttl0' = ttl0 /\ route' = route /\ first' = first
    BY ForwardStep DEF Inv
<1>2. pkt \in Datagram /\ first # Nothing
    BY DEF Inv, TypeOK
<1>3. /\ pkt.ttl \in 0 .. MaxTTL /\ pkt'.ttl \in 0 .. MaxTTL
      /\ ttl0 \in 0 .. MaxTTL /\ hops \in 0 .. MaxTTL
    BY <1>1, <1>2 DEF Inv, TypeOK, Datagram
<1>4. pkt'.ttl = IF pkt.ttl = 0 THEN MaxTTL ELSE pkt.ttl - 1
    BY <1>1 DEF Decremented
<1>5. hops' + pkt'.ttl = IF ttl0' = 0 THEN MaxTTL + 1 ELSE ttl0'
    BY <1>1, <1>3, <1>4, ForwardingAssumption DEF Inv, Life
<1>6. Life'
    BY <1>1, <1>5 DEF Life
<1>7. HopBound' /\ hops' \in 0 .. MaxTTL
    BY <1>1, <1>3, <1>5, ForwardingAssumption DEF HopBound
<1>8. TypeOK'
    BY <1>1, <1>2, <1>3, <1>7 DEF Inv, TypeOK
<1> QED
    BY <1>1, <1>6, <1>7, <1>8 DEF Inv, SumsRight

\* Init and every step of the network keep the invariant.
THEOREM Invariance == Spec => []Inv
<1>1. Init => Inv
    BY ForwardingAssumption DEF Init, Inv, TypeOK, Life, HopBound, SumsRight
<1>2. Inv /\ [Next]_vars => Inv'
  <2> SUFFICES ASSUME Inv, [Next]_vars
               PROVE  Inv'
    OBVIOUS
  <2>1. ASSUME NEW h \in Host, HostSends(h)
        PROVE  Inv'
    <3>1. PICK n \in Router, a \in Addr, kind \in HostKind, ttl \in HostTTL :
          \E sum \in {cksum(h, a, kind, ttl), cksum(h, a, kind, Decremented(ttl)), OtherSum} :
            /\ h \in Neighbours[n]
            /\ pkt' = [src |-> h, dst |-> a, kind |-> kind, ttl |-> ttl, sum |-> sum]
            /\ at' = n /\ ttl0' = ttl
      BY <2>1 DEF HostSends
    <3>2. PICK sum \in {cksum(h, a, kind, ttl), cksum(h, a, kind, Decremented(ttl)), OtherSum} :
            /\ h \in Neighbours[n]
            /\ pkt' = [src |-> h, dst |-> a, kind |-> kind, ttl |-> ttl, sum |-> sum]
            /\ at' = n /\ ttl0' = ttl
      BY <3>1
    <3>3. ttl \in 0 .. MaxTTL /\ Decremented(ttl) \in 0 .. MaxTTL
      BY ForwardingAssumption, DecrementedType
    <3>4. h \in Addr /\ kind \in Kind
      BY DEF Addr, HostKind, Kind, Icmp
    <3>5. sum \in Sum
      BY <3>3, <3>4 DEF cksum, Sum, Cksum
    <3>6. pkt' \in Datagram /\ pkt'.ttl = ttl
      BY <3>2, <3>3, <3>4, <3>5 DEF Datagram
    <3>7. /\ via' = h /\ first' = pkt' /\ hops' = 0 /\ route' = route
      BY <2>1 DEF HostSends
    <3>8. TypeOK'
      BY <3>2, <3>3, <3>6, <3>7, ForwardingAssumption DEF Inv, TypeOK
    <3>9. HopBound'
      BY <3>2, <3>3, <3>7, ForwardingAssumption DEF HopBound
    <3> QED
      BY <3>2, <3>6, <3>7, <3>8, <3>9 DEF Inv, Life, SumsRight
  <2>2. ASSUME NEW h \in Host, HostReceives(h)
        PROVE  Inv'
    BY <2>2, FinishStep DEF HostReceives
  <2>3. ASSUME NEW n \in Router, HandleIpPacket(n)
        PROVE  Inv'
    <3> USE <2>3
    <3>1. /\ pkt # Nothing /\ at = n /\ pkt \in Datagram
          /\ via \in Neighbours[n]
      BY DEF HandleIpPacket, Inv, TypeOK
    <3>2. pkt.dst \in Addr /\ <<n, via>> \in Addr
      BY <3>1, OwnAddr DEF Datagram
    <3>3. CASE WrongSum(n)
      BY <3>1, <3>3, FinishStep DEF WrongSum, Discard
    <3>4. CASE Deliver(n)
      <4>1. CASE SendIcmpResponse(n, "reply", pkt.dst)
        BY <3>1, <3>2, <4>1, ResponseInv DEF Kind, Icmp
      <4>2. CASE SendIcmpResponse(n, "port_unreachable", pkt.dst)
        BY <3>1, <3>2, <4>2, ResponseInv DEF Kind, Icmp
      <4>3. CASE Discard(n)
        BY <3>1, <4>3, FinishStep DEF Discard
      <4> QED
        BY <3>4, <4>1, <4>2, <4>3 DEF Deliver
    <3>5. CASE TimeExceeded(n)
      <4>1. SendIcmpResponse(n, "exceeded", <<n, via>>)
        BY <3>5 DEF TimeExceeded
      <4> QED
        BY <3>1, <3>2, <4>1, ResponseInv DEF Kind, Icmp
    <3>6. CASE NetUnreachable(n)
      <4>1. SendIcmpResponse(n, "net_unreachable", <<n, via>>)
        BY <3>6 DEF NetUnreachable
      <4> QED
        BY <3>1, <3>2, <4>1, ResponseInv DEF Kind, Icmp
    <3>7. CASE Forward(n)
      BY <3>1, <3>7, ForwardInv
    <3> QED
      BY <3>3, <3>4, <3>5, <3>6, <3>7 DEF HandleIpPacket
  <2>4. CASE Lose
    BY <2>4, FinishStep DEF Lose
  <2>5. CASE Forget
    BY <2>5 DEF Forget, Inv, TypeOK, Life, HopBound, SumsRight
  <2>6. CASE UNCHANGED vars
    BY <2>6 DEF vars, Inv, TypeOK, Life, HopBound, SumsRight
  <2> QED
    BY <2>1, <2>2, <2>3, <2>4, <2>5, <2>6 DEF Next
<1> QED
    BY <1>1, <1>2, PTL DEF Spec

\* handle_ip_packet keeps the types, for every network and all routing tables.
THEOREM TypeCorrect == Spec => []TypeOK
<1>1. Inv => TypeOK
    BY DEF Inv
<1> QED
    BY <1>1, Invariance, PTL

\* No datagram is forwarded more often than its TTL allows, however the routes of the
\* routers loop; one that starts with TTL 0 goes once round the uint8_t.
THEOREM HopsBounded == Spec => []HopBound
<1>1. Inv => HopBound
    BY DEF Inv
<1> QED
    BY <1>1, Invariance, PTL

\* Every datagram that a router sends has the checksum of its header.
THEOREM RoutersSumRight == Spec => []SumsRight
<1>1. Inv => SumsRight
    BY DEF Inv
<1> QED
    BY <1>1, Invariance, PTL

-----------------------------------------------------------------------------
(* A host learns what has become of its request. *)

\* The hypothesis of Answered about what the host has sent, and about the routes.
Good ==
    /\ first.sum = SumOf(first) /\ first.kind \in {"echo", "udp"}
    /\ NotMisled(first.dst)
    /\ Reaches(first.src)

\* The request itself is on its way: only the host that sent it is behind it, and only
\* the one it is for may be ahead.
Underway ==
    /\ pkt.src = first.src /\ pkt.dst = first.dst /\ pkt.kind = first.kind
    /\ at \in Host => at = pkt.dst
    /\ via \in Host => via = first.src

\* An answer is on its way back, with enough of its TTL for the routes ahead.
Back ==
    /\ pkt.dst = first.src /\ pkt.kind \in Icmp
    /\ at \in Host => at = first.src
    /\ \A rank \in [Router -> Rank] :
           LeadsTo(first.src, rank) /\ at \in Router => pkt.ttl >= rank[at] + 2

Course ==
    first # Nothing =>
        /\ first.src \in Host
        /\ Good => IF pkt = Nothing THEN outcome # "discarded"
                   ELSE pkt.sum = SumOf(pkt) /\ (Underway \/ Back)

\* What a host has sent, and the routes, stay as they are while it is on its way.
LEMMA GoodStays ==
    ASSUME first' = first, route' = route
    PROVE  /\ Good' <=> Good
           /\ \A rank : LeadsTo(first.src, rank)' <=> LeadsTo(first.src, rank)
<1>1. NotMisled(first.dst)' <=> NotMisled(first.dst)
    BY DEF NotMisled
<1>2. \A rank : LeadsTo(first.src, rank)' <=> LeadsTo(first.src, rank)
    BY DEF LeadsTo
<1>3. Reaches(first.src)' <=> Reaches(first.src)
    BY <1>2 DEF Reaches
<1> QED
    BY <1>1, <1>2, <1>3 DEF Good, SumOf, cksum

\* The host sends: its request is on the way to the first router.
LEMMA CourseSends ==
    ASSUME NEW h \in Host, HostSends(h)
    PROVE  Course'
<1>1. PICK n \in Router, a \in Addr, kind \in HostKind, ttl \in HostTTL :
      \E sum \in {cksum(h, a, kind, ttl), cksum(h, a, kind, Decremented(ttl)), OtherSum} :
        /\ pkt' = [src |-> h, dst |-> a, kind |-> kind, ttl |-> ttl, sum |-> sum]
        /\ at' = n
    BY DEF HostSends
<1>2. pkt'.src = h
    BY <1>1
<1>3. first' = pkt' /\ via' = h /\ at' \notin Host
    BY <1>1, ForwardingAssumption DEF HostSends
<1>4. Underway'
    BY <1>2, <1>3 DEF Underway
<1>5. Good' => pkt'.sum = SumOf(pkt')
    BY <1>3 DEF Good
<1> QED
    BY <1>2, <1>3, <1>4, <1>5 DEF Course

\* The process ends in place of the answer: its host does not learn of it.
LEMMA CourseDies ==
    ASSUME Inv, Course, pkt # Nothing, Finish("died")
    PROVE  Course'
<1>1. /\ first' = first /\ route' = route /\ pkt' = Nothing /\ outcome' = "died"
    BY DEF Finish
<1>2. first # Nothing /\ first.src \in Host
    BY DEF Course, Inv, TypeOK
<1> QED
    BY <1>1, <1>2 DEF Course

\* A router answers the request: the answer goes to where the request came from, which
\* is its host or a router with a route to it.
LEMMA CourseResponse ==
    ASSUME Inv, Course, Good, pkt # Nothing, Underway,
           NEW n \in Router, at = n,
           NEW kind \in Icmp, NEW a \in Addr, SendIcmpResponse(n, kind, a)
    PROVE  Course'
<1> SUFFICES ASSUME SendBack(n, kind, a) PROVE Course'
    BY CourseDies DEF SendIcmpResponse
<1>1. /\ first' = first /\ route' = route /\ at' = via
    BY DEF SendBack
<1>2. pkt' = Response(kind, a) /\ pkt \in Datagram /\ kind \in Kind
    BY DEF SendBack, Inv, TypeOK, Kind
<1>3. /\ pkt' \in Datagram
      /\ pkt'.ttl = MaxTTL /\ pkt'.sum = SumOf(pkt')
    BY <1>2, ResponseType
<1>4. pkt'.dst = first.src /\ pkt'.kind = kind
    BY <1>2 DEF Response, Underway
<1>5. at' \in Host => at' = first.src
    BY <1>1 DEF Underway
<1>6. \A rank \in [Router -> Rank] : at' \in Router => pkt'.ttl >= rank[at'] + 2
  <2> SUFFICES ASSUME NEW rank \in [Router -> Rank], at' \in Router
               PROVE  pkt'.ttl >= rank[at'] + 2
    OBVIOUS
  <2>1. rank[at'] \in 0 .. MaxTTL - 2
    BY DEF Rank, INIT_TTL
  <2> QED
    BY <2>1, <1>3, ForwardingAssumption
<1>7. Back'
    BY <1>1, <1>4, <1>5, <1>6 DEF Back
<1>8. first # Nothing /\ first.src \in Host /\ pkt' # Nothing
    BY <1>3, NothingAssumption DEF Course, Inv, TypeOK
<1> QED
    BY <1>1, <1>3, <1>7, <1>8 DEF Course

\* The request is forwarded: no route for it leads to the wrong host.
LEMMA CourseForward ==
    ASSUME Inv, Course, Good, pkt # Nothing, Underway,
           NEW n \in Router, at = n, Forward(n)
    PROVE  Course'
<1>1. /\ pkt' \in Datagram /\ pkt'.sum = SumOf(pkt')
      /\ via' = n /\ route' = route /\ first' = first
    BY ForwardStep DEF Inv
<1>2. pkt'.src = pkt.src /\ pkt'.dst = pkt.dst /\ pkt'.kind = pkt.kind
    BY DEF Forward, Inv, TypeOK, Datagram
<1>3. at' \in Host => at' = first.dst
    BY DEF Forward, Underway, Good, NotMisled
<1>4. n \notin Host
    BY ForwardingAssumption
<1>5. Underway'
    BY <1>1, <1>2, <1>3, <1>4 DEF Underway
<1>6. first # Nothing /\ first.src \in Host /\ pkt' # Nothing
    BY <1>1, NothingAssumption DEF Course, Inv, TypeOK
<1> QED
    BY <1>1, <1>5, <1>6 DEF Course

\* The host's address belongs to no router.
LEMMA HostNotOurs ==
    ASSUME NEW n \in Router, pkt.dst \in Host
    PROVE  ~ForUs(n)
<1>1. \A m \in Neighbours[n] : <<n, m>> \in Interface
    BY ForwardingAssumption DEF Interface
<1> QED
    BY <1>1, ForwardingAssumption DEF ForUs

\* A router that has an answer on its way back forwards it, nearer to the host.
LEMMA CourseBack ==
    ASSUME Inv, Course, Good, pkt # Nothing, Back, pkt.sum = SumOf(pkt),
           NEW n \in Router, HandleIpPacket(n)
    PROVE  Course'
<1>1. /\ at = n /\ pkt \in Datagram
      /\ first # Nothing /\ first.src \in Host /\ pkt.dst = first.src
    BY DEF HandleIpPacket, Back, Course, Inv, TypeOK
<1>2. pkt.ttl \in 0 .. MaxTTL
    BY <1>1 DEF Datagram
<1>3. PICK some \in [Router -> Rank] : LeadsTo(first.src, some)
    BY DEF Good, Reaches
<1>4. \A rank \in [Router -> Rank] : rank[n] \in 0 .. MaxTTL - 2
    BY DEF Rank, INIT_TTL
<1>5. pkt.ttl >= some[n] + 2
    BY <1>1, <1>3 DEF Back
<1>6. pkt.ttl >= 2
    BY <1>2, <1>4, <1>5, ForwardingAssumption
<1>7. Decremented(pkt.ttl) = pkt.ttl - 1 /\ ~Exceeded(pkt.ttl)
    BY <1>2, <1>6, DecrementedType, ForwardingAssumption DEF Exceeded
<1>8. ~ForUs(n)
    BY <1>1, HostNotOurs
<1>9. route[n][pkt.dst] # NoRoute
    BY <1>1, <1>3, ForwardingAssumption DEF LeadsTo
<1>10. Forward(n)
    BY <1>7, <1>8, <1>9
    DEF HandleIpPacket, WrongSum, Deliver, TimeExceeded, NetUnreachable
<1>11. /\ pkt' \in Datagram /\ pkt'.ttl = pkt.ttl - 1 /\ pkt'.sum = SumOf(pkt')
       /\ route' = route /\ first' = first
    BY <1>1, <1>7, <1>10, ForwardStep DEF Inv
<1>12. pkt'.dst = first.src /\ pkt'.kind \in Icmp /\ at' = route[n][first.src]
    BY <1>1, <1>10 DEF Forward, Back, Datagram
<1>13. at' \in Host => at' = first.src
    BY <1>3, <1>12, ForwardingAssumption DEF LeadsTo
<1>14. \A rank \in [Router -> Rank] :
           LeadsTo(first.src, rank) /\ at' \in Router => pkt'.ttl >= rank[at'] + 2
  <2> SUFFICES ASSUME NEW rank \in [Router -> Rank],
                      LeadsTo(first.src, rank), at' \in Router
               PROVE  pkt'.ttl >= rank[at'] + 2
    OBVIOUS
  <2>1. rank[at'] < rank[n]
    BY <1>1, <1>12, ForwardingAssumption DEF LeadsTo
  <2>2. pkt.ttl >= rank[n] + 2
    BY <1>1 DEF Back
  <2>3. rank[at'] \in 0 .. MaxTTL - 2 /\ rank[n] \in 0 .. MaxTTL - 2
    BY DEF Rank, INIT_TTL
  <2> QED
    BY <2>1, <2>2, <2>3, <1>2, <1>11, ForwardingAssumption
<1>15. \A rank : LeadsTo(first.src, rank)' <=> LeadsTo(first.src, rank)
    BY <1>11, GoodStays
<1>16. Back'
    BY <1>11, <1>12, <1>13, <1>14, <1>15 DEF Back
<1>17. pkt' # Nothing
    BY <1>11, NothingAssumption
<1> QED
    BY <1>1, <1>11, <1>16, <1>17 DEF Course

\* A router handles the datagram: an answer moves on, the request moves on or is
\* answered.
LEMMA CourseRouter ==
    ASSUME Inv, Course, Good, pkt # Nothing, NEW n \in Router, HandleIpPacket(n)
    PROVE  Course'
<1>1. /\ at = n /\ pkt \in Datagram /\ via \in Neighbours[n] /\ first # Nothing
    BY DEF HandleIpPacket, Inv, TypeOK
<1>2. pkt.dst \in Addr /\ <<n, via>> \in Addr
    BY <1>1, OwnAddr DEF Datagram
<1>3. pkt.sum = SumOf(pkt) /\ (Underway \/ Back)
    BY <1>1 DEF Course
<1>4. CASE Back
    BY <1>3, <1>4, CourseBack
<1>5. CASE Underway
  <2> USE <1>5
  <2>1. pkt.kind \in {"echo", "udp"}
    BY DEF Underway, Good
  <2>2. CASE Deliver(n)
    <3>1. \/ SendIcmpResponse(n, "reply", pkt.dst)
          \/ SendIcmpResponse(n, "port_unreachable", pkt.dst)
      BY <2>1, <2>2 DEF Deliver, EchoRequest, Icmp
    <3> QED
      BY <1>1, <1>2, <3>1, CourseResponse DEF Icmp
  <2>3. CASE TimeExceeded(n)
    <3>1. SendIcmpResponse(n, "exceeded", <<n, via>>)
      BY <2>3 DEF TimeExceeded
    <3> QED
      BY <1>1, <1>2, <3>1, CourseResponse DEF Icmp
  <2>4. CASE NetUnreachable(n)
    <3>1. SendIcmpResponse(n, "net_unreachable", <<n, via>>)
      BY <2>4 DEF NetUnreachable
    <3> QED
      BY <1>1, <1>2, <3>1, CourseResponse DEF Icmp
  <2>5. CASE Forward(n)
    BY <1>1, <2>5, CourseForward
  <2> QED
    BY <1>3, <2>2, <2>3, <2>4, <2>5 DEF HandleIpPacket, WrongSum
<1> QED
    BY <1>3, <1>4, <1>5

\* The host that receives is the one the datagram is for, and what it gets is no error.
LEMMA CourseReceives ==
    ASSUME Inv, Course, NEW h \in Host, HostReceives(h)
    PROVE  Course'
<1>1. /\ pkt # Nothing /\ at = h /\ first # Nothing /\ first.src \in Host
    BY DEF HostReceives, Course, Inv, TypeOK
<1>2. /\ pkt' = Nothing /\ first' = first /\ route' = route
      /\ outcome' = IF pkt.dst = h THEN pkt.kind ELSE "discarded"
    BY DEF HostReceives, Finish
<1>3. ASSUME Good PROVE outcome' # "discarded"
  <2>1. pkt.dst = h /\ pkt.kind # "discarded"
    BY <1>1, <1>3 DEF Course, Underway, Back, Good, Icmp
  <2> QED
    BY <1>2, <2>1
<1>4. Good' <=> Good
    BY <1>2, GoodStays
<1> QED
    BY <1>1, <1>2, <1>3, <1>4 DEF Course

\* A host whose own routes are right learns what has become of its TCP, UDP or echo
\* request, if nothing is lost and no router dies over its answer: in every network, for
\* every width of the TTL, and however the routes to the destination loop or end.
THEOREM RequestsAnswered == Spec => []Answered
<1>1. Init => Course
    BY DEF Init, Course
<1>2. Inv /\ Course /\ [Next]_vars => Course'
  <2> SUFFICES ASSUME Inv, Course, [Next]_vars
               PROVE  Course'
    OBVIOUS
  <2>1. ASSUME NEW h \in Host, HostSends(h)
        PROVE  Course'
    BY <2>1, CourseSends
  <2>2. ASSUME NEW h \in Host, HostReceives(h)
        PROVE  Course'
    BY <2>2, CourseReceives
  <2>3. ASSUME NEW n \in Router, HandleIpPacket(n)
        PROVE  Course'
    <3>1. pkt # Nothing /\ first # Nothing
      BY <2>3 DEF HandleIpPacket, Inv, TypeOK
    <3>2. first' = first /\ route' = route
      BY <2>3 DEF HandleIpPacket, WrongSum, Deliver, TimeExceeded, NetUnreachable,
         Forward, Discard, Finish, SendIcmpResponse, SendBack
    <3>3. CASE Good
      BY <2>3, <3>1, <3>3, CourseRouter
    <3>4. CASE ~Good
      BY <3>1, <3>2, <3>4, GoodStays DEF Course
    <3> QED
      BY <3>3, <3>4
  <2>4. CASE Lose
    <3>1. /\ first' = first /\ route' = route
          /\ pkt' = Nothing /\ outcome' = "lost"
      BY <2>4 DEF Lose, Finish
    <3>2. first # Nothing
      BY <2>4 DEF Lose, Inv, TypeOK
    <3> QED
      BY <3>1, <3>2, GoodStays DEF Course
  <2>5. CASE Forget
    BY <2>5 DEF Forget, Course
  <2>6. CASE UNCHANGED vars
    <3>1. /\ first' = first /\ route' = route /\ pkt' = pkt /\ outcome' = outcome
          /\ at' = at /\ via' = via
      BY <2>6 DEF vars
    <3>2. Underway' <=> Underway
      BY <3>1 DEF Underway
    <3>3. Back' <=> Back
      BY <3>1, GoodStays DEF Back
    <3> QED
      BY <3>1, <3>2, <3>3, GoodStays DEF Course, SumOf, cksum
  <2> QED
    BY <2>1, <2>2, <2>3, <2>4, <2>5, <2>6 DEF Next
<1>3. Course => Answered
    BY DEF Course, Answered, Good
<1> QED
    BY <1>1, <1>2, <1>3, Invariance, PTL DEF Spec

=============================================================================
