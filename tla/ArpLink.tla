------------------------------ MODULE ArpLink ------------------------------
(***************************************************************************)
(* The router of ArpCache on its links: the ARP requests that it           *)
(* broadcasts (create_arp_request), the stations that answer them, which   *)
(* are routers with the same code (handle_arp_packet's request branch),    *)
(* and the replies.  Any frame may be lost or overtaken, but the links are *)
(* prompt: no second begins while a frame is on its way or the router at   *)
(* work.  The router's own forwarding goes on as in ArpCache.              *)
(***************************************************************************)
EXTENDS ArpCacheHistory, Bags

CONSTANTS
    Owner,       \* the Ethernet address of the station that has an IP address
    Link,        \* the router's interface on that station's link
    RouterMac    \* the router's own Ethernet addresses

ASSUME LinkAssumption ==
    /\ Owner \in [IP -> Mac] /\ Link \in [IP -> Iface] /\ RouterMac \in [Iface -> Mac]
    /\ \A p \in Packet : OutIface[p] = Link[Gw[p]]

VARIABLES
    air,    \* the ARP frames on their way, as a bag
    lost    \* history: frames about an address lost since its request was queued

linkVars == <<histVars, air, lost>>

\* The addresses that a frame carries, sender's and target's, and the link it is on.
ArpFrame == [op : {"request", "reply"}, sip : IP \cup {Null}, sha : Mac,
             tip : IP \cup {Null}, link : Iface]

(* Every variable has the shape its declaration says. *)
LinkTypeOK ==
    /\ BagToSet(air) \subseteq ArpFrame
    /\ lost \in [IP -> 0 .. MaxCount]

LinkInit ==
    /\ HistInit
    /\ air = EmptyBag
    /\ lost = [ip \in IP |-> 0]

-----------------------------------------------------------------------------
\* Queued again, an address starts anew.
Losses(new) ==
    lost' = [ip \in IP |-> IF \E a \in ReqAddr : heap'[a] # Null /\ heap'[a].ip = ip
                           THEN new[ip] ELSE 0]

Send(frames) == air' = air (+) SetToBag(frames)

\* create_arp_request: in the name of the interface of the request's first packet.
\* Null is the router's own IP address.
ArpRequest(req) ==
    LET link == OutIface[Head(req.packets)]
    IN  [op |-> "request", sip |-> Null, sha |-> RouterMac[link], tip |-> req.ip,
         link |-> link]

\* The steps of ArpCache, but for the arrival of replies and the passing of time.
RouterStep ==
    /\ (\E p \in Packet : Lookup(p)) \/ MainStep \/ TimeoutStep
    /\ sends' = [a \in ReqAddr |-> Count(a)]
    /\ Send({ArpRequest(heap[a]) : a \in {b \in ReqAddr : \E t \in Thread : Broadcasts(t, b)}})
    /\ Losses(lost)

\* handle_arp_packet's reply branch.
ReceiveReply ==
    \E f \in BagToSet(air) :
        /\ f.op = "reply"
        /\ Insert([ip |-> f.sip, mac |-> f.sha, iface |-> f.link])
        /\ air' = air (-) SetToBag({f})
        /\ sends' = [a \in ReqAddr |-> Count(a)]
        /\ Losses(lost)

\* sr_arp_req_not_for_us lets it through, and ar_tip is the interface's address.
ForStation(f, ip) == Link[ip] = f.link /\ f.tip = ip

\* Mutants: the hardware address is left blank, or is that of the request, which was copied.
ArpReply_Blank(f, ip) ==
    [op |-> "reply", sip |-> ip, sha |-> Null, tip |-> f.sip, link |-> f.link]
ArpReply_Copied(f, ip) ==
    [op |-> "reply", sip |-> ip, sha |-> f.sha, tip |-> f.sip, link |-> f.link]

\* handle_arp_packet's request branch: from the interface, to the asking router.
ArpReply(f, ip) ==
    [op |-> "reply", sip |-> ip, sha |-> Owner[ip], tip |-> f.sip, link |-> f.link]

\* The stations on the link handle a request.
StationsAnswer ==
    \E f \in BagToSet(air) :
        /\ f.op = "request"
        /\ air' = (air (-) SetToBag({f}))
                    (+) SetToBag({ArpReply(f, ip) : ip \in {s \in IP : ForStation(f, s)}})
        /\ UNCHANGED <<histVars, lost>>

About(f) == IF f.op = "request" THEN f.tip ELSE f.sip

Lose ==
    \E f \in BagToSet(air) :
        /\ air' = air (-) SetToBag({f})
        /\ UNCHANGED histVars
        /\ Losses([lost EXCEPT ![About(f)] = Bump(@)])

\* Everything that happens within a second is over.
Quiet ==
    /\ air = EmptyBag
    /\ pc["main"] = "idle" /\ pc["timeout"] = "sleep"

LinkTick ==
    /\ Quiet \/ ~alive
    /\ Tick
    /\ UNCHANGED <<sends, air, lost>>

LinkNext == RouterStep \/ ReceiveReply \/ StationsAnswer \/ Lose \/ LinkTick

LinkSpec == LinkInit /\ [][LinkNext]_linkVars

-----------------------------------------------------------------------------
(* Properties. *)

\* A packet goes out to the station that has its next hop's address or is answered
\* with host unreachable; sr_send_packet refuses none, because a reply comes back by
\* the interface that the request and the packet go out by.
ReachesOwner ==
    \A p \in Packet : \A i \in DOMAIN outcome[p] :
        /\ outcome[p][i].how # "dropped"
        /\ outcome[p][i].how = "forwarded" => outcome[p][i].mac = Owner[Gw[p]]

\* The router gives up on a station only if at least MaxSends - 1 exchanges with it
\* failed on the link.  It need not be all MaxSends: the thread that gives up may have
\* found the request due before the other thread sent the last one, and does not wait
\* for the answer to that.
UnreachableMeansLost ==
    \A t \in Thread :
        pc[t] = "giveup" /\ heap[cur[t]] # Null
          => lost[heap[cur[t]].ip] >= MaxSends - 1

=============================================================================
