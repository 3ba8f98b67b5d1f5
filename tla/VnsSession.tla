----------------------------- MODULE VnsSession -----------------------------
(***************************************************************************)
(* The VNS session: the router process (sr_main.c, sr_vns_comm.c), the     *)
(* server of the POX module (srhandler.py) and the TCP stream between      *)
(* them.                                                                   *)
(*                                                                         *)
(* A client is one run of the router process.  It authenticates, sends     *)
(* OPEN and then handles what the server sends.  The server runs in two    *)
(* threads: the Twisted reactor serves the clients one message at a time,  *)
(* and the POX thread raises RouterInfo and SRPacketIn, whose handlers     *)
(* write to the same clients.  A packet goes to every client the server    *)
(* has ever accepted, whether or not it is ready for packets.              *)
(***************************************************************************)
EXTENDS Naturals, Sequences

CONSTANTS
    Client,       \* runs of the router process, each with its connection
    Template,     \* the clients that were started with -T
    Iface,        \* names of the ports of the switch
    ROUTER_IP,    \* the names that IP_CONFIG gives an address
    RtTables,     \* for each client the sets of interfaces its routing table may use
    Extra,        \* what a VNS server may send besides what srhandler.py does
    MaxPackets,   \* bound on the packets that the switch hands to the server
    Unset         \* the attribute "interfaces" before the first RouterInfo

ASSUME SessionAssumption ==
    /\ Template \subseteq Client
    /\ RtTables \in [Client -> SUBSET SUBSET Iface]
    /\ Extra \subseteq {"CLOSE", "BANNER"}
    /\ MaxPackets \in Nat

\* A packet of at least 42 bytes is a frame: sr_arp_req_not_for_us looks at it.
Packet == [type : {"PACKET"}, iface : Iface, frame : BOOLEAN]
HwInfo == [type : {"HWINFO"}, ifaces : SUBSET Iface]
Plain == [type : {"AUTH_REQUEST", "AUTH_STATUS"} \cup Extra]
Down == Packet \cup HwInfo \cup Plain
PacketOut == [type : {"PACKET"}, iface : Iface]
Up == [type : {"AUTH_REPLY", "OPEN", "OPEN_TEMPLATE"}] \cup PacketOut

VARIABLES
    \* The server.
    srclients,    \* connections it broadcasts to
    greeted,      \* connections that have been sent AUTH_REQUEST
    interfaces,   \* what the last RouterInfo said, or Unset
    ports,        \* the names in intfname_to_port and port_to_intfname
    sent,         \* packets taken from the switch so far
    \* The connections.
    conn,         \* "none", "open", or "closed" by the server's side
    down, up,     \* messages on their way to and from the client
    \* The clients.
    pc,           \* what the client waits for, or how it ended
    if_list,      \* the interfaces it knows
    ready,        \* it has said "Ready to process packets"
    handled       \* it has called sr_handlepacket

serverVars == <<srclients, greeted, interfaces, ports, sent>>
clientVars == <<pc, if_list, ready, handled>>
vars == <<serverVars, conn, down, up, clientVars>>

Connecting == {"auth_request", "auth_status", "rtable"}
Ended == {"exited", "aborted"}

(* Every variable has the shape its declaration says. *)
TypeOK ==
    /\ srclients \subseteq Client /\ greeted \subseteq srclients
    /\ interfaces = Unset \/ interfaces \subseteq Iface
    /\ ports \subseteq Iface
    /\ sent \in 0 .. MaxPackets
    /\ conn \in [Client -> {"none", "open", "closed"}]
    /\ down \in [Client -> Seq(Down)]
    /\ up \in [Client -> Seq(Up)]
    /\ pc \in [Client -> {"off", "loop"} \cup Connecting \cup Ended]
    /\ if_list \in [Client -> SUBSET Iface]
    /\ ready \in [Client -> BOOLEAN]
    /\ handled \in [Client -> BOOLEAN]

Init ==
    /\ srclients = {} /\ greeted = {}
    /\ interfaces = Unset
    /\ ports = {}
    /\ sent = 0
    /\ conn = [c \in Client |-> "none"]
    /\ down = [c \in Client |-> <<>>]
    /\ up = [c \in Client |-> <<>>]
    /\ pc = [c \in Client |-> "off"]
    /\ if_list = [c \in Client |-> {}]
    /\ ready = [c \in Client |-> FALSE]
    /\ handled = [c \in Client |-> FALSE]

-----------------------------------------------------------------------------
(* The server. *)

\* What is written to a connection that is gone is lost.
Send(S, m) ==
    down' = [c \in Client |-> IF c \in S /\ conn[c] = "open"
                              THEN Append(down[c], m) ELSE down[c]]

\* _handle_new_client: srclients.append.
Accept(c) ==
    /\ conn[c] = "open" /\ c \notin srclients
    /\ srclients' = srclients \cup {c}
    /\ UNCHANGED <<greeted, interfaces, ports, sent, conn, down, up, clientVars>>

\* Mutant: the client is greeted before it is appended.
Greet_BeforeAppend(c) ==
    /\ conn[c] = "open" /\ c \notin greeted
    /\ greeted' = greeted \cup {c}
    /\ Send({c}, [type |-> "AUTH_REQUEST"])
    /\ UNCHANGED <<srclients, interfaces, ports, sent, conn, up, clientVars>>

\* _handle_new_client: the authentication request.
Greet(c) ==
    /\ c \in srclients \ greeted
    /\ greeted' = greeted \cup {c}
    /\ Send({c}, [type |-> "AUTH_REQUEST"])
    /\ UNCHANGED <<srclients, interfaces, ports, sent, conn, up, clientVars>>

\* Mutant: the status is kept back.
HandleAuthReply_Silent(c) == UNCHANGED <<conn, down>>

\* Always authenticate.
HandleAuthReply(c) == Send({c}, [type |-> "AUTH_STATUS"]) /\ conn' = conn

\* Mutant: the test passes for an empty list instead of a filled one.
Populated_IfEmpty == interfaces = {}

Populated == interfaces # Unset

\* If the interfaces are not populated the exception is logged, and that is it.
HandleOpen(c) ==
    \/ /\ Populated
       /\ Send({c}, [type |-> "HWINFO", ifaces |-> interfaces])
       /\ conn' = conn
    \/ ~Populated /\ UNCHANGED <<conn, down>>

\* There is no _handle_open_template_msg: the exception ends the connection.
HandleOpenTemplate(c) ==
    /\ down' = down
    /\ conn' = [conn EXCEPT ![c] = "closed"]

\* SRPacketOut goes to the switch.  For a name without a port the handler fails
\* over its own message, which names the port, and the exception ends the connection.
HandlePacketMsg(c, i) ==
    /\ down' = down
    /\ conn' = [conn EXCEPT ![c] = IF i \in ports THEN @ ELSE "closed"]

\* _handle_recv_msg, in the reactor, which has greeted the client before.
HandleRecvMsg(c) ==
    /\ c \in greeted /\ conn[c] = "open" /\ up[c] # <<>>
    /\ \/ Head(up[c]).type = "AUTH_REPLY" /\ HandleAuthReply(c)
       \/ Head(up[c]).type = "OPEN" /\ HandleOpen(c)
       \/ Head(up[c]).type = "OPEN_TEMPLATE" /\ HandleOpenTemplate(c)
       \/ Head(up[c]).type = "PACKET" /\ HandlePacketMsg(c, Head(up[c]).iface)
    /\ up' = [up EXCEPT ![c] = Tail(@)]
    /\ UNCHANGED <<serverVars, clientVars>>

\* sw_info of a new OFHandler: the ports that have an address.
Info == {i \in Iface : i \in ROUTER_IP}

\* The switch connects, or connects again: RouterInfo.  The topology is fixed.
HandleRouterInfo ==
    /\ interfaces' = Info
    /\ ports' = ports \cup Info
    /\ UNCHANGED <<srclients, greeted, sent, conn, down, up, clientVars>>

\* Mutant: a port without a name is passed on under some name.
PortKnown_Always(i) == TRUE

PortKnown(i) == i \in ports

\* SRPacketIn: to everybody, if the port has a name.
HandleSRPacketIn(i, frame) ==
    /\ sent < MaxPackets
    /\ PortKnown(i)
    /\ Send(srclients, [type |-> "PACKET", iface |-> i, frame |-> frame])
    /\ sent' = sent + 1
    /\ UNCHANGED <<srclients, greeted, interfaces, ports, conn, up, clientVars>>

\* What VNS servers send, and this one does not.
ServerSends(c, type) ==
    /\ c \in greeted /\ conn[c] = "open"
    /\ \A i \in DOMAIN down[c] : down[c][i].type # type
    /\ Send({c}, [type |-> type])
    /\ UNCHANGED <<serverVars, conn, up, clientVars>>

\* The server closes the connection, or dies.
ServerCloses(c) ==
    /\ conn[c] = "open"
    /\ conn' = [conn EXCEPT ![c] = "closed"]
    /\ UNCHANGED <<serverVars, down, up, clientVars>>

-----------------------------------------------------------------------------
(* The client. *)

\* main, up to connect.
Start(c) ==
    /\ pc[c] = "off"
    /\ pc' = [pc EXCEPT ![c] = "auth_request"]
    /\ conn' = [conn EXCEPT ![c] = "open"]
    /\ UNCHANGED <<serverVars, down, up, if_list, ready, handled>>

\* The process ends, and the connection with it.
End(c, how) ==
    /\ pc' = [pc EXCEPT ![c] = how]
    /\ conn' = [conn EXCEPT ![c] = "closed"]
    /\ down' = [down EXCEPT ![c] = <<>>]
    /\ up' = [up EXCEPT ![c] = <<>>]
    /\ UNCHANGED <<serverVars, if_list, ready, handled>>

Msg(c) == Head(down[c])

\* One message is read to its end.  Once the stream has ended recv returns 0 and the
\* loops around it go on for ever: no step.
Reads(c, type) == pc[c] \notin Ended /\ down[c] # <<>> /\ Msg(c).type = type
Consume(c) == down' = [down EXCEPT ![c] = Tail(@)]

\* send: it may find that the server has closed the connection.
Reply(c, m) ==
    up' = [up EXCEPT ![c] = IF conn[c] = "open" THEN Append(@, m) ELSE @]

Expected(c) ==
    CASE pc[c] = "auth_request" -> {"AUTH_REQUEST"}
      [] pc[c] = "auth_status" -> {"AUTH_STATUS"}
      [] pc[c] = "rtable" -> {"RTABLE"}
      [] OTHER -> {}

\* Mutant: whatever comes is handled.
Unexpected_Never(c) == FALSE

\* expected_cmd && command != expected_cmd, and VNSCLOSE is always ok.
Unexpected(c) ==
    /\ Expected(c) # {}
    /\ Msg(c).type \notin Expected(c) \cup {"CLOSE"}

\* The client gives up: main returns 1.
ReadUnexpected(c) ==
    /\ pc[c] \notin Ended /\ down[c] # <<>>
    /\ Unexpected(c)
    /\ End(c, "exited")

\* The key file is read and the reply sent; either may fail.  The server sends
\* one request, which is the first message this client accepts.
ReadAuthRequest(c) ==
    /\ pc[c] = "auth_request" /\ Reads(c, "AUTH_REQUEST")
    /\ \/ /\ Reply(c, [type |-> "AUTH_REPLY"])
          /\ Consume(c)
          /\ pc' = [pc EXCEPT ![c] = "auth_status"]
          /\ UNCHANGED <<serverVars, conn, if_list, ready, handled>>
       \/ End(c, "exited")

\* OPEN is sent; then main reads the routing table, starts the ARP thread and loops.
\* With a template the table is still to come.
ReadAuthStatus(c) ==
    /\ pc[c] = "auth_status" /\ Reads(c, "AUTH_STATUS")
    /\ \/ /\ Reply(c, [type |-> IF c \in Template THEN "OPEN_TEMPLATE" ELSE "OPEN"])
          /\ Consume(c)
          /\ pc' = [pc EXCEPT ![c] = IF c \in Template THEN "rtable" ELSE "loop"]
          /\ UNCHANGED <<serverVars, conn, if_list, ready, handled>>
       \/ conn[c] = "closed" /\ End(c, "exited")

\* sr_add_interface, to the end of the list.
AddInterfaces(list, names) == list \cup names

\* Mutant: the interfaces of the routing table are listed as well.
Known_FromTable(c) == AddInterfaces(if_list[c], Msg(c).ifaces \cup UNION RtTables[c])

\* sr_handle_hwinfo.
Known(c) == AddInterfaces(if_list[c], Msg(c).ifaces)

\* sr_verify_routing_table wants both lists to be there and every interface of the
\* table to exist.
Verified(c, rt) == Known(c) # {} /\ rt # {} /\ rt \subseteq Known(c)

ReadHwInfo(c) ==
    /\ Reads(c, "HWINFO") /\ ~Unexpected(c)
    /\ \/ /\ \E rt \in RtTables[c] : Verified(c, rt)
          /\ if_list' = [if_list EXCEPT ![c] = Known(c)]
          /\ ready' = [ready EXCEPT ![c] = TRUE]
          /\ Consume(c)
          /\ UNCHANGED <<serverVars, conn, up, pc, handled>>
       \/ /\ \E rt \in RtTables[c] : ~Verified(c, rt)
          /\ End(c, "exited")

GetInterface(c, i) == i \in if_list[c]

\* A frame on an interface that is not in the list fails the assertion of
\* sr_arp_req_not_for_us; a shorter one is not looked at, and may end the process
\* when sr_handlepacket does without the interface.  ARP requests for others are
\* dropped, the rest goes to sr_handlepacket, which may send a frame on any
\* interface of the list: sr_send_packet refuses others.
ReadPacket(c) ==
    /\ Reads(c, "PACKET") /\ ~Unexpected(c)
    /\ \/ /\ ~GetInterface(c, Msg(c).iface)
          /\ End(c, "aborted")
       \/ /\ Msg(c).frame => GetInterface(c, Msg(c).iface)
          /\ \/ Msg(c).frame /\ UNCHANGED <<handled, up>>
             \/ handled' = [handled EXCEPT ![c] = TRUE] /\ up' = up
             \/ /\ handled' = [handled EXCEPT ![c] = TRUE]
                /\ \E i \in if_list[c] : Reply(c, [type |-> "PACKET", iface |-> i])
          /\ Consume(c)
          /\ UNCHANGED <<serverVars, conn, pc, if_list, ready>>

\* Mutant: the session is reported closed, and the caller goes on.
ReadClose_GoesOn(c) ==
    /\ Reads(c, "CLOSE") /\ ~Unexpected(c)
    /\ Consume(c)
    /\ UNCHANGED <<serverVars, conn, up, clientVars>>

\* VNSCLOSE ends the client, in the handshake and in the loop.
ReadClose(c) ==
    /\ Reads(c, "CLOSE") /\ ~Unexpected(c)
    /\ End(c, "exited")

ReadBanner(c) ==
    /\ Reads(c, "BANNER") /\ ~Unexpected(c)
    /\ Consume(c)
    /\ UNCHANGED <<serverVars, conn, up, clientVars>>

\* sr_read_from_server_expect.
Read(c) ==
    \/ ReadUnexpected(c)
    \/ ReadAuthRequest(c)
    \/ ReadAuthStatus(c)
    \/ ReadHwInfo(c)
    \/ ReadPacket(c)
    \/ ReadClose(c)
    \/ ReadBanner(c)

\* recv, read or write fail on a connection that the server has reset.
ConnectionReset(c) ==
    /\ conn[c] = "closed" /\ pc[c] \notin Ended
    /\ End(c, "exited")

-----------------------------------------------------------------------------
Next ==
    \/ HandleRouterInfo
    \/ \E i \in Iface, frame \in BOOLEAN : HandleSRPacketIn(i, frame)
    \/ \E c \in Client : \/ Accept(c)
                         \/ Greet(c)
                         \/ HandleRecvMsg(c)
                         \/ ServerCloses(c)
                         \/ \E type \in Extra : ServerSends(c, type)
                         \/ Start(c)
                         \/ Read(c)
                         \/ ConnectionReset(c)

\* The reactor and the clients run; nothing has to happen in the network, and
\* the switch need not connect.
Fairness ==
    \A c \in Client : /\ WF_vars(Accept(c))
                      /\ WF_vars(Greet(c))
                      /\ WF_vars(HandleRecvMsg(c))
                      /\ WF_vars(Read(c))

Spec == Init /\ [][Next]_vars /\ Fairness

-----------------------------------------------------------------------------
(* Properties. *)

\* However early the server broadcasts, sr_handlepacket is never called before
\* main has loaded the routing table and sr_init has set up the cache and its
\* mutex: a packet that comes in the handshake ends the client instead.
HandledWhenInitialised == \A c \in Client : handled[c] => pc[c] \notin Connecting

\* A client that has said "Ready to process packets" knows the interface of every
\* packet that is on its way to it: the names the server translates ports to are
\* among those it sent in HWINFO, although both sides keep their own tables.
ReadyKnowsPorts ==
    \A c \in Client : ready[c] =>
        \A i \in DOMAIN down[c] :
            down[c][i].type = "PACKET" => down[c][i].iface \in if_list[c]

\* No client sends a frame for an interface whose port the server does not know:
\* the handler for that case fails and would cost the client its connection.
PacketOutHasPort ==
    \A c \in Client : \A i \in DOMAIN up[c] :
        up[c][i].type = "PACKET" => up[c][i].iface \in ports

\* A client does not hang in the handshake as long as the connection stands: it
\* reaches the main loop or gives up, whatever is broadcast to it meanwhile.
ConnectSettles ==
    \A c \in Client :
        pc[c] \in Connecting ~> pc[c] \notin Connecting \/ conn[c] = "closed"

Opening(c) == \E i \in DOMAIN up[c] : up[c][i].type = "OPEN"

\* A client whose OPEN comes when the switch is known gets to process packets,
\* unless it ends or the connection does.
ReadyIfInfoFirst ==
    \A c \in Client :
        Opening(c) /\ interfaces # Unset
          ~> ready[c] \/ pc[c] \in Ended \/ conn[c] = "closed"

\* VNSCLOSE ends the client, wherever in the session it comes.
CloseEnds ==
    \A c \in Client :
        (\E i \in DOMAIN down[c] : down[c][i].type = "CLOSE") ~> pc[c] \in Ended

-----------------------------------------------------------------------------
(* What the repository says, and the code does not do. *)

\* sr_vns_comm.c asserts in sr_arp_req_not_for_us that the interface of a frame is
\* known: "assert(iface)".
FrameIfaceKnown ==
    \A c \in Client :
        pc[c] = "loop" /\ down[c] # <<>> /\ Msg(c).type = "PACKET" /\ Msg(c).frame
          => Msg(c).iface \in if_list[c]

=============================================================================
