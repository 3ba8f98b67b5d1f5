-------------------------- MODULE VnsSessionProofs --------------------------
(* Theorems about VnsSession: for any number of clients, interfaces and        *)
(* packets, whatever the clients' routing tables are.                          *)
EXTENDS VnsSession, TLAPS

\* The elements of a sequence that grows are the old ones and the new one.
LEMMA AppendElements ==
    ASSUME NEW S, NEW s \in Seq(S), NEW m \in S
    PROVE  /\ Append(s, m) \in Seq(S)
           /\ \A i \in DOMAIN Append(s, m) :
                  \/ i \in DOMAIN s /\ Append(s, m)[i] = s[i]
                  \/ Append(s, m)[i] = m
OBVIOUS

\* The elements of a sequence are its first one and those of the rest.
LEMMA TailElements ==
    ASSUME NEW S, NEW s \in Seq(S), s # <<>>
    PROVE  /\ Tail(s) \in Seq(S)
           /\ \A i \in DOMAIN Tail(s) : i + 1 \in DOMAIN s /\ Tail(s)[i] = s[i + 1]
           /\ 1 \in DOMAIN s /\ Head(s) = s[1] /\ Head(s) \in S
OBVIOUS

\* RouterInfo announces ports of the switch.
LEMMA InfoNames == Info \subseteq Iface
BY DEF Info

\* What the server writes fits the tables it keeps, which only grow.
Sound(m) ==
    /\ m.type = "PACKET" => m.iface \in ports
    /\ m.type = "HWINFO" => m.ifaces = Info /\ Info \subseteq ports

DownSound == \A c \in Client : \A i \in DOMAIN down[c] : Sound(down[c][i])

\* The server knows the ports of the switch or none.
ServerSound ==
    /\ ports \subseteq Info
    /\ interfaces # Unset => interfaces = Info /\ Info \subseteq ports

\* A client that is not running has no connection and has done nothing.
OffSound ==
    \A c \in Client : pc[c] = "off" =>
        conn[c] = "none" /\ down[c] = <<>> /\ ~handled[c]

\* The clients have learnt their interfaces from the server, all of them or none.
ListsSound ==
    \A c \in Client : if_list[c] \subseteq ports /\ (ready[c] => Info \subseteq if_list[c])

\* The inductive invariant: what is in the stream ties the tables of the two sides.
Inv ==
    /\ TypeOK
    /\ ServerSound /\ DownSound /\ OffSound /\ ListsSound
    /\ HandledWhenInitialised
    /\ PacketOutHasPort

\* A sound message may be sent to any clients.
LEMMA SendStep ==
    ASSUME Inv, NEW S, NEW m \in Down, Sound(m), Send(S, m)
    PROVE  /\ down' \in [Client -> Seq(Down)]
           /\ \A c \in Client : \A i \in DOMAIN down'[c] : Sound(down'[c][i])
           /\ \A c \in Client : conn[c] # "open" => down'[c] = down[c]
<1>1. ASSUME NEW c \in Client
      PROVE  /\ down'[c] \in Seq(Down)
             /\ \A i \in DOMAIN down'[c] : Sound(down'[c][i])
             /\ conn[c] # "open" => down'[c] = down[c]
  <2>1. down[c] \in Seq(Down) /\ \A i \in DOMAIN down[c] : Sound(down[c][i])
    BY DEF Inv, TypeOK, DownSound
  <2>2. \/ down'[c] = Append(down[c], m) /\ conn[c] = "open"
        \/ down'[c] = down[c]
    BY DEF Send
  <2>3. CASE down'[c] = Append(down[c], m) /\ conn[c] = "open"
    <3>1. /\ Append(down[c], m) \in Seq(Down)
          /\ \A i \in DOMAIN Append(down[c], m) :
                 \/ i \in DOMAIN down[c] /\ Append(down[c], m)[i] = down[c][i]
                 \/ Append(down[c], m)[i] = m
      BY <2>1, AppendElements
    <3>2. ASSUME NEW i \in DOMAIN Append(down[c], m)
          PROVE  Sound(Append(down[c], m)[i])
      BY <2>1, <3>1
    <3> QED
      BY <2>3, <3>1, <3>2
  <2> QED
    BY <2>1, <2>2, <2>3
<1>2. down' = [c \in Client |-> down'[c]]
  BY DEF Send
<1> QED
  BY <1>1, <1>2

\* A client that takes its first message off the stream leaves a sound stream.
LEMMA ConsumeStep ==
    ASSUME Inv, NEW c \in Client, down[c] # <<>>, Consume(c)
    PROVE  /\ down' \in [Client -> Seq(Down)]
           /\ \A d \in Client : \A i \in DOMAIN down'[d] : Sound(down'[d][i])
           /\ \A d \in Client : down[d] = <<>> => down'[d] = <<>>
           /\ Sound(Msg(c)) /\ Msg(c) \in Down
<1>1. down[c] \in Seq(Down) /\ \A i \in DOMAIN down[c] : Sound(down[c][i])
  BY DEF Inv, TypeOK, DownSound
<1>2. /\ Tail(down[c]) \in Seq(Down)
      /\ \A i \in DOMAIN Tail(down[c]) :
             i + 1 \in DOMAIN down[c] /\ Tail(down[c])[i] = down[c][i + 1]
      /\ 1 \in DOMAIN down[c] /\ Head(down[c]) = down[c][1] /\ Head(down[c]) \in Down
  BY <1>1, TailElements
<1>3. \A i \in DOMAIN Tail(down[c]) : Sound(Tail(down[c])[i])
  BY <1>1, <1>2
<1>4. down' \in [Client -> Seq(Down)]
  BY <1>2 DEF Consume, Inv, TypeOK
<1>5. /\ down'[c] = Tail(down[c])
      /\ \A d \in Client : d # c => down'[d] = down[d]
  BY DEF Consume, Inv, TypeOK
<1>6. Sound(Msg(c)) /\ Msg(c) \in Down
  BY <1>1, <1>2 DEF Msg
<1> QED
  BY <1>3, <1>4, <1>5, <1>6 DEF Inv, DownSound

\* A sound reply leaves sound replies.
LEMMA ReplyStep ==
    ASSUME Inv, NEW c \in Client, NEW m \in Up, m.type = "PACKET" => m.iface \in ports,
           Reply(c, m)
    PROVE  /\ up' \in [Client -> Seq(Up)]
           /\ \A d \in Client : \A i \in DOMAIN up'[d] :
                  up'[d][i].type = "PACKET" => up'[d][i].iface \in ports
<1>1. up[c] \in Seq(Up) /\ up \in [Client -> Seq(Up)]
  BY DEF Inv, TypeOK
<1>2. /\ Append(up[c], m) \in Seq(Up)
      /\ \A i \in DOMAIN Append(up[c], m) :
             \/ i \in DOMAIN up[c] /\ Append(up[c], m)[i] = up[c][i]
             \/ Append(up[c], m)[i] = m
  BY <1>1, AppendElements
<1>3. up' \in [Client -> Seq(Up)]
  BY <1>1, <1>2 DEF Reply
<1>4. ASSUME NEW d \in Client, NEW i \in DOMAIN up'[d]
      PROVE  up'[d][i].type = "PACKET" => up'[d][i].iface \in ports
  <2>1. up'[d] = up[d] \/ (d = c /\ up'[d] = Append(up[c], m))
    BY <1>1 DEF Reply
  <2>2. CASE up'[d] = up[d]
    BY <2>2 DEF Inv, PacketOutHasPort
  <2>3. CASE d = c /\ up'[d] = Append(up[c], m)
    <3>1. \/ i \in DOMAIN up[c] /\ up'[d][i] = up[c][i]
          \/ up'[d][i] = m
      BY <1>2, <2>3
    <3> QED
      BY <3>1 DEF Inv, PacketOutHasPort
  <2> QED
    BY <2>1, <2>2, <2>3
<1> QED
  BY <1>3, <1>4

\* The end of a process keeps the invariant.
LEMMA EndStep ==
    ASSUME Inv, NEW c \in Client, NEW how \in Ended, End(c, how)
    PROVE  Inv'
<1>1. /\ UNCHANGED <<srclients, greeted, interfaces, ports, sent, if_list, ready, handled>>
      /\ pc' = [pc EXCEPT ![c] = how]
      /\ conn' = [conn EXCEPT ![c] = "closed"]
      /\ down' = [down EXCEPT ![c] = <<>>]
      /\ up' = [up EXCEPT ![c] = <<>>]
  BY DEF End, serverVars
<1>2. how \notin Connecting /\ how # "off"
  BY DEF Ended, Connecting
<1>3. TypeOK'
  BY <1>1 DEF Inv, TypeOK
<1>4. DownSound' /\ PacketOutHasPort'
  BY <1>1 DEF Inv, TypeOK, DownSound, Sound, PacketOutHasPort
<1>5. OffSound' /\ HandledWhenInitialised'
  BY <1>1, <1>2 DEF Inv, TypeOK, OffSound, HandledWhenInitialised
<1>6. ServerSound' /\ ListsSound'
  BY <1>1 DEF Inv, ServerSound, ListsSound
<1> QED
  BY <1>3, <1>4, <1>5, <1>6 DEF Inv

\* A client in the handshake does not handle packets, and one that is off reads none.
LEMMA NotConnecting ==
    ASSUME Inv, NEW c \in Client, Reads(c, "PACKET") \/ Reads(c, "HWINFO"), ~Unexpected(c)
    PROVE  pc[c] \notin Connecting \cup {"off"}
<1>1. Msg(c).type \in {"PACKET", "HWINFO"} /\ down[c] # <<>>
  BY DEF Reads
<1>2. pc[c] # "off"
  BY <1>1 DEF Inv, OffSound
<1>3. ASSUME pc[c] \in Connecting PROVE FALSE
  <2>1. Expected(c) \in {{"AUTH_REQUEST"}, {"AUTH_STATUS"}, {"RTABLE"}}
    BY <1>3 DEF Expected, Connecting
  <2> QED
    BY <1>1, <2>1 DEF Unexpected
<1> QED
  BY <1>2, <1>3

\* The steps of the server's side keep the invariant.
LEMMA ServerSteps ==
    ASSUME Inv,
           \/ HandleRouterInfo
           \/ \E i \in Iface, frame \in BOOLEAN : HandleSRPacketIn(i, frame)
           \/ \E c \in Client : \/ Accept(c)
                                \/ Greet(c)
                                \/ ServerCloses(c)
                                \/ \E type \in Extra : ServerSends(c, type)
    PROVE  Inv'
<1> USE DEF serverVars, clientVars
<1>1. CASE HandleRouterInfo
  <2>1. /\ interfaces' = Info /\ ports' = ports \cup Info
        /\ UNCHANGED <<srclients, greeted, sent, conn, down, up, pc, if_list, ready, handled>>
    BY <1>1 DEF HandleRouterInfo
  <2>2. TypeOK'
    BY <2>1, InfoNames, SessionAssumption DEF Inv, TypeOK
  <2>3. ServerSound' /\ ListsSound'
    BY <2>1 DEF Inv, ServerSound, ListsSound
  <2>4. DownSound' /\ PacketOutHasPort'
    BY <2>1 DEF Inv, DownSound, Sound, PacketOutHasPort
  <2>5. OffSound' /\ HandledWhenInitialised'
    BY <2>1 DEF Inv, OffSound, HandledWhenInitialised
  <2> QED
    BY <2>2, <2>3, <2>4, <2>5 DEF Inv
<1>2. ASSUME NEW i \in Iface, NEW frame \in BOOLEAN, HandleSRPacketIn(i, frame)
      PROVE  Inv'
  <2> DEFINE m == [type |-> "PACKET", iface |-> i, frame |-> frame]
  <2>1. /\ sent < MaxPackets /\ i \in ports /\ Send(srclients, m) /\ sent' = sent + 1
        /\ UNCHANGED <<srclients, greeted, interfaces, ports, conn, up, pc, if_list, ready, handled>>
    BY <1>2 DEF HandleSRPacketIn, PortKnown
  <2>2. m \in Down /\ Sound(m)
    BY <2>1 DEF Down, Packet, Sound
  <2> HIDE DEF m
  <2>3. /\ down' \in [Client -> Seq(Down)]
        /\ \A c \in Client : \A j \in DOMAIN down'[c] : Sound(down'[c][j])
        /\ \A c \in Client : conn[c] # "open" => down'[c] = down[c]
    BY <2>1, <2>2, SendStep
  <2>4. TypeOK'
    BY <2>1, <2>3, InfoNames, SessionAssumption DEF Inv, TypeOK
  <2>5. DownSound'
    BY <2>1, <2>3 DEF DownSound, Sound
  <2>6. OffSound'
    BY <2>1, <2>3 DEF Inv, OffSound
  <2>7. ServerSound' /\ ListsSound' /\ HandledWhenInitialised' /\ PacketOutHasPort'
    BY <2>1 DEF Inv, ServerSound, ListsSound, HandledWhenInitialised, PacketOutHasPort
  <2> QED
    BY <2>4, <2>5, <2>6, <2>7 DEF Inv
<1>3. ASSUME NEW c \in Client, Accept(c)
      PROVE  Inv'
  <2>1. /\ srclients' = srclients \cup {c}
        /\ UNCHANGED <<greeted, interfaces, ports, sent, conn, down, up, pc, if_list, ready, handled>>
    BY <1>3 DEF Accept
  <2>2. TypeOK'
    BY <2>1 DEF Inv, TypeOK
  <2> QED
    BY <2>1, <2>2 DEF Inv, ServerSound, DownSound, Sound, OffSound, ListsSound,
                      HandledWhenInitialised, PacketOutHasPort
<1>4. ASSUME NEW c \in Client, ServerCloses(c)
      PROVE  Inv'
  <2>1. /\ conn[c] = "open" /\ conn' = [conn EXCEPT ![c] = "closed"]
        /\ UNCHANGED <<srclients, greeted, interfaces, ports, sent, down, up, pc, if_list, ready, handled>>
    BY <1>4 DEF ServerCloses
  <2>2. TypeOK'
    BY <2>1 DEF Inv, TypeOK
  <2>3. OffSound'
    BY <2>1 DEF Inv, TypeOK, OffSound
  <2> QED
    BY <2>1, <2>2, <2>3 DEF Inv, ServerSound, DownSound, Sound, ListsSound,
                            HandledWhenInitialised, PacketOutHasPort
<1>5. ASSUME NEW c \in Client, NEW type \in {"AUTH_REQUEST"} \cup Extra,
             Send({c}, [type |-> type]),
             greeted' \subseteq srclients,
             UNCHANGED <<srclients, interfaces, ports, sent, conn, up, pc, if_list, ready, handled>>
      PROVE  Inv'
  <2> DEFINE m == [type |-> type]
  <2>1. m \in Down /\ Sound(m)
    BY <1>5, SessionAssumption DEF Down, Plain, Sound
  <2>2. Send({c}, m)
    BY <1>5
  <2> HIDE DEF m
  <2>3. /\ down' \in [Client -> Seq(Down)]
        /\ \A d \in Client : \A j \in DOMAIN down'[d] : Sound(down'[d][j])
        /\ \A d \in Client : conn[d] # "open" => down'[d] = down[d]
    BY <2>1, <2>2, SendStep
  <2>4. TypeOK'
    BY <1>5, <2>3 DEF Inv, TypeOK
  <2>5. DownSound'
    BY <1>5, <2>3 DEF DownSound, Sound
  <2>6. OffSound'
    BY <1>5, <2>3 DEF Inv, OffSound
  <2>7. ServerSound' /\ ListsSound' /\ HandledWhenInitialised' /\ PacketOutHasPort'
    BY <1>5 DEF Inv, ServerSound, ListsSound, HandledWhenInitialised, PacketOutHasPort
  <2> QED
    BY <2>4, <2>5, <2>6, <2>7 DEF Inv
<1>6. ASSUME NEW c \in Client, Greet(c)
      PROVE  Inv'
  <2>1. greeted' \subseteq srclients
    BY <1>6 DEF Greet, Inv, TypeOK
  <2> QED
    BY <1>5, <1>6, <2>1 DEF Greet
<1>7. ASSUME NEW c \in Client, NEW type \in Extra, ServerSends(c, type)
      PROVE  Inv'
  <2>1. greeted' \subseteq srclients
    BY <1>7 DEF ServerSends, Inv, TypeOK
  <2> QED
    BY <1>5, <1>7, <2>1 DEF ServerSends
<1> QED
  BY <1>1, <1>2, <1>3, <1>4, <1>6, <1>7

\* The reactor takes a message of a client and handles it.
LEMMA RecvStep ==
    ASSUME Inv, NEW c \in Client, HandleRecvMsg(c)
    PROVE  Inv'
<1> USE DEF serverVars, clientVars
<1>1. /\ conn[c] = "open" /\ up[c] # <<>> /\ up' = [up EXCEPT ![c] = Tail(@)]
      /\ UNCHANGED <<srclients, greeted, interfaces, ports, sent, pc, if_list, ready, handled>>
  BY DEF HandleRecvMsg
<1>2. up[c] \in Seq(Up) /\ up \in [Client -> Seq(Up)]
  BY DEF Inv, TypeOK
<1>3. /\ Tail(up[c]) \in Seq(Up)
      /\ \A i \in DOMAIN Tail(up[c]) : i + 1 \in DOMAIN up[c] /\ Tail(up[c])[i] = up[c][i + 1]
  BY <1>1, <1>2, TailElements
<1>4. up' \in [Client -> Seq(Up)]
  BY <1>1, <1>2, <1>3
<1>5. PacketOutHasPort'
  <2>1. ASSUME NEW d \in Client, NEW i \in DOMAIN up'[d], up'[d][i].type = "PACKET"
        PROVE  up'[d][i].iface \in ports
    <3>1. CASE d = c
      BY <1>1, <1>2, <1>3, <2>1, <3>1 DEF Inv, PacketOutHasPort
    <3>2. CASE d # c
      BY <1>1, <1>2, <2>1, <3>2 DEF Inv, PacketOutHasPort
    <3> QED
      BY <3>1, <3>2
  <2> QED
    BY <1>1, <2>1 DEF PacketOutHasPort
<1>6. \/ conn' = conn
      \/ conn' = [conn EXCEPT ![c] = "closed"]
  BY DEF HandleRecvMsg, HandleAuthReply, HandleOpen, HandleOpenTemplate, HandlePacketMsg, Inv, TypeOK
<1>7. \/ down' = down
      \/ \E m \in Down : Sound(m) /\ Send({c}, m)
  <2>1. CASE HandleAuthReply(c)
    <3>1. [type |-> "AUTH_STATUS"] \in Down /\ Sound([type |-> "AUTH_STATUS"])
      BY DEF Down, Plain, Sound
    <3> QED
      BY <2>1, <3>1 DEF HandleAuthReply
  <2>2. CASE HandleOpen(c) /\ interfaces # Unset
    <3> DEFINE m == [type |-> "HWINFO", ifaces |-> interfaces]
    <3>1. interfaces = Info /\ Info \subseteq ports
      BY <2>2 DEF Inv, ServerSound
    <3>2. m \in Down /\ Sound(m)
      BY <3>1, InfoNames, SessionAssumption DEF Down, HwInfo, Sound
    <3> QED
      BY <2>2, <3>2 DEF HandleOpen, Populated
  <2>3. CASE HandleOpen(c) /\ interfaces = Unset
    BY <2>3 DEF HandleOpen, Populated
  <2>4. CASE HandleOpenTemplate(c)
    BY <2>4 DEF HandleOpenTemplate
  <2>5. CASE HandlePacketMsg(c, Head(up[c]).iface)
    BY <2>5 DEF HandlePacketMsg
  <2> QED
    BY <2>1, <2>2, <2>3, <2>4, <2>5 DEF HandleRecvMsg
<1>8. /\ down' \in [Client -> Seq(Down)]
      /\ \A d \in Client : \A j \in DOMAIN down'[d] : Sound(down'[d][j])
      /\ \A d \in Client : conn[d] # "open" => down'[d] = down[d]
  <2>1. CASE down' = down
    BY <2>1 DEF Inv, TypeOK, DownSound
  <2>2. CASE \E m \in Down : Sound(m) /\ Send({c}, m)
    BY <2>2, SendStep
  <2> QED
    BY <1>7, <2>1, <2>2
<1>9. TypeOK'
  BY <1>1, <1>4, <1>6, <1>8 DEF Inv, TypeOK
<1>10. DownSound'
  BY <1>1, <1>8 DEF DownSound, Sound
<1>11. OffSound'
  BY <1>1, <1>6, <1>8 DEF Inv, TypeOK, OffSound
<1>12. ServerSound' /\ ListsSound' /\ HandledWhenInitialised'
  BY <1>1 DEF Inv, ServerSound, ListsSound, HandledWhenInitialised
<1> QED
  BY <1>5, <1>9, <1>10, <1>11, <1>12 DEF Inv

\* A client that has read a message and sent sound replies keeps the invariant, if what
\* it changes of its own state is in order.
LEMMA ClientStep ==
    ASSUME Inv, NEW c \in Client, down[c] # <<>>, Consume(c),
           up' \in [Client -> Seq(Up)],
           \A d \in Client : \A i \in DOMAIN up'[d] :
               up'[d][i].type = "PACKET" => up'[d][i].iface \in ports,
           UNCHANGED <<srclients, greeted, interfaces, ports, sent, conn>>,
           pc' \in [Client -> {"off", "loop"} \cup Connecting \cup Ended],
           if_list' \in [Client -> SUBSET Iface],
           ready' \in [Client -> BOOLEAN], handled' \in [Client -> BOOLEAN],
           \A d \in Client : pc'[d] = "off" => pc[d] = "off" /\ ~handled'[d],
           HandledWhenInitialised', ListsSound'
    PROVE  Inv'
<1>1. /\ down' \in [Client -> Seq(Down)]
      /\ \A d \in Client : \A i \in DOMAIN down'[d] : Sound(down'[d][i])
      /\ \A d \in Client : down[d] = <<>> => down'[d] = <<>>
  BY ConsumeStep
<1>2. TypeOK'
  BY <1>1 DEF Inv, TypeOK
<1>3. DownSound'
  BY <1>1 DEF DownSound, Sound
<1>4. OffSound'
  BY <1>1 DEF Inv, OffSound
<1>5. ServerSound' /\ PacketOutHasPort'
  BY DEF Inv, ServerSound, PacketOutHasPort
<1> QED
  BY <1>2, <1>3, <1>4, <1>5 DEF Inv

\* Reading one message keeps the invariant.
LEMMA ReadStep ==
    ASSUME Inv, NEW c \in Client, Read(c)
    PROVE  Inv'
<1> USE DEF serverVars, clientVars
<1>0. "exited" \in Ended /\ "aborted" \in Ended
  BY DEF Ended
<1>1. CASE ReadUnexpected(c)
  BY <1>0, <1>1, EndStep DEF ReadUnexpected
<1>2. CASE ReadClose(c)
  BY <1>0, <1>2, EndStep DEF ReadClose
<1>3. CASE ReadBanner(c)
  <2>1. /\ down[c] # <<>> /\ Consume(c)
        /\ UNCHANGED <<srclients, greeted, interfaces, ports, sent, conn, up, pc, if_list, ready, handled>>
    BY <1>3 DEF ReadBanner, Reads
  <2>2. HandledWhenInitialised' /\ ListsSound'
    BY <2>1 DEF Inv, HandledWhenInitialised, ListsSound
  <2> QED
    BY <2>1, <2>2, ClientStep DEF Inv, TypeOK, OffSound, PacketOutHasPort
<1>4. CASE ReadAuthRequest(c) \/ ReadAuthStatus(c)
  <2>1. CASE End(c, "exited")
    BY <1>0, <2>1, EndStep
  <2>2. CASE ~End(c, "exited")
    <3>1. PICK m \in {"AUTH_REPLY", "OPEN", "OPEN_TEMPLATE"}, next \in {"auth_status", "rtable", "loop"} :
            /\ Reply(c, [type |-> m]) /\ Consume(c)
            /\ pc' = [pc EXCEPT ![c] = next]
      BY <1>4, <2>2 DEF ReadAuthRequest, ReadAuthStatus
    <3>2. /\ down[c] # <<>> /\ pc[c] \in Connecting
          /\ UNCHANGED <<srclients, greeted, interfaces, ports, sent, conn, if_list, ready, handled>>
      BY <1>4, <2>2 DEF ReadAuthRequest, ReadAuthStatus, Reads, Connecting
    <3>3. [type |-> m] \in Up /\ [type |-> m].type # "PACKET"
      BY <3>1 DEF Up
    <3>4. /\ up' \in [Client -> Seq(Up)]
          /\ \A d \in Client : \A i \in DOMAIN up'[d] :
                 up'[d][i].type = "PACKET" => up'[d][i].iface \in ports
      BY <3>1, <3>3, ReplyStep
    <3>5. pc' \in [Client -> {"off", "loop"} \cup Connecting \cup Ended]
      BY <3>1 DEF Inv, TypeOK, Connecting
    <3>6. \A d \in Client : pc'[d] = "off" => pc[d] = "off" /\ ~handled'[d]
      BY <3>1, <3>2 DEF Inv, TypeOK, OffSound
    <3>7. HandledWhenInitialised' /\ ListsSound'
      BY <3>1, <3>2 DEF Inv, TypeOK, HandledWhenInitialised, ListsSound
    <3> QED
      BY <3>1, <3>2, <3>4, <3>5, <3>6, <3>7, ClientStep DEF Inv, TypeOK
  <2> QED
    BY <2>1, <2>2
<1>5. CASE ReadHwInfo(c)
  <2>1. CASE End(c, "exited")
    BY <1>0, <2>1, EndStep
  <2>2. CASE ~End(c, "exited")
    <3>1. /\ Reads(c, "HWINFO") /\ ~Unexpected(c)
          /\ if_list' = [if_list EXCEPT ![c] = Known(c)]
          /\ ready' = [ready EXCEPT ![c] = TRUE]
          /\ Consume(c)
          /\ UNCHANGED <<srclients, greeted, interfaces, ports, sent, conn, up, pc, handled>>
      BY <1>5, <2>2 DEF ReadHwInfo
    <3>2. down[c] # <<>> /\ Msg(c).type = "HWINFO"
      BY <3>1 DEF Reads
    <3>3. Msg(c).ifaces = Info /\ Info \subseteq ports
      BY <3>1, <3>2, ConsumeStep DEF Sound
    <3>4. Known(c) \subseteq ports /\ Info \subseteq Known(c) /\ Known(c) \subseteq Iface
      BY <3>3, InfoNames, SessionAssumption DEF Known, AddInterfaces, Inv, ListsSound, TypeOK
    <3>5. /\ if_list' \in [Client -> SUBSET Iface]
          /\ ready' \in [Client -> BOOLEAN]
      BY <3>1, <3>4 DEF Inv, TypeOK
    <3>6. ListsSound'
      BY <3>1, <3>4 DEF Inv, TypeOK, ListsSound
    <3>7. HandledWhenInitialised'
      BY <3>1 DEF Inv, HandledWhenInitialised
    <3> QED
      BY <3>1, <3>2, <3>5, <3>6, <3>7, ClientStep DEF Inv, TypeOK, OffSound, PacketOutHasPort
  <2> QED
    BY <2>1, <2>2
<1>6. CASE ReadPacket(c)
  <2>1. CASE End(c, "aborted")
    BY <1>0, <2>1, EndStep
  <2>2. CASE ~End(c, "aborted")
    <3>1. /\ Reads(c, "PACKET") /\ ~Unexpected(c)
          /\ handled' = handled \/ handled' = [handled EXCEPT ![c] = TRUE]
          /\ up' = up \/ \E i \in if_list[c] : Reply(c, [type |-> "PACKET", iface |-> i])
          /\ Consume(c)
          /\ UNCHANGED <<srclients, greeted, interfaces, ports, sent, conn, pc, if_list, ready>>
      BY <1>6, <2>2 DEF ReadPacket
    <3>2. down[c] # <<>> /\ pc[c] \notin Connecting \cup {"off"}
      BY <3>1, NotConnecting DEF Reads
    <3>3. /\ up' \in [Client -> Seq(Up)]
          /\ \A d \in Client : \A i \in DOMAIN up'[d] :
                 up'[d][i].type = "PACKET" => up'[d][i].iface \in ports
      <4>1. CASE up' = up
        BY <4>1 DEF Inv, TypeOK, PacketOutHasPort
      <4>2. ASSUME NEW i \in if_list[c], Reply(c, [type |-> "PACKET", iface |-> i])
            PROVE  /\ up' \in [Client -> Seq(Up)]
                   /\ \A d \in Client : \A j \in DOMAIN up'[d] :
                          up'[d][j].type = "PACKET" => up'[d][j].iface \in ports
        <5>1. i \in ports /\ i \in Iface
          BY DEF Inv, TypeOK, ListsSound
        <5>2. [type |-> "PACKET", iface |-> i] \in Up
          BY <5>1 DEF Up, PacketOut
        <5> QED
          BY <4>2, <5>1, <5>2, ReplyStep
      <4> QED
        BY <3>1, <4>1, <4>2
    <3>4. handled' \in [Client -> BOOLEAN]
      BY <3>1 DEF Inv, TypeOK
    <3>5. \A d \in Client : pc'[d] = "off" => pc[d] = "off" /\ ~handled'[d]
      BY <3>1, <3>2 DEF Inv, TypeOK, OffSound
    <3>6. HandledWhenInitialised' /\ ListsSound'
      BY <3>1, <3>2 DEF Inv, TypeOK, HandledWhenInitialised, ListsSound
    <3> QED
      BY <3>1, <3>2, <3>3, <3>4, <3>5, <3>6, ClientStep DEF Inv, TypeOK
  <2> QED
    BY <2>1, <2>2
<1> QED
  BY <1>1, <1>2, <1>3, <1>4, <1>5, <1>6 DEF Read

\* Every step of the server, the network and the clients keeps the invariant.
THEOREM Invariance == Spec => []Inv
<1>1. Init => Inv
  BY SessionAssumption DEF Init, Inv, TypeOK, ServerSound, DownSound, OffSound, ListsSound,
                           HandledWhenInitialised, PacketOutHasPort
<1>2. Inv /\ [Next]_vars => Inv'
  <2> SUFFICES ASSUME Inv, [Next]_vars
               PROVE  Inv'
    OBVIOUS
  <2>1. ASSUME NEW c \in Client, Start(c)
        PROVE  Inv'
    <3>1. /\ pc[c] = "off" /\ ~handled[c]
          /\ pc' = [pc EXCEPT ![c] = "auth_request"]
          /\ conn' = [conn EXCEPT ![c] = "open"]
          /\ UNCHANGED <<srclients, greeted, interfaces, ports, sent, down, up, if_list, ready, handled>>
      BY <2>1 DEF Start, serverVars, Inv, OffSound
    <3>2. TypeOK'
      BY <3>1 DEF Inv, TypeOK, Connecting
    <3>3. OffSound' /\ HandledWhenInitialised'
      BY <3>1 DEF Inv, TypeOK, OffSound, HandledWhenInitialised
    <3> QED
      BY <3>1, <3>2, <3>3 DEF Inv, ServerSound, DownSound, Sound, ListsSound, PacketOutHasPort
  <2>2. ASSUME NEW c \in Client, ConnectionReset(c)
        PROVE  Inv'
    BY <2>2, EndStep DEF ConnectionReset, Ended
  <2>3. CASE UNCHANGED vars
    BY <2>3 DEF vars, serverVars, clientVars, Inv, TypeOK, ServerSound, DownSound, Sound,
                OffSound, ListsSound, HandledWhenInitialised, PacketOutHasPort
  <2> QED
    BY <2>1, <2>2, <2>3, ServerSteps, RecvStep, ReadStep DEF Next
<1> QED
  BY <1>1, <1>2, PTL DEF Spec

\* Server and clients keep the types of what they share.
THEOREM TypeCorrect == Spec => []TypeOK
<1>1. Inv => TypeOK
  BY DEF Inv
<1> QED
  BY <1>1, Invariance, PTL

\* sr_handlepacket is not called before the router is initialised, however early and
\* often the server broadcasts.
THEOREM InitialisedFirst == Spec => []HandledWhenInitialised
<1>1. Inv => HandledWhenInitialised
  BY DEF Inv
<1> QED
  BY <1>1, Invariance, PTL

\* A client that is ready knows the interface of every packet on its way to it.
THEOREM ReadyClientsKnowPorts == Spec => []ReadyKnowsPorts
<1>1. Inv => ReadyKnowsPorts
  BY DEF Inv, ReadyKnowsPorts, ServerSound, DownSound, Sound, ListsSound
<1> QED
  BY <1>1, Invariance, PTL

\* The server knows the port of every frame that a client sends.
THEOREM FramesHavePorts == Spec => []PacketOutHasPort
<1>1. Inv => PacketOutHasPort
  BY DEF Inv
<1> QED
  BY <1>1, Invariance, PTL

=============================================================================
