------------------------------ MODULE ClientIO ------------------------------
(***************************************************************************)
(* The client in its main loop (sr_main.c), as the composition of how it   *)
(* reads messages (StreamReader), how HWINFO becomes the list of           *)
(* interfaces (InterfaceList) and how frames get to the log and the socket *)
(* (FrameOutput).  The main thread reads a message, handles it to the end  *)
(* and reads the next one; the timeout thread sends frames for packets     *)
(* that wait for ARP.  What sr_handlepacket makes of a packet is left      *)
(* open: any frames.                                                       *)
(***************************************************************************)
EXTENDS StreamReader, InterfaceList, FrameOutput

CONSTANTS VNSHWINFO, VNSPACKET, VNSCLOSE

ASSUME ItemAssumption ==
    \A n \in 1 .. MaxSent, m \in Message : [no |-> n, size |-> Len(m)] \in Item

VARIABLES
    task,     \* what main does with the message that it has read
    queued    \* packets may wait in the ARP queue, so the timeout thread may send

vars == <<readerVars, hwVars, outVars, task, queued>>

Type(m) == m[LenBytes + 1]
IfaceOf(m) == m[LenBytes + 2]

\* The message at hand.
Msg == got[Len(got)]
Received == [no |-> Len(got), size |-> Len(Msg)]

(* Every variable has the shape its declaration says. *)
TypeOK ==
    /\ ReaderTypeOK /\ HwTypeOK /\ OutTypeOK
    /\ task \in {"none", "hwinfo", "handling"}
    /\ queued \in BOOLEAN

Init ==
    /\ ReaderInit /\ HwInit /\ OutInit
    /\ task = "none"
    /\ queued = FALSE

-----------------------------------------------------------------------------
\* srhandler.py sends HWINFO once.
Server ==
    /\ \/ \E m \in Message :
            /\ ServerWrites(m)
            /\ Type(m) = VNSHWINFO => \A k \in DOMAIN sent : Type(sent[k]) # VNSHWINFO
       \/ ServerCloses
    /\ UNCHANGED <<hwVars, outVars, task, queued>>

MainReads ==
    /\ alive
    /\ Reads \/ ConnectionReset
    /\ UNCHANGED <<hwVars, outVars, task, queued>>

Handling(type) == alive /\ phase = "handle" /\ task = "none" /\ Type(Msg) = type

ReceiveHwInfo ==
    /\ Handling(VNSHWINFO)
    /\ HandleHwInfo
    /\ task' = "hwinfo"
    /\ UNCHANGED <<readerVars, outVars, queued>>

ReceiveClose ==
    /\ Handling(VNSCLOSE)
    /\ StopReading
    /\ UNCHANGED <<hwVars, outVars, task, queued>>

\* A packet on an interface that is not on the list: the assertion of
\* sr_arp_req_not_for_us fails, or, for a packet too short to get to it,
\* sr_handlepacket follows the null pointer.
UnknownInterface ==
    /\ Handling(VNSPACKET) \/ (task = "handling" /\ opc["main"] = "idle")
    /\ ~Exists(IfaceOf(Msg))
    /\ Die /\ StopReading
    /\ UNCHANGED <<hwVars, task, queued>>

\* sr_arp_req_not_for_us: an ARP request for somebody else is dropped.
NotForUs ==
    /\ Handling(VNSPACKET) /\ Exists(IfaceOf(Msg))
    /\ ReadAgain
    /\ UNCHANGED <<hwVars, outVars, task, queued>>

\* Mutant: the packet is logged when it has been handled.
ReceivePacket_NotLogged ==
    /\ Handling(VNSPACKET)
    /\ task' = "handling"
    /\ UNCHANGED <<readerVars, hwVars, outVars, queued>>

\* sr_log_packet.
ReceivePacket ==
    /\ Handling(VNSPACKET)
    /\ LogReceived(Received)
    /\ task' = "handling"
    /\ UNCHANGED <<readerVars, hwVars, queued>>

\* sr_handle_hwinfo and sr_verify_routing_table.
HwInfoStep ==
    /\ alive /\ task = "hwinfo"
    /\ HandleEntry \/ VerifyRoutingTable
    /\ UNCHANGED <<readerVars, outVars, task, queued>>

HwInfoDone ==
    /\ alive /\ task = "hwinfo"
    /\ \/ hwpc = "ready" /\ ReadAgain
       \/ hwpc = "mismatch" /\ StopReading
    /\ task' = "none"
    /\ UNCHANGED <<hwVars, outVars, queued>>

\* sr_handlepacket: it sends frames, each in the name of an interface that it has
\* looked up, or puts the packet into the ARP queue.
HandlePacket ==
    /\ task = "handling" /\ opc["main"] = "idle" /\ if_list # <<>>
    /\ \E f \in Frame : SendPacket("main", f)
    /\ UNCHANGED <<readerVars, hwVars, task, queued>>

PacketHandled ==
    /\ alive /\ task = "handling" /\ opc["main"] = "idle"
    /\ ReadAgain
    /\ task' = "none"
    /\ \/ queued' = queued
       \/ if_list # <<>> /\ queued' = TRUE
    /\ UNCHANGED <<hwVars, outVars>>

\* Mutant: only the interface has to exist.
AddrsMatch_AnySource(f) == Exists(f.iface)

\* sr_ether_addrs_match_interface.
AddrsMatch(f) == \E k \in DOMAIN if_list : Found(f.iface, k) /\ if_list[k].addr = f.src

\* A step of sr_log_packet or sr_send_packet.
Output(t) ==
    /\ \/ WriteHeader(t)
       \/ WriteContents(t)
       \/ Flush(t)
       \/ out[t] # Nothing /\ CheckAddrs(t, AddrsMatch(out[t]))
       \/ WriteSocket(t)
    /\ UNCHANGED <<readerVars, hwVars, task, queued>>

\* The loop has ended: sr_destroy_instance, and main returns.
Destroy ==
    /\ phase = "over"
    /\ CloseLog \/ (closed /\ Die)
    /\ UNCHANGED <<readerVars, hwVars, task, queued>>

MainStep ==
    \/ MainReads
    \/ ReceiveHwInfo \/ ReceiveClose \/ UnknownInterface \/ NotForUs \/ ReceivePacket
    \/ HwInfoStep \/ HwInfoDone
    \/ HandlePacket \/ PacketHandled
    \/ Output("main")
    \/ Destroy

\* The timeout thread sends ARP requests and ICMP messages, or runs into memory that
\* main has freed (ArpCache).
TimeoutStep ==
    \/ /\ queued /\ \E f \in Frame : SendPacket("timeout", f)
       /\ UNCHANGED <<readerVars, hwVars, task, queued>>
    \/ Output("timeout")
    \/ /\ queued /\ Die /\ StopReading
       /\ UNCHANGED <<hwVars, task, queued>>

Next == Server \/ MainStep \/ TimeoutStep

\* Main keeps running; nothing has to come from the server.
Spec == Init /\ [][Next]_vars /\ WF_vars(MainStep)

-----------------------------------------------------------------------------
(* Properties. *)

\* Whatever leaves carries the source address that the server announced for the
\* interface it leaves by: what HWINFO said has got to the right interface before any
\* thread sends, and sr_send_packet lets nothing else through.
SourceTrue ==
    \A k \in DOMAIN wire : \E j \in DOMAIN hw :
        hw[j].name = wire[k].frame.iface /\ hw[j].addr = wire[k].frame.src

\* While sr_handlepacket works on a packet the packet is in the log, on the disk: if
\* the process dies of it, the log shows it.
PacketLoggedFirst ==
    task = "handling" /\ out["main"] \notin Item => InFile(Received)

=============================================================================
