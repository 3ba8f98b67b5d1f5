---------------------------- MODULE FrameOutput ----------------------------
(***************************************************************************)
(* sr_send_packet and sr_log_packet (sr_vns_comm.c, sr_dumper.c), which    *)
(* both threads of the router call without a lock of their own: each frame *)
(* goes to the log, by two writes to one FILE and a flush, and then to the *)
(* socket.  The C library locks the FILE for the time of one call.  The    *)
(* router was started with a log (-l).                                     *)
(***************************************************************************)
EXTENDS Naturals, Sequences

CONSTANTS
    Frame,       \* the frames that the router may send: [iface, src, size]
    Item,        \* the packets that it receives and logs: [no, size]
    EtherLen,    \* sizeof(struct sr_ethernet_hdr)
    DumpSize,    \* PACKET_DUMP_SIZE
    Nothing

ASSUME OutputAssumption ==
    /\ \A x \in Frame \cup Item : x.size \in Nat
    /\ EtherLen \in Nat /\ DumpSize \in Nat
    /\ Frame \cap Item = {} /\ Nothing \notin Frame \cup Item

Thread == {"main", "timeout"}

VARIABLES
    opc,      \* where each thread is
    out,      \* what it writes
    buffer,   \* what the FILE holds back
    file,     \* what is in the file
    closed,   \* the FILE is closed
    wire,     \* frames written to the socket
    tried,    \* history: frames that were to be sent
    alive     \* the process runs

outVars == <<opc, out, buffer, file, closed, wire, tried, alive>>

\* A piece of the log: the header or the contents of the record for x.
Piece(x, part) == [of |-> x, part |-> part,
                   caplen |-> IF x.size < DumpSize THEN x.size ELSE DumpSize]
Pieces == [of : Frame \cup Item, part : {"header", "contents"}, caplen : 0 .. DumpSize]

(* Every variable has the shape its declaration says. *)
OutTypeOK ==
    /\ opc \in [Thread -> {"idle", "header", "contents", "flush", "check", "write"}]
    /\ out \in [Thread -> Frame \cup Item \cup {Nothing}]
    /\ buffer \in Seq(Pieces) /\ file \in Seq(Pieces)
    /\ closed \in BOOLEAN /\ alive \in BOOLEAN
    /\ wire \in Seq([frame : Frame, late : BOOLEAN])
    /\ tried \subseteq Frame

\* sr_dump_open has written the header of the file.
OutInit ==
    /\ opc = [t \in Thread |-> "idle"]
    /\ out = [t \in Thread |-> Nothing]
    /\ buffer = <<>> /\ file = <<>>
    /\ closed = FALSE
    /\ wire = <<>>
    /\ tried = {}
    /\ alive = TRUE

Goto(t, l) ==
    /\ opc' = [opc EXCEPT ![t] = l]
    /\ out' = IF l = "idle" THEN [out EXCEPT ![t] = Nothing] ELSE out

\* sr_send_packet is called: a frame that is too short is refused at once.
SendPacket(t, f) ==
    /\ alive /\ opc[t] = "idle" /\ f \notin tried
    /\ tried' = tried \cup {f}
    /\ \/ f.size < EtherLen /\ UNCHANGED <<opc, out>>
       \/ /\ f.size >= EtherLen
          /\ opc' = [opc EXCEPT ![t] = "header"]
          /\ out' = [out EXCEPT ![t] = f]
    /\ UNCHANGED <<buffer, file, closed, wire, alive>>

\* sr_log_packet is called for a packet that was received.
LogReceived(x) ==
    /\ alive /\ opc["main"] = "idle"
    /\ opc' = [opc EXCEPT !["main"] = "header"]
    /\ out' = [out EXCEPT !["main"] = x]
    /\ UNCHANGED <<buffer, file, closed, wire, tried, alive>>

\* fwrite to the FILE; to one that main has closed it does nothing, or worse.
Write(t, part) ==
    \/ /\ ~closed
       /\ buffer' = Append(buffer, Piece(out[t], part))
       /\ alive' = alive
    \/ closed /\ buffer' = buffer /\ alive' \in BOOLEAN

WriteHeader(t) ==
    /\ alive /\ opc[t] = "header"
    /\ Write(t, "header")
    /\ Goto(t, "contents")
    /\ UNCHANGED <<file, closed, wire, tried>>

WriteContents(t) ==
    /\ alive /\ opc[t] = "contents"
    /\ Write(t, "contents")
    /\ Goto(t, "flush")
    /\ UNCHANGED <<file, closed, wire, tried>>

\* Mutant: fflush is forgotten.
Flushed_Not == UNCHANGED <<file, buffer>>

\* fflush: with it goes what the other thread has written.
Flushed == file' = file \o buffer /\ buffer' = <<>>

\* The end of sr_log_packet; sr_send_packet goes on.
Flush(t) ==
    /\ alive /\ opc[t] = "flush"
    /\ \/ ~closed /\ Flushed /\ alive' = alive
       \/ closed /\ UNCHANGED <<file, buffer>> /\ alive' \in BOOLEAN
    /\ Goto(t, IF out[t] \in Frame THEN "check" ELSE "idle")
    /\ UNCHANGED <<closed, wire, tried>>

\* sr_ether_addrs_match_interface says ok; if not the frame goes no further.
CheckAddrs(t, ok) ==
    /\ alive /\ opc[t] = "check"
    /\ Goto(t, IF ok THEN "write" ELSE "idle")
    /\ UNCHANGED <<buffer, file, closed, wire, tried, alive>>

\* write, which may fail.
WriteSocket(t) ==
    /\ alive /\ opc[t] = "write"
    /\ \/ wire' = Append(wire, [frame |-> out[t], late |-> closed])
       \/ wire' = wire
    /\ Goto(t, "idle")
    /\ UNCHANGED <<buffer, file, closed, tried, alive>>

\* sr_destroy_instance: fclose.
CloseLog ==
    /\ alive /\ ~closed
    /\ Flushed
    /\ closed' = TRUE
    /\ UNCHANGED <<opc, out, wire, tried, alive>>

\* The process ends, or is killed: what the FILE held back is gone.
Die ==
    /\ alive
    /\ alive' = FALSE
    /\ buffer' = <<>>
    /\ UNCHANGED <<opc, out, file, closed, wire, tried>>

OutStep(t) ==
    \/ WriteHeader(t)
    \/ WriteContents(t)
    \/ Flush(t)
    \/ \E ok \in BOOLEAN : CheckAddrs(t, ok)
    \/ WriteSocket(t)

OutNext ==
    \/ \E t \in Thread : OutStep(t) \/ \E f \in Frame : SendPacket(t, f)
    \/ \E x \in Item : LogReceived(x)
    \/ CloseLog
    \/ Die

OutSpec == OutInit /\ [][OutNext]_outVars

-----------------------------------------------------------------------------
(* Properties. *)

InFile(x) ==
    \E j, k \in DOMAIN file :
        j < k /\ file[j] = Piece(x, "header") /\ file[k] = Piece(x, "contents")

\* The log is ahead of the wire: whenever the process dies, the file has the header
\* and the contents of every frame that has left, in this order, also when the records
\* of the two threads are torn apart by each other.  Only what the timeout thread sends
\* after main has closed the log is missing.
WireLogged == \A k \in DOMAIN wire : wire[k].late \/ InFile(wire[k].frame)

=============================================================================
