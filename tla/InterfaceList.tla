--------------------------- MODULE InterfaceList ---------------------------
(***************************************************************************)
(* How the client gets its list of interfaces (sr_if.c) from the HWINFO    *)
(* message (VNSInterface.pack of VNSProtocol.py, sr_handle_hwinfo): the    *)
(* server packs every interface into six entries with a key each, and the  *)
(* client handles entry by entry without knowing which interface it        *)
(* belongs to: the setters write to the LAST interface of the list.        *)
(***************************************************************************)
EXTENDS Naturals, Sequences

CONSTANTS
    Name, Mac, IP,
    Hardware,   \* the lists of interfaces that a server may have
    RtNames,    \* the interfaces that the routing table uses
    Garbage     \* what malloc leaves in a field

Interface == [name : Name, addr : Mac, ip : IP]
ListItem == [name : Name, addr : Mac \cup {Garbage}, ip : IP \cup {Garbage}]

ASSUME HardwareAssumption ==
    /\ Hardware \subseteq Seq(Interface)
    /\ \A w \in Hardware : \A j, k \in DOMAIN w : w[j].name = w[k].name => j = k
    /\ RtNames \subseteq Name

VARIABLES
    hw,        \* the server's list
    if_list,   \* the client's
    i,         \* the entry of the message that comes next
    hwpc       \* "none", "entries", "ready" or "mismatch"

hwVars == <<hw, if_list, i, hwpc>>

\* The entries of one interface, in the order of FORMAT.
Keys == <<"HWINTERFACE", "HWSPEED", "HWETHER", "HWETHIP", "HWSUBNET", "HWMASK">>

\* (mLen - 8) / sizeof(c_hw_entry), the length being 8 + 216 for each interface.
NumEntries == 6 * Len(hw)

\* Entry k: of which interface, and what.
Of(k) == hw[(k \div 6) + 1]
Key(k) == Keys[(k % 6) + 1]

(* Every variable has the shape its declaration says. *)
HwTypeOK ==
    /\ hw \in Hardware
    /\ if_list \in Seq(ListItem)
    /\ i \in 0 .. NumEntries
    /\ hwpc \in {"none", "entries", "ready", "mismatch"}

HwInit ==
    /\ hw \in Hardware
    /\ if_list = <<>>
    /\ i = 0
    /\ hwpc = "none"

\* HWINFO comes once, in answer to OPEN.
HandleHwInfo ==
    /\ hwpc = "none"
    /\ hwpc' = "entries"
    /\ UNCHANGED <<hw, if_list, i>>

\* Mutant: a new interface goes to the front.
AddInterface_Front(name) ==
    if_list' = <<[name |-> name, addr |-> Garbage, ip |-> Garbage]>> \o if_list

\* sr_add_interface: to the end; the other fields are not initialised.
AddInterface(name) ==
    if_list' = Append(if_list, [name |-> name, addr |-> Garbage, ip |-> Garbage])

SetEtherAddr(addr) == if_list' = [if_list EXCEPT ![Len(if_list)].addr = addr]
SetEtherIp(ip) == if_list' = [if_list EXCEPT ![Len(if_list)].ip = ip]

HandleEntry ==
    /\ hwpc = "entries" /\ i < NumEntries
    /\ \/ Key(i) = "HWINTERFACE" /\ AddInterface(Of(i).name)
       \/ Key(i) = "HWETHER" /\ SetEtherAddr(Of(i).addr)
       \/ Key(i) = "HWETHIP" /\ SetEtherIp(Of(i).ip)
       \/ Key(i) \in {"HWSPEED", "HWSUBNET", "HWMASK"} /\ if_list' = if_list
    /\ i' = i + 1
    /\ UNCHANGED <<hw, hwpc>>

\* sr_get_interface: the first one of that name.
Found(name, k) ==
    /\ k \in DOMAIN if_list /\ if_list[k].name = name
    /\ \A j \in DOMAIN if_list : j < k => if_list[j].name # name
Exists(name) == \E k \in DOMAIN if_list : Found(name, k)

\* sr_verify_routing_table returns 0.
Consistent == if_list # <<>> /\ RtNames # {} /\ \A n \in RtNames : Exists(n)

VerifyRoutingTable ==
    /\ hwpc = "entries" /\ i = NumEntries
    /\ hwpc' = IF Consistent THEN "ready" ELSE "mismatch"
    /\ UNCHANGED <<hw, if_list, i>>

HwNext == HandleHwInfo \/ HandleEntry \/ VerifyRoutingTable

HwSpec == HwInit /\ [][HwNext]_hwVars

-----------------------------------------------------------------------------
(* Properties. *)

\* When the client says "Ready to process packets" its list is the server's, name by
\* name and address by address, and no field is left uninitialised: although no entry
\* says which interface it is about, none is attributed to another one.
ListIsHardware == hwpc = "ready" => if_list = hw

=============================================================================
