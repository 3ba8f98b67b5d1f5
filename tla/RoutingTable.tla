---------------------------- MODULE RoutingTable ----------------------------
(***************************************************************************)
(* The routing table (sr_rt.c): sr_load_rt reads it from a file, which     *)
(* main does twice when no topology template is asked for, and             *)
(* sr_longest_prefix_match walks it for every packet to be forwarded.      *)
(*                                                                         *)
(* An address or a mask is the bits of a struct in_addr, in bytes in       *)
(* network order: the first bit of byte 1 is the first one of the dotted   *)
(* notation.  The code compares masks as the uint32_t that these bytes     *)
(* form on a little-endian machine, where the LAST byte weighs most.       *)
(***************************************************************************)
EXTENDS Naturals, Sequences

CONSTANTS
    Bytes,         \* bytes of an address, 4 in the code
    BitsPerByte,   \* 8 in the code
    Dests,     \* the destinations of the packets to be forwarded
    Gateways, Ifaces,   \* what a route leads to
    Files,     \* the contents the routing table file may have
    NoRoute,   \* the null pointer
    Missing,   \* a field that a line of the file does not have
    Bad        \* a line with an address that inet_aton rejects

ASSUME SizeAssumption == Bytes \in Nat \ {0} /\ BitsPerByte \in Nat \ {0}

\* A bit is <<byte, position from the byte's most significant bit>>.
Bit == (1 .. Bytes) \X (1 .. BitsPerByte)
Addr == [Bit -> {0, 1}]

\* b comes before c in the dotted notation.
Before(b, c) == b[1] < c[1] \/ (b[1] = c[1] /\ b[2] < c[2])

\* A netmask: ones up to some bit and zeros after it.
Masks == {m \in Addr : \A b, c \in Bit : Before(b, c) /\ m[c] = 1 => m[b] = 1}
ZeroMask == [b \in Bit |-> 0]

Field == {"dest", "gw", "mask", "iface"}
Route == [dest : Addr, gw : Gateways, mask : Masks, iface : Ifaces]

\* sscanf takes the fields in this order, and a line may end after any of them.
Fields ==
    {l \in [dest : Addr \cup {Missing}, gw : Gateways \cup {Missing},
            mask : Masks \cup {Missing}, iface : Ifaces \cup {Missing}] :
        /\ l.dest = Missing => l.gw = Missing
        /\ l.gw = Missing => l.mask = Missing
        /\ l.mask = Missing => l.iface = Missing}
Line == Fields \cup {Bad}

\* The first line is complete: sscanf would leave the buffers uninitialised.
ASSUME FileAssumption ==
    /\ Dests \subseteq Addr
    /\ Files \subseteq Seq(Line)
    /\ \A f \in Files : f # <<>> => f[1] \in Route \cup {Bad}
    /\ Missing \notin Addr \cup Gateways \cup Ifaces
    /\ Bad \notin Fields
    /\ NoRoute \notin Nat

VARIABLES
    file,      \* the file, which does not change while the router starts
    loads,     \* how often sr_load_rt has still to be called
    line,      \* the lines of this load that have been read
    buf,       \* what sscanf has left in its four buffers
    table,     \* sr->routing_table, in list order
    pc,        \* "load", "ready", "walk", "failed"
    dest,      \* dest_ip
    rt,        \* the position the walk has reached
    longest_match,      \* the best position so far, or NoRoute
    longest_match_len   \* its mask, 0 at first

loadVars == <<file, loads, line, buf, table>>
matchVars == <<dest, rt, longest_match, longest_match_len>>
vars == <<file, loads, line, buf, table, pc, dest, rt, longest_match,
          longest_match_len>>

-----------------------------------------------------------------------------
(* Starting: main's two calls of sr_load_rt_wrap. *)

Init ==
    /\ file \in Files
    /\ loads = 2
    /\ line = 0
    /\ buf = NoRoute
    /\ table = <<>>
    /\ pc = "load"
    /\ dest = ZeroMask
    /\ rt = 1
    /\ longest_match = NoRoute
    /\ longest_match_len = ZeroMask

\* What the buffers hold after sscanf, whose result nobody looks at: a field that the line
\* does not have is that of the line before.
Parsed(l) == [f \in Field |-> IF l[f] = Missing THEN buf[f] ELSE l[f]]

\* Mutant: the second load appends to what the first one left.
Cleared_Never(t) == t

\* The list that the route of this line is appended to.
Cleared(t) == IF line = 0 THEN <<>> ELSE t

\* One round of sr_load_rt's loop: the first route of a load clears the list; the
\* route is appended.
ReadLine ==
    /\ pc = "load" /\ line < Len(file)
    /\ file[line + 1] # Bad
    /\ buf' = Parsed(file[line + 1])
    /\ table' = Append(Cleared(table), Parsed(file[line + 1]))
    /\ line' = line + 1
    /\ UNCHANGED <<file, loads, pc, matchVars>>

\* inet_aton fails, sr_load_rt returns -1, and main exits.
RejectLine ==
    /\ pc = "load" /\ line < Len(file)
    /\ file[line + 1] = Bad
    /\ pc' = "failed"
    /\ UNCHANGED <<loadVars, matchVars>>

\* End of the file: main loads it again after connecting, then starts.
EndLoad ==
    /\ pc = "load" /\ line = Len(file)
    /\ loads' = loads - 1
    /\ line' = 0
    /\ buf' = NoRoute
    /\ pc' = IF loads = 1 THEN "ready" ELSE "load"
    /\ UNCHANGED <<file, table, matchVars>>

-----------------------------------------------------------------------------
(* sr_longest_prefix_match. *)

\* (dest_ip & mask) == (curr_ip & mask)
Matches(d, r) == \A b \in Bit : r.mask[b] = 1 => d[b] = r.dest[b]

\* b weighs more than c in the uint32_t of a little-endian machine.
Heavier(b, c) == b[1] > c[1] \/ (b[1] = c[1] /\ b[2] < c[2])

\* Mutant: >= for >.
Greater_OrEqual(m, n) ==
    \/ m = n
    \/ \E b \in Bit :
         /\ m[b] = 1 /\ n[b] = 0
         /\ \A c \in Bit : Heavier(c, b) => m[c] = n[c]

\* m > n as uint32_t: the heaviest bit in which they differ is set in m.
Greater(m, n) ==
    \E b \in Bit :
        /\ m[b] = 1 /\ n[b] = 0
        /\ \A c \in Bit : Heavier(c, b) => m[c] = n[c]

StartMatch(d) ==
    /\ pc = "ready"
    /\ dest' = d
    /\ rt' = 1
    /\ longest_match' = NoRoute
    /\ longest_match_len' = ZeroMask
    /\ pc' = "walk"
    /\ UNCHANGED loadVars

\* Mutant: the address is saved and not its mask.
MatchLen_Ip(r) == r.dest

\* What is saved of a match, for the comparison with later ones.
MatchLen(r) == r.mask

\* One round of the loop.
VisitRoute ==
    /\ pc = "walk" /\ rt <= Len(table)
    /\ \/ /\ Matches(dest, table[rt])
          /\ Greater(table[rt].mask, longest_match_len)
          /\ longest_match' = rt
          /\ longest_match_len' = MatchLen(table[rt])
       \/ /\ ~ (Matches(dest, table[rt])
                /\ Greater(table[rt].mask, longest_match_len))
          /\ UNCHANGED <<longest_match, longest_match_len>>
    /\ rt' = rt + 1
    /\ UNCHANGED <<loadVars, pc, dest>>

\* The walk is over, longest_match is returned, and the next packet may come.
ReturnMatch ==
    /\ pc = "walk" /\ rt > Len(table)
    /\ pc' = "ready"
    /\ UNCHANGED <<loadVars, matchVars>>

Next ==
    \/ ReadLine
    \/ RejectLine
    \/ EndLoad
    \/ \E d \in Dests : StartMatch(d)
    \/ VisitRoute
    \/ ReturnMatch

Spec == Init /\ [][Next]_vars

-----------------------------------------------------------------------------
(* Properties. *)

(* Every variable has the shape its declaration says. *)
TypeOK ==
    /\ file \in Seq(Line)
    /\ loads \in 0 .. 2
    /\ line \in 0 .. Len(file)
    /\ buf \in Route \cup {NoRoute}
    /\ table \in Seq(Route)
    /\ pc \in {"load", "ready", "walk", "failed"}
    /\ dest \in Addr
    /\ rt \in Nat \ {0}
    /\ longest_match \in Nat \cup {NoRoute}
    /\ longest_match_len \in Masks

\* The prefix of m is at least as long as the prefix of n.
AtLeast(m, n) == \A b \in Bit : n[b] = 1 => m[b] = 1

\* Line k says what field f of line i is: it is the last one up to i that has it.
Source(k, i, f) ==
    /\ k \in 1 .. i
    /\ file[k][f] # Missing
    /\ \A j \in k + 1 .. i : file[j][f] = Missing

\* A router that has started routes by exactly what the file says, line by line
\* and in its order: the second load replaces the first one, nothing of it stays
\* behind or is doubled, and a line that ends early, or is empty, takes each field that
\* it does not have from the last line that has it.
TableIsFile ==
    pc \in {"ready", "walk"} =>
        /\ Len(table) = Len(file)
        /\ \A i \in 1 .. Len(table) : \A f \in Field : \E k \in 1 .. i :
             Source(k, i, f) /\ table[i][f] = file[k][f]

\* The walk is over and its result is what sr_longest_prefix_match returns.
Done == pc = "walk" /\ rt > Len(table)

Candidate(i) == Matches(dest, table[i]) /\ table[i].mask # ZeroMask

\* sr_longest_prefix_match finds the longest prefix although it compares masks in the
\* wrong byte order: a route that it returns matches, no matching one has a longer
\* prefix, and of equally long ones it is the first.  It misses no prefix that is not
\* empty.
LongestMatch ==
    Done =>
        IF longest_match = NoRoute
        THEN \A i \in DOMAIN table : ~Candidate(i)
        ELSE /\ longest_match \in DOMAIN table
             /\ Matches(dest, table[longest_match])
             /\ \A i \in DOMAIN table :
                  Matches(dest, table[i]) =>
                      /\ AtLeast(table[longest_match].mask, table[i].mask)
                      /\ table[i].mask = table[longest_match].mask
                           => longest_match <= i

\* What the comment above sr_longest_prefix_match says: it finds the entry with the
\* longest matching prefix, so one if any matches, be it a default route.
FindsAnyMatch ==
    Done /\ (\E i \in DOMAIN table : Matches(dest, table[i])) => longest_match # NoRoute

=============================================================================
