--------------------------- MODULE MCRoutingTable ---------------------------
(* Routing files of up to three lines, over addresses of two bytes of two    *)
(* bits: prefixes end inside a byte, at its end and in the next one.         *)
EXTENDS RoutingTable

CONSTANTS gw1, gw2, eth1, eth2

\* The dotted notation as a function of bits.
Dotted(w, x, y, z) ==
    [b \in Bit |-> IF b = <<1, 1>> THEN w ELSE IF b = <<1, 2>> THEN x
                   ELSE IF b = <<2, 1>> THEN y ELSE z]

Nets == {Dotted(0, 0, 0, 0), Dotted(0, 0, 1, 0)}
MCDests == Nets \cup {Dotted(0, 1, 1, 1)}

MCRoutes == [dest : Nets, gw : {gw1}, mask : Masks, iface : {eth1}]
Others == [dest : Nets, gw : {gw2}, mask : Masks, iface : {eth2}]

\* The lines that end after some fields of r.
Cuts(r) ==
    {[r EXCEPT !.iface = Missing],
     [r EXCEPT !.iface = Missing, !.mask = Missing],
     [r EXCEPT !.iface = Missing, !.mask = Missing, !.gw = Missing],
     [f \in Field |-> Missing]}
Partial == UNION {Cuts(r) : r \in Others}

MCFiles ==
    {<<>>} \cup {<<x>> : x \in MCRoutes \cup {Bad}}
    \cup {<<x, y>> : x \in MCRoutes, y \in MCRoutes \cup {Bad}}
    \cup {<<x, y, z>> : x \in MCRoutes, y \in MCRoutes \cup Partial,
                       z \in MCRoutes \cup Partial}
=============================================================================
