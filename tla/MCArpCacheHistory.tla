------------------------- MODULE MCArpCacheHistory -------------------------
(* A small instance of ArpCacheHistory, with the packets of MCArpCache.      *)
EXTENDS ArpCacheHistory, TLC

CONSTANTS p1, p2, p3, gw1, gw2, m1, m2, eth1, eth2, a1, a2

MCGw == p1 :> gw1 @@ p2 :> gw1 @@ p3 :> gw2
MCInIface == p1 :> eth2 @@ p2 :> eth2 @@ p3 :> eth1
MCOutIface == p1 :> eth1 @@ p2 :> eth1 @@ p3 :> eth2

\* gw1 answers on its own link and, through another path, on the other one.
MCReplies == {[ip |-> gw1, mac |-> m1, iface |-> eth1],
              [ip |-> gw1, mac |-> m1, iface |-> eth2],
              [ip |-> gw2, mac |-> m2, iface |-> eth2]}
=============================================================================
