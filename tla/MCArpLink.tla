----------------------------- MODULE MCArpLink -----------------------------
(* Two packets for one station and one for another, on two links.            *)
EXTENDS ArpLink, TLC

CONSTANTS p1, p2, p3, gw1, gw2, m1, m2, m3, eth1, eth2, a1, a2

MCGw == p1 :> gw1 @@ p2 :> gw1 @@ p3 :> gw2
MCInIface == p1 :> eth2 @@ p2 :> eth2 @@ p3 :> eth1
MCOutIface == p1 :> eth1 @@ p2 :> eth1 @@ p3 :> eth2
MCOwner == gw1 :> m1 @@ gw2 :> m2
MCLink == gw1 :> eth1 @@ gw2 :> eth2
MCRouterMac == eth1 :> m3 @@ eth2 :> m3
=============================================================================
