-------------------------- MODULE ArpCacheDelivery --------------------------
(* ArpCache implements Delivery: how the state of the cache, the queue and   *)
(* the two threads settles each packet.                                      *)
EXTENDS ArpCache

\* The last word on p; a packet that main has taken in waits until there is one.
Fate(p) ==
    IF outcome[p] # <<>> THEN outcome[p][Len(outcome[p])].how
    ELSE IF p \in seen THEN "waiting" ELSE "new"

D == INSTANCE Delivery WITH fate <- [p \in Packet |-> Fate(p)], up <- alive

\* Every packet that handle_ip_packet takes in for forwarding is settled once
\* and for all, however main and the sweep interleave.
SettlesOnce == D!Safety

\* And it is settled, unless the process dies: no packet waits for ever in the
\* request queue, whether or not an ARP reply comes.
SettlesEventually == D!Spec

=============================================================================
