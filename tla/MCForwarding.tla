---------------------------- MODULE MCForwarding ----------------------------
(* Three routers in a line with a host at each end.  The routes to the         *)
(* addresses of routers are right, those to hosts are arbitrary.               *)
EXTENDS Forwarding, TLC

CONSTANTS r1, r2, r3, h1, h2

MCNeighbours == r1 :> {h1, r2} @@ r2 :> {r1, r3} @@ r3 :> {r2, h2}

\* The neighbour of n on the way to router m.
Towards(n, m) == IF n = r2 THEN m ELSE r2

Hops(n) == [Host -> MCNeighbours[n] \cup {NoRoute}]

\* A router has no route to itself.
MCTables ==
    {[n \in Router |-> [a \in Addr |->
        IF a \in Host THEN (r1 :> t[1] @@ r2 :> t[2] @@ r3 :> t[3])[n][a]
        ELSE IF a[1] = n THEN NoRoute ELSE Towards(n, a[1])]] :
        t \in Hops(r1) \X Hops(r2) \X Hops(r3)}
=============================================================================
