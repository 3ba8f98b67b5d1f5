---------------------------- MODULE MCVnsSession ----------------------------
(* Two runs of the router process and a switch with one port that has no     *)
(* name.  Client c1 is an ordinary one, whose routing table may not fit; c2  *)
(* has asked for a template.                                                 *)
EXTENDS VnsSession, TLC

CONSTANTS c1, c2, eth1, eth9

MCRtTables == c1 :> {{eth1}, {eth1, eth9}} @@ c2 :> {{eth1}}
=============================================================================
