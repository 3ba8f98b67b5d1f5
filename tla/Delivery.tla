------------------------------ MODULE Delivery ------------------------------
(***************************************************************************)
(* What the router owes the senders of the packets it forwards, with no    *)
(* ARP in it: every packet it accepts is forwarded, refused, or answered   *)
(* with a host unreachable; that is settled exactly once, and it is        *)
(* settled unless the router goes down.                                    *)
(***************************************************************************)
CONSTANT Packet

VARIABLES fate, up

vars == <<fate, up>>

Final == {"forwarded", "unreachable", "dropped"}

Init ==
    /\ fate = [p \in Packet |-> "new"]
    /\ up = TRUE

Accept(p) ==
    /\ up /\ fate[p] = "new"
    /\ fate' = [fate EXCEPT ![p] = "waiting"]
    /\ up' = up

Settle(p) ==
    /\ up /\ fate[p] = "waiting"
    /\ \E f \in Final : fate' = [fate EXCEPT ![p] = f]
    /\ up' = up

GoDown ==
    /\ up
    /\ up' = FALSE
    /\ fate' = fate

Next == GoDown \/ \E p \in Packet : Accept(p) \/ Settle(p)

Safety == Init /\ [][Next]_vars

Spec == Safety /\ \A p \in Packet : WF_vars(Settle(p))

=============================================================================
