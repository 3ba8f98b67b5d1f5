--------------------------- MODULE MessageStream ---------------------------
(***************************************************************************)
(* What sr_read_from_server promises its caller, with no bytes in it: the  *)
(* messages that the server writes are handed over one by one, whole and   *)
(* in their order, until one is too long or the connection breaks.         *)
(***************************************************************************)
EXTENDS Naturals, Sequences

CONSTANTS Message, MaxLen

VARIABLES
    queue,   \* written and not handed over yet
    got,     \* handed over
    conn,    \* "open" or "closed"
    over     \* nothing more will be read

vars == <<queue, got, conn, over>>

Init ==
    /\ queue = <<>> /\ got = <<>>
    /\ conn = "open"
    /\ over = FALSE

Write(m) ==
    /\ conn = "open"
    /\ queue' = Append(queue, m)
    /\ UNCHANGED <<got, conn, over>>

Close ==
    /\ conn' = "closed"
    /\ UNCHANGED <<queue, got, over>>

Deliver ==
    /\ ~over /\ queue # <<>>
    /\ Len(Head(queue)) <= MaxLen
    /\ got' = Append(got, Head(queue))
    /\ queue' = Tail(queue)
    /\ UNCHANGED <<conn, over>>

Refuse ==
    /\ queue # <<>> /\ Len(Head(queue)) > MaxLen
    /\ over' = TRUE
    /\ UNCHANGED <<queue, got, conn>>

\* The connection is broken, or a message has told the caller to stop.
Stop ==
    /\ conn = "closed" \/ got # <<>>
    /\ over' = TRUE
    /\ UNCHANGED <<queue, got, conn>>

Next == (\E m \in Message : Write(m)) \/ Close \/ Deliver \/ Refuse \/ Stop

Safety == Init /\ [][Next]_vars

\* As long as the connection stands, messages keep coming.
Spec == Safety /\ WF_vars(conn = "open" /\ (Deliver \/ Refuse))

=============================================================================
