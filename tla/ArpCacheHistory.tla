-------------------------- MODULE ArpCacheHistory ---------------------------
(***************************************************************************)
(* ArpCache with a history variable that counts the ARP requests that      *)
(* really left for each queued request.  times_sent, which the code counts *)
(* with a racing increment, need not say so.  The history constrains no    *)
(* step.                                                                   *)
(***************************************************************************)
EXTENDS ArpCache

CONSTANT MaxCount    \* the counter saturates here

ASSUME MaxCountAssumption == MaxCount \in Nat /\ MaxCount > MaxSends

VARIABLE sends   \* ARP requests broadcast since the request was allocated

histVars == <<vars, sends>>

\* This step is t's sr_send_packet of an ARP request for a.
Broadcasts(t, a) == pc[t] = "resend" /\ pc'[t] = "count" /\ cur[t] = a

Bump(n) == IF n < MaxCount THEN n + 1 ELSE n

HistInit ==
    /\ Init
    /\ sends = [a \in ReqAddr |-> 0]

Count(a) ==
    IF heap'[a] = Null THEN 0
    ELSE IF \E t \in Thread : Broadcasts(t, a) THEN Bump(sends[a])
    ELSE sends[a]

HistNext == Next /\ sends' = [a \in ReqAddr |-> Count(a)]

HistSpec == HistInit /\ [][HistNext]_histVars /\ Fairness

\* Nobody is told "host unreachable" too early: the thread that gives up on a
\* request does so after MaxSends ARP requests really went out for it.  The
\* increments that handle_arpreq loses to the race only make it wait longer.
UnreachableEarned ==
    \A t \in Thread :
        pc[t] = "giveup" /\ heap[cur[t]] # Null => sends[cur[t]] >= MaxSends

=============================================================================
