----------------------------- MODULE MCClientIO -----------------------------
(* Messages of three to six bytes, the length in the first two; servers with  *)
(* none to two interfaces, named 1 and 2, of which the routing table uses 1.  *)
EXTENDS ClientIO

CONSTANTS m1, m2, ip1, ip2

HwInfoMsg == <<0, 3, VNSHWINFO>>
CloseMsg == <<0, 3, VNSCLOSE>>
MCMessage == {HwInfoMsg, CloseMsg,
              <<1, 0, VNSPACKET, 1>>, <<1, 1, VNSPACKET, 2, 0>>,
              <<1, 2, VNSPACKET, 1, 0, 0>>}

If1 == [name |-> 1, addr |-> m1, ip |-> ip1]
If2 == [name |-> 2, addr |-> m2, ip |-> ip2]
MCHardware == {<<>>, <<If2>>, <<If1>>, <<If1, If2>>}

\* One with a source address that is not that of the interface, one that is longer than
\* what the log keeps, one that is too short.
MCFrame == {[iface |-> 1, src |-> m1, size |-> 3],
            [iface |-> 2, src |-> m1, size |-> 5],
            [iface |-> 2, src |-> m2, size |-> 1]}
MCItem == [no : 1 .. MaxSent, size : 3 .. 6]
=============================================================================
