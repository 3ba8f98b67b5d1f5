----------------------------- MODULE MCChecksum -----------------------------
(* Bytes of two bits, 2 being left out except in the checksum field; headers of *)
(* three words, and messages with an odd byte after three words, whose sum may  *)
(* have to be folded twice.                                                     *)
EXTENDS Checksum

MCPackets ==
    {p \in [1 .. 6 -> Byte] \cup [1 .. 7 -> Byte] :
        \A k \in DOMAIN p \ {SumAt, SumAt + 1} : p[k] # 2}
=============================================================================
