------------------------------ MODULE Checksum ------------------------------
(***************************************************************************)
(* The Internet checksum as the router computes and uses it: cksum of      *)
(* sr_utils.c, loop by loop, first to test an IP header or an ICMP message *)
(* that came in, then for what goes out after the TTL was decremented or   *)
(* the echo request turned into a reply (handle_ip_packet).                *)
(*                                                                         *)
(* A byte has Base values, 256 in the code, a word is two bytes with the   *)
(* first one more significant.  cksum returns the value with its bytes     *)
(* swapped (htons on a little-endian machine), and it is compared with and *)
(* stored in a field of that byte order, so the field is what is modelled. *)
(***************************************************************************)
EXTENDS Integers, Sequences, FiniteSetsExt

CONSTANTS
    Base,      \* values of a byte
    Packets,   \* the headers and messages that arrive, as sequences of bytes
    TtlAt,     \* the byte that forwarding changes
    SumAt      \* the first byte of the checksum field

Word == Base * Base
Ones == Word - 1     \* 0xffff
Reg == Word * Word   \* values of the uint32_t that the sum is kept in
Byte == 0 .. Base - 1

ASSUME ChecksumAssumption ==
    /\ Base \in Nat /\ Base > 1
    /\ TtlAt \in Nat \ {0} /\ SumAt \in Nat \ {0} /\ SumAt % 2 = 1
    /\ TtlAt \notin {SumAt, SumAt + 1}
    /\ Packets \subseteq Seq(Byte)
    /\ \A p \in Packets : SumAt < Len(p) /\ TtlAt <= Len(p) /\ Len(p) < Word

VARIABLES
    pkt,     \* the bytes in the frame
    field,   \* the checksum that came with them
    job,     \* "test" what came in, or "make" what goes out
    pc,      \* "add", "fold", or what the router has decided
    i,       \* data, as an index
    sum,     \* sum
    total    \* history: the words that were added, without any folding

vars == <<pkt, field, job, pc, i, sum, total>>

\* The value of the checksum field.
Value(p) == Base * p[SumAt] + p[SumAt + 1]
WithValue(p, v) == [p EXCEPT ![SumAt] = v \div Base, ![SumAt + 1] = v % Base]
Blank == {WithValue(p, 0) : p \in Packets}

(* Every variable has the shape its declaration says. *)
TypeOK ==
    /\ pkt \in Seq(Byte) /\ SumAt < Len(pkt) /\ TtlAt <= Len(pkt)
    /\ field \in 0 .. Ones
    /\ job \in {"test", "make"}
    /\ pc \in {"add", "fold", "accepted", "discarded", "sent"}
    /\ i \in 1 .. Len(pkt) + 2
    /\ sum \in 0 .. Reg - 1
    /\ total \in Nat

\* The field is saved and set to 0, and cksum is called.
Init ==
    /\ \E p \in Packets : pkt = WithValue(p, 0) /\ field = Value(p)
    /\ job = "test" /\ pc = "add"
    /\ i = 1 /\ sum = 0 /\ total = 0

-----------------------------------------------------------------------------
(* cksum. *)

\* data[0] << 8 | data[1], or data[0] << 8 for the byte that is left over.
Summand(p, k) == Base * p[k] + (IF k < Len(p) THEN p[k + 1] ELSE 0)

\* Mutant: the sum is declared like the checksum, an uint16_t.
Register_Narrow(s) == s % Word

\* uint32_t sum
Register(s) == s % Reg

\* for (; len >= 2; data += 2, len -= 2), and the odd byte.
Add ==
    /\ pc = "add" /\ i <= Len(pkt)
    /\ sum' = Register(sum + Summand(pkt, i))
    /\ total' = total + Summand(pkt, i)
    /\ i' = i + 2
    /\ UNCHANGED <<pkt, field, job, pc>>

Added ==
    /\ pc = "add" /\ i > Len(pkt)
    /\ pc' = "fold"
    /\ UNCHANGED <<pkt, field, job, i, sum, total>>

\* Mutant: the carry is dropped.
Folded_NoCarry(s) == s % Word

\* (sum >> 16) + (sum & 0xffff)
Folded(s) == (s \div Word) + (s % Word)

\* Mutant: 0xffff is folded too.
TooLarge_Ones(s) == s >= Ones

\* while (sum > 0xffff)
TooLarge(s) == s > Ones

Fold ==
    /\ pc = "fold" /\ TooLarge(sum)
    /\ sum' = Folded(sum)
    /\ UNCHANGED <<pkt, field, job, pc, i, total>>

\* Mutant: a zero checksum is returned as it is.
Cksum_Zero(s) == Ones - s

\* ~sum in 16 bits; sum ? sum : 0xffff.
Cksum(s) == IF s = Ones THEN Ones ELSE Ones - s

-----------------------------------------------------------------------------
(* handle_ip_packet. *)

\* Compare the result with the field that was saved.  The caller passes the length of a
\* header without options whatever ip_hl says; Packets are such headers.
Test ==
    /\ pc = "fold" /\ ~TooLarge(sum) /\ job = "test"
    /\ pc' = IF Cksum(sum) = field THEN "accepted" ELSE "discarded"
    /\ UNCHANGED <<pkt, field, job, i, sum, total>>

\* cksum is called again, the field being 0; what came in is of no use any more.
Make(p) ==
    /\ pc = "accepted"
    /\ pkt' = p
    /\ job' = "make" /\ pc' = "add"
    /\ i' = 1 /\ sum' = 0 /\ total' = 0
    /\ field' = 0

\* Mutant: the TTL is decremented in a wider integer.
Forward_NoWrap == Make([pkt EXCEPT ![TtlAt] = @ - 1])

\* The TTL is decremented, in eight bits.
Forward == Make([pkt EXCEPT ![TtlAt] = (@ - 1) % Base])

\* send_icmp_response makes other headers: a reply with some fields of the request,
\* or an error message.
Respond == \E p \in Blank : Make(p)

\* Mutant: the bytes of the field are in the wrong order.
Store_Swapped ==
    /\ pc = "fold" /\ ~TooLarge(sum) /\ job = "make"
    /\ pkt' = [pkt EXCEPT ![SumAt] = Cksum(sum) % Base, ![SumAt + 1] = Cksum(sum) \div Base]
    /\ pc' = "sent"
    /\ UNCHANGED <<field, job, i, sum, total>>

Store ==
    /\ pc = "fold" /\ ~TooLarge(sum) /\ job = "make"
    /\ pkt' = WithValue(pkt, Cksum(sum))
    /\ pc' = "sent"
    /\ UNCHANGED <<field, job, i, sum, total>>

Next == Add \/ Added \/ Fold \/ Test \/ Forward \/ Respond \/ Store

\* The function runs to its end.
Spec == Init /\ [][Next]_vars /\ WF_vars(Next)

-----------------------------------------------------------------------------
(* Properties. *)

\* The sum of the words as RFC 1071 defines it: bytes at even offsets count Base.
RefSum(p) ==
    MapThenSumSet(LAMBDA k : IF k % 2 = 1 THEN Base * p[k] ELSE p[k], DOMAIN p)

\* cksum's loop goes over every byte once, the odd one at the end included, and its
\* register does not overflow: when the loop has ended it holds the sum, all of it.  The
\* total, which says below what is right, is that sum too.
SumsEveryByte ==
    /\ pc = "add" /\ i > Len(pkt) => sum = RefSum(WithValue(pkt, 0))
    /\ pc = "fold" => total = RefSum(WithValue(pkt, 0))

\* v is a right checksum for words that add up to total: with it they add up to
\* 0xffff in one's complement.
Right(v) == total + v > 0 /\ (total + v) % Ones = 0

\* Comparing checksums is as good as summing up everything, with one exception: a
\* right checksum of 0, which other stations may send, is never accepted.
AcceptsRight ==
    /\ pc = "accepted" => Right(field)
    /\ pc = "discarded" => ~Right(field) \/ field = 0

\* What the router sends is right, and is not the exception: the next router
\* accepts it.
SentRight == pc = "sent" => Right(Value(pkt)) /\ Value(pkt) # 0

\* The folding ends, and with it cksum.
Ends == <>(pc \in {"discarded", "sent"})

=============================================================================
