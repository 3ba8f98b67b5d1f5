---------------------------- MODULE StreamReader ----------------------------
(***************************************************************************)
(* How sr_read_from_server_expect takes messages out of a stream of bytes. *)
(*                                                                         *)
(* A message starts with its own length in LenBytes bytes, the most        *)
(* significant first.  recv and read return at least one byte and at most  *)
(* what they were asked for; nothing happens between two bytes that one    *)
(* call returns, so every byte has a step of its own.  A call that a       *)
(* signal interrupts is repeated, and one that finds the end of the stream *)
(* returns 0 and is repeated too: neither is a step.                       *)
(***************************************************************************)
EXTENDS Naturals, Sequences

CONSTANTS
    Base,       \* values of a byte
    LenBytes,   \* bytes of the length, 4 in the code
    MaxLen,     \* 10000 in the code
    Message,    \* what the server may write, as sequences of bytes
    MaxSent     \* bound on the messages that it writes

\* ntohl.
Decode(b) ==
    LET v[k \in 0 .. Len(b)] == IF k = 0 THEN 0 ELSE Base * v[k - 1] + b[k]
    IN  v[Len(b)]

ASSUME ReaderAssumption ==
    /\ LenBytes \in Nat \ {0} /\ MaxLen \in Nat /\ MaxSent \in Nat
    /\ Message \subseteq Seq(Nat)
    /\ \A m \in Message : /\ LenBytes < Len(m)
                          /\ Decode(SubSeq(m, 1, LenBytes)) = Len(m)

VARIABLES
    sent,    \* the messages that the server has written
    conn,    \* "closed" when the server's side is gone
    pos,     \* the next byte of the stream: message and place in it
    buf,     \* the bytes read so far for the current message
    len,     \* its length, once known
    phase,   \* "len", "body", "handle", or "over" when main's loop has ended
    got      \* history: the messages that were handled

readerVars == <<sent, conn, pos, buf, len, phase, got>>

(* Every variable has the shape its declaration says. *)
ReaderTypeOK ==
    /\ sent \in Seq(Message) /\ got \in Seq(Message)
    /\ conn \in {"open", "closed"}
    /\ pos \in [msg : Nat \ {0}, byte : Nat \ {0}]
    /\ buf \in Seq(Nat)
    /\ len \in Nat
    /\ phase \in {"len", "body", "handle", "over"}

ReaderInit ==
    /\ sent = <<>> /\ got = <<>>
    /\ conn = "open"
    /\ pos = [msg |-> 1, byte |-> 1]
    /\ buf = <<>> /\ len = 0
    /\ phase = "len"

-----------------------------------------------------------------------------
(* The server. *)

ServerWrites(m) ==
    /\ conn = "open" /\ Len(sent) < MaxSent
    /\ sent' = Append(sent, m)
    /\ UNCHANGED <<conn, pos, buf, len, phase, got>>

\* What is on its way may or may not arrive any more.
ServerCloses ==
    /\ conn = "open"
    /\ conn' = "closed"
    /\ UNCHANGED <<sent, pos, buf, len, phase, got>>

-----------------------------------------------------------------------------
(* The client. *)

\* The next byte is there.
Readable == pos.msg <= Len(sent)

After(p) == IF p.byte < Len(sent[p.msg]) THEN [p EXCEPT !.byte = @ + 1]
            ELSE [msg |-> p.msg + 1, byte |-> 1]

TakeByte ==
    /\ Readable
    /\ buf' = Append(buf, sent[pos.msg][pos.byte])
    /\ pos' = After(pos)
    /\ UNCHANGED <<sent, conn, len, phase, got>>

\* while (bytes_read < 4)
RecvLen ==
    /\ phase = "len" /\ Len(buf) < LenBytes
    /\ TakeByte

\* Mutant: the greatest length is not let through.
TooLong_AtLimit(n) == n >= MaxLen

\* A negative length counts as a great one.
TooLong(n) == n > MaxLen

CheckLen ==
    /\ phase = "len" /\ Len(buf) = LenBytes
    /\ len' = Decode(buf)
    /\ phase' = IF TooLong(len') THEN "over" ELSE "body"
    /\ UNCHANGED <<sent, conn, pos, buf, got>>

\* Mutant: the length is taken for that of the rest.
InBody_WholeLength == Len(buf) - LenBytes < len

\* bytes_read < len - 4; the length itself is in the buffer.
InBody == Len(buf) < len

RecvBody ==
    /\ phase = "body" /\ InBody
    /\ TakeByte

\* The switch on the command.
Dispatch ==
    /\ phase = "body" /\ ~InBody
    /\ phase' = "handle"
    /\ got' = Append(got, buf)
    /\ UNCHANGED <<sent, conn, pos, buf, len>>

\* It is done, and main calls again.
ReadAgain ==
    /\ phase = "handle"
    /\ phase' = "len" /\ buf' = <<>> /\ len' = 0
    /\ UNCHANGED <<sent, conn, pos, got>>

\* A message could not be handled, or has ended the session, or the process is killed
\* by what came of an earlier one.
StopReading ==
    /\ got # <<>> /\ phase # "over"
    /\ phase' = "over"
    /\ UNCHANGED <<sent, conn, pos, buf, len, got>>

\* recv or read returns -1.
ConnectionReset ==
    /\ conn = "closed" /\ phase \in {"len", "body"}
    /\ phase' = "over"
    /\ UNCHANGED <<sent, conn, pos, buf, len, got>>

Reads == RecvLen \/ CheckLen \/ RecvBody \/ Dispatch

ReaderNext ==
    \/ \E m \in Message : ServerWrites(m)
    \/ ServerCloses
    \/ Reads
    \/ ReadAgain
    \/ StopReading
    \/ ConnectionReset

ReaderSpec == ReaderInit /\ [][ReaderNext]_readerVars

-----------------------------------------------------------------------------
(* Properties. *)

M == INSTANCE MessageStream WITH
       queue <- SubSeq(sent, Len(got) + 1, Len(sent)), over <- (phase = "over")

\* Bytes come in pieces of any size, and yet every message is handed over whole, once
\* and in order: the reader never loses its place in the stream.
InOrder == M!Safety

\* While the connection stands, every message that was written is handed over, up to
\* one that is too long.
DeliversAll == M!Spec

=============================================================================
