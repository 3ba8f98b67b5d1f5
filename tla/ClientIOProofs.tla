--------------------------- MODULE ClientIOProofs ---------------------------
(***************************************************************************)
(* Theorems about the parts of the client and about the client as a whole: *)
(* the reader implements MessageStream (the safety part of it), for every  *)
(* size of the length field, every limit and any messages; the list of     *)
(* interfaces is the server's, for any number of them; the log is ahead of *)
(* the wire; and the parts keep what they promise when they are put        *)
(* together.                                                               *)
(***************************************************************************)
EXTENDS ClientIO, SequenceTheorems, TLAPS

-----------------------------------------------------------------------------
(* StreamReader. *)

\* The message that is being read.
Current == sent[Len(got) + 1]

\* buf is the beginning of it.
Begun ==
    /\ Len(got) < Len(sent)
    /\ Len(buf) <= Len(Current)
    /\ \A j \in 1 .. Len(buf) : buf[j] = Current[j]

\* What was handled is what was written first.
Prefix ==
    /\ Len(got) <= Len(sent)
    /\ \A j \in 1 .. Len(got) : got[j] = sent[j]

\* The place in the stream goes with the bytes in buf.
Place ==
    /\ phase = "len" =>
          /\ Len(buf) <= LenBytes
          /\ buf # <<>> => Begun
          /\ pos = [msg |-> Len(got) + 1, byte |-> Len(buf) + 1]
    /\ phase = "body" =>
          /\ Begun
          /\ LenBytes <= Len(buf)
          /\ len = Len(Current) /\ len <= MaxLen
          /\ pos = IF Len(buf) < len THEN [msg |-> Len(got) + 1, byte |-> Len(buf) + 1]
                   ELSE [msg |-> Len(got) + 2, byte |-> 1]
    /\ phase = "handle" => pos = [msg |-> Len(got) + 1, byte |-> 1]

ReaderInv == ReaderTypeOK /\ Prefix /\ Place

-----------------------------------------------------------------------------
(* Sequences. *)

\* The rest of a sequence that grows.
LEMMA RestAppend ==
    ASSUME NEW S, NEW s \in Seq(S), NEW m \in S, NEW k \in 0 .. Len(s)
    PROVE  SubSeq(Append(s, m), k + 1, Len(Append(s, m)))
             = Append(SubSeq(s, k + 1, Len(s)), m)
<1> DEFINE t == Append(s, m)
           x == SubSeq(t, k + 1, Len(t))
           r == SubSeq(s, k + 1, Len(s))
           y == Append(r, m)
<1>1. /\ t \in Seq(S) /\ Len(t) = Len(s) + 1 /\ Len(s) \in Nat /\ k \in Nat
      /\ \A j \in 1 .. Len(s) : t[j] = s[j]
      /\ t[Len(s) + 1] = m
  OBVIOUS
<1>2. /\ x \in Seq(S) /\ Len(x) = Len(s) + 1 - k
      /\ \A j \in 1 .. Len(s) + 1 - k : x[j] = t[k + j]
  <2>1. \A j \in k + 1 .. Len(t) : t[j] \in S
    BY <1>1
  <2>2. /\ SubSeq(t, k + 1, Len(t)) \in Seq(S)
        /\ Len(SubSeq(t, k + 1, Len(t))) = Len(t) - (k + 1) + 1
        /\ \A j \in 1 .. Len(t) - (k + 1) + 1 : SubSeq(t, k + 1, Len(t))[j] = t[k + 1 + j - 1]
    BY <1>1, <2>1, SubSeqProperties
  <2> QED
    BY <1>1, <2>2
<1>3. /\ r \in Seq(S) /\ Len(r) = Len(s) - k
      /\ \A j \in 1 .. Len(s) - k : r[j] = s[k + j]
  <2>1. \A j \in k + 1 .. Len(s) : s[j] \in S
    BY <1>1
  <2>2. /\ SubSeq(s, k + 1, Len(s)) \in Seq(S)
        /\ Len(SubSeq(s, k + 1, Len(s))) = IF k + 1 <= Len(s) THEN Len(s) - (k + 1) + 1 ELSE 0
        /\ \A j \in 1 .. Len(s) - (k + 1) + 1 : SubSeq(s, k + 1, Len(s))[j] = s[k + 1 + j - 1]
    BY <1>1, <2>1, SubSeqProperties
  <2> QED
    BY <1>1, <2>2
<1> HIDE DEF x, r, t
<1>4. /\ y \in Seq(S) /\ Len(y) = Len(s) + 1 - k
      /\ \A j \in 1 .. Len(s) - k : y[j] = r[j]
      /\ y[Len(s) + 1 - k] = m
  BY <1>1, <1>3
<1> HIDE DEF y
<1>5. ASSUME NEW j \in 1 .. Len(x)
      PROVE  x[j] = y[j]
  <2>1. CASE j \in 1 .. Len(s) - k
    BY <1>1, <1>2, <1>3, <1>4, <2>1
  <2>2. CASE j = Len(s) + 1 - k
    BY <1>1, <1>2, <1>4, <2>2
  <2> QED
    BY <1>1, <1>2, <2>1, <2>2
<1>6. x = y
  BY <1>1, <1>2, <1>4, <1>5, SeqEqual
<1> QED
  BY <1>6 DEF x, y, r, t

\* The rest of a sequence loses its first element when it starts one later.
LEMMA RestTail ==
    ASSUME NEW S, NEW s \in Seq(S), NEW k \in 0 .. Len(s) - 1
    PROVE  LET r == SubSeq(s, k + 1, Len(s))
           IN  /\ r # <<>>
               /\ Head(r) = s[k + 1]
               /\ Tail(r) = SubSeq(s, k + 2, Len(s))
<1>1. k + 1 \in 1 .. Len(s) /\ Len(s) \in k + 1 .. Len(s) /\ k + 1 + 1 = k + 2
  OBVIOUS
<1>2. /\ Head(SubSeq(s, k + 1, Len(s))) = s[k + 1]
      /\ Tail(SubSeq(s, k + 1, Len(s))) = SubSeq(s, k + 1 + 1, Len(s))
  BY <1>1, HeadTailOfSubSeq
<1>3. SubSeq(s, k + 1, Len(s)) # <<>>
  <2>1. Len(SubSeq(s, k + 1, Len(s))) > 0
    BY <1>1, SubSeqProperties
  <2>2. Len(<<>>) = 0
    OBVIOUS
  <2> QED
    BY <2>1, <2>2
<1>4. Tail(SubSeq(s, k + 1, Len(s))) = SubSeq(s, k + 2, Len(s))
  BY <1>1, <1>2, Zenon
<1> QED
  BY <1>2, <1>3, <1>4

\* What the client has read of a message is, as long as the length, the length.
LEMMA LengthRead ==
    ASSUME ReaderInv, Begun, Len(buf) = LenBytes
    PROVE  Decode(buf) = Len(Current)
<1>1. Current \in Message /\ buf \in Seq(Nat) /\ LenBytes \in Nat
  BY ReaderAssumption DEF ReaderInv, ReaderTypeOK, Begun, Current
<1>2. /\ Current \in Seq(Nat) /\ LenBytes < Len(Current)
      /\ Decode(SubSeq(Current, 1, LenBytes)) = Len(Current)
  BY <1>1, ReaderAssumption
<1>3. \A j \in 1 .. LenBytes : buf[j] = Current[j]
  BY DEF Begun
<1>4. buf = SubSeq(Current, 1, LenBytes)
  BY <1>1, <1>2, <1>3
<1> QED
  BY <1>2, <1>4

\* All of it is the message.
LEMMA MessageRead ==
    ASSUME ReaderInv, Begun, Len(buf) = Len(Current)
    PROVE  buf = Current /\ buf \in Message
<1>1. Current \in Message /\ Current \in Seq(Nat) /\ buf \in Seq(Nat)
  BY ReaderAssumption DEF ReaderInv, ReaderTypeOK, Begun, Current
<1>2. \A j \in 1 .. Len(buf) : buf[j] = Current[j]
  BY DEF Begun
<1>3. buf = Current
  BY <1>1, <1>2
<1> QED
  BY <1>1, <1>3

-----------------------------------------------------------------------------
(* The invariant. *)

\* One more byte of the current message.
LEMMA ByteTaken ==
    ASSUME ReaderInv, TakeByte, pos = [msg |-> Len(got) + 1, byte |-> Len(buf) + 1],
           buf # <<>> => Begun,
           Len(got) < Len(sent) => Len(buf) < Len(Current)
    PROVE  /\ ReaderTypeOK' /\ Prefix' /\ Begun'
           /\ Len(buf') = Len(buf) + 1 /\ Current' = Current
           /\ pos' = IF Len(buf') < Len(Current')
                     THEN [msg |-> Len(got) + 1, byte |-> Len(buf') + 1]
                     ELSE [msg |-> Len(got) + 2, byte |-> 1]
<1> USE DEF ReaderInv
<1>1. /\ Len(got) \in Nat /\ Len(sent) \in Nat /\ Len(got) < Len(sent)
      /\ buf \in Seq(Nat) /\ Len(buf) \in Nat
      /\ Current \in Message /\ Current \in Seq(Nat) /\ Len(buf) < Len(Current)
      /\ Len(Current) \in Nat
  <2>1. /\ Len(got) \in Nat /\ Len(sent) \in Nat /\ sent \in Seq(Message)
        /\ buf \in Seq(Nat) /\ Len(buf) \in Nat
    BY DEF ReaderTypeOK
  <2>2. Len(got) < Len(sent)
    BY <2>1 DEF TakeByte, Readable
  <2>3. Current \in Message
    BY <2>1, <2>2 DEF Current
  <2>4. Current \in Seq(Nat)
    BY <2>3, ReaderAssumption
  <2> QED
    BY <2>1, <2>2, <2>3, <2>4
<1>2. buf' = Append(buf, Current[Len(buf) + 1]) /\ Current[Len(buf) + 1] \in Nat
  BY <1>1 DEF TakeByte, Current
<1>3. /\ buf' \in Seq(Nat) /\ Len(buf') = Len(buf) + 1
      /\ \A j \in 1 .. Len(buf) : buf'[j] = buf[j]
      /\ buf'[Len(buf) + 1] = Current[Len(buf) + 1]
  BY <1>1, <1>2
<1>4. sent' = sent /\ got' = got /\ conn' = conn /\ len' = len /\ phase' = phase
  BY DEF TakeByte
<1>5. Current' = Current
  BY <1>4 DEF Current
<1>6. pos' = IF Len(buf') < Len(Current')
             THEN [msg |-> Len(got) + 1, byte |-> Len(buf') + 1]
             ELSE [msg |-> Len(got) + 2, byte |-> 1]
  BY <1>1, <1>3, <1>5 DEF TakeByte, After, Current
<1>7. Begun'
  <2>1. \A j \in 1 .. Len(buf) : buf[j] = Current[j]
    BY <1>1 DEF Begun
  <2>2. ASSUME NEW j \in 1 .. Len(buf')
        PROVE  buf'[j] = Current'[j]
    <3>1. j \in 1 .. Len(buf) \/ j = Len(buf) + 1
      BY <1>1, <1>3
    <3> QED
      BY <1>3, <1>5, <2>1, <3>1
  <2> QED
    BY <1>1, <1>3, <1>4, <1>5, <2>2 DEF Begun
<1>8. pos' \in [msg : Nat \ {0}, byte : Nat \ {0}]
  <2>0. Len(buf') \in Nat
    BY <1>3
  <2>1. Len(got) + 1 \in Nat \ {0} /\ Len(got) + 2 \in Nat \ {0} /\ Len(buf') + 1 \in Nat \ {0}
    BY <1>1, <2>0
  <2>2. CASE Len(buf') < Len(Current')
    BY <1>6, <2>1, <2>2
  <2>3. CASE ~(Len(buf') < Len(Current'))
    BY <1>6, <2>1, <2>3
  <2> QED
    BY <2>2, <2>3
<1>9. ReaderTypeOK' /\ Prefix'
  BY <1>3, <1>4, <1>8 DEF ReaderTypeOK, Prefix
<1> QED
  BY <1>3, <1>5, <1>6, <1>7, <1>9

\* The reader starts with an empty buffer, at the beginning of the stream.
LEMMA ReaderInit1 == ASSUME ReaderInit PROVE ReaderInv
<1>1. LenBytes \in Nat
  BY ReaderAssumption
<1>2. sent \in Seq(Message) /\ got \in Seq(Message) /\ buf \in Seq(Nat)
  BY DEF ReaderInit
<1> QED
  BY <1>1, <1>2 DEF ReaderInit, ReaderInv, ReaderTypeOK, Prefix, Place

\* A new message leaves what was written before alone.
LEMMA WriteStep ==
    ASSUME ReaderInv, NEW m \in Message, ServerWrites(m)
    PROVE  ReaderInv'
<1> USE DEF ReaderInv
<1>1. /\ sent \in Seq(Message) /\ got \in Seq(Message) /\ Len(sent) \in Nat
      /\ Len(got) \in Nat /\ Len(got) <= Len(sent)
  BY DEF ReaderTypeOK, Prefix
<1>2. /\ sent' = Append(sent, m) /\ conn' = conn /\ pos' = pos /\ buf' = buf
      /\ len' = len /\ phase' = phase /\ got' = got
  BY DEF ServerWrites
<1>3. /\ sent' \in Seq(Message) /\ Len(sent') = Len(sent) + 1
      /\ \A j \in 1 .. Len(sent) : sent'[j] = sent[j]
  BY <1>1, <1>2
<1>4. ReaderTypeOK'
  BY <1>2, <1>3 DEF ReaderTypeOK
<1>5. Prefix'
  BY <1>1, <1>2, <1>3 DEF Prefix
<1>6. Len(got) < Len(sent) => Current' = Current
  BY <1>1, <1>2, <1>3 DEF Current
<1>7. Begun => Begun' /\ Current' = Current
  BY <1>1, <1>2, <1>3, <1>6 DEF Begun
<1>8. Place'
  BY <1>2, <1>7 DEF Place
<1> QED
  BY <1>4, <1>5, <1>8

\* The invariant is inductive.
LEMMA ReaderStep ==
    ASSUME ReaderInv, [ReaderNext]_readerVars
    PROVE  ReaderInv'
<1> USE DEF ReaderInv
<1>0. /\ sent \in Seq(Message) /\ got \in Seq(Message) /\ buf \in Seq(Nat)
      /\ Len(sent) \in Nat /\ Len(got) \in Nat /\ Len(buf) \in Nat
      /\ LenBytes \in Nat \ {0}
      /\ Len(got) < Len(sent) => Current \in Message /\ Len(Current) \in Nat
                                 /\ LenBytes < Len(Current)
  <2>1. /\ sent \in Seq(Message) /\ got \in Seq(Message) /\ buf \in Seq(Nat)
        /\ Len(sent) \in Nat /\ Len(got) \in Nat /\ Len(buf) \in Nat
        /\ LenBytes \in Nat \ {0}
    BY ReaderAssumption DEF ReaderTypeOK
  <2>2. Len(got) < Len(sent) => Current \in Message
    BY <2>1 DEF Current
  <2>3. \A m \in Message : Len(m) \in Nat /\ LenBytes < Len(m)
    BY ReaderAssumption
  <2> QED
    BY <2>1, <2>2, <2>3
<1>1. CASE \E m \in Message : ServerWrites(m)
  BY <1>1, WriteStep
<1>2. CASE ServerCloses
  BY <1>2 DEF ServerCloses, ReaderTypeOK, Prefix, Place, Begun, Current
<1>3. CASE RecvLen
  <2>1. phase = "len" /\ Len(buf) < LenBytes /\ TakeByte
    BY <1>3 DEF RecvLen
  <2>2. /\ pos = [msg |-> Len(got) + 1, byte |-> Len(buf) + 1]
        /\ buf # <<>> => Begun
    BY <2>1 DEF Place
  <2>3. Len(got) < Len(sent) => Len(buf) < Len(Current)
    BY <1>0, <2>1
  <2>4. /\ ReaderTypeOK' /\ Prefix' /\ Begun'
        /\ Len(buf') = Len(buf) + 1 /\ Current' = Current
        /\ pos' = IF Len(buf') < Len(Current')
                  THEN [msg |-> Len(got) + 1, byte |-> Len(buf') + 1]
                  ELSE [msg |-> Len(got) + 2, byte |-> 1]
    BY <2>1, <2>2, <2>3, ByteTaken
  <2>5. phase' = "len" /\ got' = got /\ Len(got) < Len(sent)
    BY <1>0, <2>1, <2>2 DEF TakeByte, Readable
  <2>6. Len(buf') < Len(Current') /\ Len(buf') <= LenBytes
    BY <1>0, <2>1, <2>4, <2>5
  <2> QED
    BY <2>4, <2>5, <2>6 DEF Place
<1>4. CASE CheckLen
  <2>1. /\ phase = "len" /\ Len(buf) = LenBytes /\ len' = Decode(buf)
        /\ phase' = IF TooLong(len') THEN "over" ELSE "body"
        /\ UNCHANGED <<sent, conn, pos, buf, got>>
    BY <1>4 DEF CheckLen
  <2>2. Begun /\ pos = [msg |-> Len(got) + 1, byte |-> Len(buf) + 1]
    BY <1>0, <2>1 DEF Place
  <2>3. len' = Len(Current) /\ len' \in Nat /\ LenBytes < Len(Current)
    BY <1>0, <2>1, <2>2, LengthRead DEF Begun
  <2>4. ReaderTypeOK' /\ Prefix'
    BY <2>1, <2>3 DEF ReaderTypeOK, Prefix
  <2>5. Begun' /\ Current' = Current
    BY <2>1, <2>2 DEF Begun, Current
  <2>6. Place'
    <3>1. CASE TooLong(len')
      BY <2>1, <3>1 DEF Place
    <3>2. CASE ~TooLong(len')
      <4>1. phase' = "body" /\ len' <= MaxLen
        BY <2>1, <2>3, <3>2, ReaderAssumption DEF TooLong
      <4>2. /\ Len(buf') = LenBytes /\ Len(buf') < len' /\ len' = Len(Current')
            /\ pos' = [msg |-> Len(got') + 1, byte |-> Len(buf') + 1]
            /\ LenBytes <= Len(buf')
        BY <1>0, <2>1, <2>2, <2>3, <2>5
      <4> QED
        BY <2>5, <4>1, <4>2 DEF Place
    <3> QED
      BY <3>1, <3>2
  <2> QED
    BY <2>4, <2>6
<1>5. CASE RecvBody
  <2>1. phase = "body" /\ Len(buf) < len /\ TakeByte
    BY <1>5 DEF RecvBody, InBody
  <2>2. /\ pos = [msg |-> Len(got) + 1, byte |-> Len(buf) + 1]
        /\ Begun /\ len = Len(Current) /\ len <= MaxLen /\ LenBytes <= Len(buf)
    BY <2>1 DEF Place
  <2>3. Len(buf) < Len(Current)
    BY <2>1, <2>2
  <2>4. /\ ReaderTypeOK' /\ Prefix' /\ Begun'
        /\ Len(buf') = Len(buf) + 1 /\ Current' = Current
        /\ pos' = IF Len(buf') < Len(Current')
                  THEN [msg |-> Len(got) + 1, byte |-> Len(buf') + 1]
                  ELSE [msg |-> Len(got) + 2, byte |-> 1]
    BY <2>1, <2>2, <2>3, ByteTaken
  <2>5. phase' = "body" /\ got' = got /\ len' = len
    BY <2>1 DEF TakeByte
  <2> QED
    BY <1>0, <2>2, <2>4, <2>5 DEF Place
<1>6. CASE Dispatch
  <2>1. /\ phase = "body" /\ ~(Len(buf) < len) /\ phase' = "handle"
        /\ got' = Append(got, buf)
        /\ UNCHANGED <<sent, conn, pos, buf, len>>
    BY <1>6 DEF Dispatch, InBody
  <2>2. /\ Begun /\ len = Len(Current) /\ pos = [msg |-> Len(got) + 2, byte |-> 1]
        /\ Len(got) < Len(sent)
    BY <2>1 DEF Place, Begun
  <2>3. Len(buf) = Len(Current)
    BY <1>0, <2>1, <2>2 DEF Begun
  <2>4. buf = Current /\ buf \in Message
    BY <2>2, <2>3, MessageRead
  <2>5. /\ got' \in Seq(Message) /\ Len(got') = Len(got) + 1
        /\ \A j \in 1 .. Len(got) : got'[j] = got[j]
        /\ got'[Len(got) + 1] = sent[Len(got) + 1]
    BY <1>0, <2>1, <2>4 DEF Current
  <2>6. ReaderTypeOK'
    BY <2>1, <2>5 DEF ReaderTypeOK
  <2>7. Prefix'
    BY <1>0, <2>1, <2>2, <2>5 DEF Prefix
  <2>8. Place'
    BY <1>0, <2>1, <2>2, <2>5 DEF Place
  <2> QED
    BY <2>6, <2>7, <2>8
<1>7. CASE ReadAgain
  <2>1. buf' = <<>> /\ Len(buf') = 0 /\ buf' \in Seq(Nat)
    BY <1>7 DEF ReadAgain
  <2> QED
    BY <1>0, <1>7, <2>1 DEF ReadAgain, ReaderTypeOK, Prefix, Place
<1>8. CASE StopReading
  BY <1>8 DEF StopReading, ReaderTypeOK, Prefix, Place
<1>9. CASE ConnectionReset
  BY <1>9 DEF ConnectionReset, ReaderTypeOK, Prefix, Place
<1>10. CASE UNCHANGED readerVars
  BY <1>10 DEF readerVars, ReaderTypeOK, Prefix, Place, Begun, Current
<1> QED
  BY <1>1, <1>2, <1>3, <1>4, <1>5, <1>6, <1>7, <1>8, <1>9, <1>10 DEF ReaderNext, Reads

-----------------------------------------------------------------------------
(* The refinement. *)

\* Every step of the reader is one of MessageStream, or changes nothing there.
LEMMA ReaderImplements ==
    ASSUME ReaderInv, [ReaderNext]_readerVars
    PROVE  [M!Next]_(M!vars)
<1> DEFINE k == Len(got)
           queue == SubSeq(sent, k + 1, Len(sent))
<1> USE DEF ReaderInv
<1>0. /\ sent \in Seq(Message) /\ got \in Seq(Message) /\ buf \in Seq(Nat)
      /\ Len(sent) \in Nat /\ k \in Nat /\ k <= Len(sent)
      /\ k < Len(sent) => Head(queue) = Current /\ queue # <<>>
                          /\ Tail(queue) = SubSeq(sent, k + 2, Len(sent))
  BY RestTail DEF ReaderTypeOK, Prefix, Current
<1>1. CASE \E m \in Message : ServerWrites(m)
  <2>1. PICK m \in Message : ServerWrites(m)
    BY <1>1
  <2>2. /\ conn = "open" /\ sent' = Append(sent, m)
        /\ UNCHANGED <<conn, phase, got>>
    BY <2>1 DEF ServerWrites
  <2>3. queue' = SubSeq(Append(sent, m), k + 1, Len(Append(sent, m)))
    BY <2>2
  <2>4. k \in 0 .. Len(sent)
    BY <1>0
  <2>5. queue' = Append(queue, m)
    BY <1>0, <2>3, <2>4, RestAppend
  <2> QED
    BY <2>2, <2>5 DEF M!Next, M!Write
<1>2. CASE ServerCloses
  BY <1>2 DEF ServerCloses, M!Next, M!Close
<1>3. CASE RecvLen \/ RecvBody \/ ReadAgain
  BY <1>3 DEF RecvLen, RecvBody, TakeByte, ReadAgain, M!vars
<1>4. CASE CheckLen
  <2>1. /\ phase = "len" /\ Len(buf) = LenBytes /\ len' = Decode(buf)
        /\ phase' = IF TooLong(len') THEN "over" ELSE "body"
        /\ UNCHANGED <<sent, conn, got>>
    BY <1>4 DEF CheckLen
  <2>2. Begun
    BY <2>1, ReaderAssumption DEF Place
  <2>3. len' = Len(Head(queue)) /\ queue # <<>>
    BY <1>0, <2>1, <2>2, LengthRead DEF Begun
  <2>4. CASE TooLong(len')
    BY <2>1, <2>3, <2>4 DEF TooLong, M!Next, M!Refuse
  <2>5. CASE ~TooLong(len')
    BY <2>1, <2>5 DEF M!vars
  <2> QED
    BY <2>4, <2>5
<1>5. CASE Dispatch
  <2>1. /\ phase = "body" /\ ~(Len(buf) < len) /\ phase' = "handle"
        /\ got' = Append(got, buf) /\ UNCHANGED <<sent, conn>>
    BY <1>5 DEF Dispatch, InBody
  <2>2. Begun /\ len = Len(Current) /\ len <= MaxLen /\ k < Len(sent)
    BY <2>1 DEF Place, Begun
  <2>3. buf = Current
    <3>1. Len(Current) \in Nat
      BY <2>2 DEF ReaderTypeOK
    <3>2. Len(buf) = Len(Current)
      BY <1>0, <2>1, <2>2, <3>1 DEF Begun
    <3> QED
      BY <2>2, <3>2, MessageRead
  <2>4. Len(got') = k + 1
    BY <1>0, <2>1
  <2>5. queue' = Tail(queue)
    BY <1>0, <2>1, <2>2, <2>4
  <2>6. got' = Append(got, Head(queue)) /\ queue # <<>> /\ Len(Head(queue)) <= MaxLen
    BY <1>0, <2>1, <2>2, <2>3
  <2> QED
    BY <2>1, <2>5, <2>6 DEF M!Next, M!Deliver
<1>6. CASE StopReading \/ ConnectionReset
  BY <1>6 DEF StopReading, ConnectionReset, M!Next, M!Stop
<1>7. CASE UNCHANGED readerVars
  BY <1>7 DEF readerVars, M!vars
<1> QED
  BY <1>1, <1>2, <1>3, <1>4, <1>5, <1>6, <1>7 DEF ReaderNext, Reads

\* The initial states of the reader are those of MessageStream.
LEMMA ReaderStarts == ReaderInit => M!Init
BY DEF ReaderInit, M!Init

\* The reader keeps its types.
THEOREM ReaderTypeCorrect == ReaderSpec => []ReaderTypeOK
<1>1. ReaderInv => ReaderTypeOK
  BY DEF ReaderInv
<1> QED
  BY <1>1, ReaderInit1, ReaderStep, PTL DEF ReaderSpec

\* sr_read_from_server hands over whole messages in their order, however the stream
\* is cut into pieces: the reader implements MessageStream.
THEOREM ReaderRefines == ReaderSpec => InOrder
BY ReaderInit1, ReaderStep, ReaderImplements, ReaderStarts, PTL
   DEF ReaderSpec, InOrder, M!Safety

-----------------------------------------------------------------------------
(* InterfaceList. *)

\* What the entries before entry i have made of the list: interface k is on it when
\* its entry 6 * (k - 1) has been handled, its addresses are set two and three later.
Built ==
    /\ Len(if_list) = (i + 5) \div 6
    /\ \A k \in 1 .. Len(if_list) :
          /\ if_list[k].name = hw[k].name
          /\ i > 6 * (k - 1) + 2 => if_list[k].addr = hw[k].addr
          /\ i > 6 * (k - 1) + 3 => if_list[k].ip = hw[k].ip

HwInv ==
    /\ HwTypeOK
    /\ Built
    /\ hwpc = "ready" => i = NumEntries

\* The server's list is one of interfaces.
LEMMA HardwareType ==
    ASSUME HwTypeOK
    PROVE  /\ hw \in Seq(Interface)
           /\ Len(hw) \in Nat
           /\ \A k \in 1 .. Len(hw) : hw[k] \in Interface
BY HardwareAssumption DEF HwTypeOK

\* Where an entry is in the message, and what it is about.
LEMMA EntryPlace ==
    ASSUME HwTypeOK, i < NumEntries
    PROVE  /\ i \in Nat /\ i \div 6 \in Nat
           /\ (i \div 6) + 1 \in 1 .. Len(hw)
           /\ Of(i) = hw[(i \div 6) + 1] /\ Of(i) \in Interface
           /\ i % 6 \in 0 .. 5 /\ i = 6 * (i \div 6) + (i % 6)
           /\ Key(i) = "HWINTERFACE" <=> i % 6 = 0
           /\ Key(i) = "HWETHER" <=> i % 6 = 2
           /\ Key(i) = "HWETHIP" <=> i % 6 = 3
<1>1. i \in Nat /\ i < 6 * Len(hw) /\ Len(hw) \in Nat
  BY HardwareType DEF HwTypeOK, NumEntries
<1>2. i % 6 \in 0 .. 5 /\ i = 6 * (i \div 6) + (i % 6) /\ i \div 6 \in Nat
  BY <1>1
<1>3. (i \div 6) + 1 \in 1 .. Len(hw)
  BY <1>1, <1>2
<1>4. i % 6 \in {0, 1, 2, 3, 4, 5}
  BY <1>2
<1>5. /\ Key(i) = "HWINTERFACE" <=> i % 6 = 0
      /\ Key(i) = "HWETHER" <=> i % 6 = 2
      /\ Key(i) = "HWETHIP" <=> i % 6 = 3
  BY <1>4 DEF Key, Keys
<1> QED
  BY <1>1, <1>2, <1>3, <1>5, HardwareType DEF Of

\* The client starts with an empty list of interfaces.
LEMMA HwInit1 == ASSUME HwInit PROVE HwInv
<1>1. hw \in Seq(Interface) /\ Len(hw) \in Nat
  BY HardwareAssumption DEF HwInit
<1>2. HwTypeOK
  BY <1>1 DEF HwInit, HwTypeOK, NumEntries
<1>3. Built
  BY DEF HwInit, Built
<1> QED
  BY <1>2, <1>3 DEF HwInit, HwInv

\* An entry for a new interface makes the list longer.
LEMMA AddStep ==
    ASSUME HwInv, HandleEntry, Key(i) = "HWINTERFACE"
    PROVE  if_list' \in Seq(ListItem) /\ Built'
<1> DEFINE n == Len(if_list)
           new == [name |-> Of(i).name, addr |-> Garbage, ip |-> Garbage]
<1>0. HwTypeOK /\ i < NumEntries
  BY DEF HwInv, HandleEntry
<1>1. /\ i \in Nat /\ i % 6 = 0 /\ i = 6 * (i \div 6) /\ (i \div 6) + 1 \in 1 .. Len(hw)
      /\ Of(i) = hw[(i \div 6) + 1] /\ Of(i) \in Interface
  BY <1>0, EntryPlace
<1>2. /\ if_list' = Append(if_list, new)
      /\ i' = i + 1 /\ hw' = hw
  BY <1>1, <1>0, EntryPlace DEF HandleEntry, AddInterface
<1>3. new \in ListItem /\ if_list \in Seq(ListItem)
  BY <1>0, <1>1 DEF ListItem, Interface, HwTypeOK
<1>4. n = i \div 6
  BY <1>1 DEF HwInv, Built
<1>5. /\ if_list' \in Seq(ListItem) /\ Len(if_list') = n + 1
      /\ \A k \in 1 .. n : if_list'[k] = if_list[k]
      /\ if_list'[n + 1] = new
  BY <1>2, <1>3
<1>6. Len(if_list') = (i' + 5) \div 6
  BY <1>1, <1>2, <1>4, <1>5
<1>7. ASSUME NEW k \in 1 .. Len(if_list')
      PROVE  /\ if_list'[k].name = hw'[k].name
             /\ i' > 6 * (k - 1) + 2 => if_list'[k].addr = hw'[k].addr
             /\ i' > 6 * (k - 1) + 3 => if_list'[k].ip = hw'[k].ip
  <2>1. CASE k = n + 1
    BY <1>1, <1>2, <1>4, <1>5, <2>1
  <2>2. CASE k \in 1 .. n
    <3>1. i > 6 * (k - 1) + 3
      BY <1>1, <1>4, <2>2
    <3>2. /\ if_list[k].name = hw[k].name
          /\ if_list[k].addr = hw[k].addr /\ if_list[k].ip = hw[k].ip
      <4>1. i > 6 * (k - 1) + 2
        BY <1>1, <2>2, <3>1
      <4>2. Built
        BY DEF HwInv
      <4> QED BY <2>2, <3>1, <4>1, <4>2 DEF Built
    <3> QED
      BY <1>2, <1>5, <2>2, <3>2
  <2> QED
    BY <1>5, <1>3, <2>1, <2>2
<1> QED
  BY <1>5, <1>6, <1>7 DEF Built

\* The other entries leave its length, and change at most the last interface.
LEMMA SetStep ==
    ASSUME HwInv, HandleEntry, Key(i) # "HWINTERFACE"
    PROVE  if_list' \in Seq(ListItem) /\ Built'
<1> DEFINE n == Len(if_list)
<1>0. HwTypeOK /\ i < NumEntries
  BY DEF HwInv, HandleEntry
<1>1. /\ i \in Nat /\ i % 6 \in 1 .. 5 /\ i = 6 * (i \div 6) + (i % 6)
      /\ Of(i) = hw[(i \div 6) + 1] /\ Of(i) \in Interface
      /\ i \div 6 \in Nat
  BY <1>0, EntryPlace
<1>2. if_list \in Seq(ListItem) /\ n = (i \div 6) + 1 /\ n \in 1 .. n
  <2>1. if_list \in Seq(ListItem) /\ n = (i + 5) \div 6
    BY DEF HwInv, HwTypeOK, Built
  <2> QED
    BY <1>1, <2>1
<1>3. i' = i + 1 /\ hw' = hw
  BY DEF HandleEntry
<1>4. (i' + 5) \div 6 = n
  BY <1>1, <1>2, <1>3
<1>5. \A k \in 1 .. n : if_list[k] \in ListItem
  BY <1>2
<1>6. /\ if_list' \in Seq(ListItem) /\ Len(if_list') = n
      /\ \A k \in 1 .. n - 1 : if_list'[k] = if_list[k]
      /\ if_list'[n].name = if_list[n].name
      /\ if_list'[n].addr = IF i % 6 = 2 THEN hw[n].addr ELSE if_list[n].addr
      /\ if_list'[n].ip = IF i % 6 = 3 THEN hw[n].ip ELSE if_list[n].ip
  <2>1. CASE i % 6 = 2
    <3>1. if_list' = [if_list EXCEPT ![n].addr = hw[n].addr]
      BY <1>0, <1>1, <1>2, <2>1, EntryPlace DEF HandleEntry, SetEtherAddr
    <3>2. hw[n].addr \in Mac
      BY <1>1, <1>2 DEF Interface
    <3>3. if_list[n] \in ListItem /\ [if_list[n] EXCEPT !.addr = hw[n].addr] \in ListItem
      BY <1>2, <1>5, <3>2 DEF ListItem
    <3>4. /\ if_list' \in Seq(ListItem) /\ Len(if_list') = n
          /\ \A k \in 1 .. n - 1 : if_list'[k] = if_list[k]
          /\ if_list'[n] = [if_list[n] EXCEPT !.addr = hw[n].addr]
      BY <1>2, <3>1, <3>3
    <3> QED
      BY <3>3, <3>4, <2>1 DEF ListItem
  <2>2. CASE i % 6 = 3
    <3>1. if_list' = [if_list EXCEPT ![n].ip = hw[n].ip]
      BY <1>0, <1>1, <1>2, <2>2, EntryPlace DEF HandleEntry, SetEtherIp
    <3>2. hw[n].ip \in IP
      BY <1>1, <1>2 DEF Interface
    <3> QED
      BY <3>1, <3>2, <1>2, <1>5, <2>2 DEF ListItem
  <2>3. CASE i % 6 \notin {2, 3}
    <3>1. if_list' = if_list
      BY <1>0, <1>1, <2>3, EntryPlace DEF HandleEntry
    <3> QED
      BY <3>1, <1>2, <2>3
  <2> QED
    BY <2>1, <2>2, <2>3
<1>7. ASSUME NEW k \in 1 .. Len(if_list')
      PROVE  /\ if_list'[k].name = hw'[k].name
             /\ i' > 6 * (k - 1) + 2 => if_list'[k].addr = hw'[k].addr
             /\ i' > 6 * (k - 1) + 3 => if_list'[k].ip = hw'[k].ip
  <2>0. k \in 1 .. n
    BY <1>6
  <2>1. /\ if_list[k].name = hw[k].name
        /\ i > 6 * (k - 1) + 2 => if_list[k].addr = hw[k].addr
        /\ i > 6 * (k - 1) + 3 => if_list[k].ip = hw[k].ip
    BY <2>0 DEF HwInv, Built
  <2>2. CASE k = n
    <3> DEFINE r == i % 6
    <3>1. r \in 1 .. 5 /\ i = 6 * (n - 1) + r /\ i' = 6 * (n - 1) + r + 1 /\ n \in Nat
      BY <1>1, <1>2, <1>3
    <3> HIDE DEF r
    <3>2. /\ i' > 6 * (n - 1) + 2 => r = 2 \/ i > 6 * (n - 1) + 2
          /\ i' > 6 * (n - 1) + 3 => r = 3 \/ i > 6 * (n - 1) + 3
      BY <3>1
    <3>3. /\ if_list'[n].addr = IF r = 2 THEN hw[n].addr ELSE if_list[n].addr
          /\ if_list'[n].ip = IF r = 3 THEN hw[n].ip ELSE if_list[n].ip
      BY <1>6 DEF r
    <3>4. i' > 6 * (n - 1) + 2 => if_list'[n].addr = hw[n].addr
      BY <2>1, <2>2, <3>2, <3>3
    <3>5. i' > 6 * (n - 1) + 3 => if_list'[n].ip = hw[n].ip
      BY <2>1, <2>2, <3>2, <3>3
    <3>6. if_list'[n].name = hw[n].name
      BY <1>6, <2>1, <2>2
    <3> QED
      BY <1>3, <2>2, <3>4, <3>5, <3>6
  <2>3. CASE k \in 1 .. n - 1
    <3>1. i > 6 * (k - 1) + 3
      BY <1>1, <1>2, <2>3
    <3>2. /\ if_list[k].name = hw[k].name
          /\ if_list[k].addr = hw[k].addr /\ if_list[k].ip = hw[k].ip
      BY <1>1, <2>1, <2>3, <3>1
    <3>3. if_list'[k] = if_list[k]
      BY <1>6, <2>3
    <3> QED
      BY <1>3, <3>2, <3>3
  <2> QED
    BY <1>2, <2>0, <2>2, <2>3
<1> QED
  BY <1>3, <1>4, <1>6, <1>7 DEF Built

\* The invariant is inductive.
LEMMA HwStep ==
    ASSUME HwInv, [HwNext]_hwVars
    PROVE  HwInv'
<1>1. CASE HandleHwInfo
  BY <1>1 DEF HandleHwInfo, HwInv, HwTypeOK, Built, NumEntries
<1>2. CASE HandleEntry
  <2>1. if_list' \in Seq(ListItem) /\ Built'
    BY <1>2, AddStep, SetStep
  <2>2. i' \in 0 .. NumEntries' /\ hw' \in Hardware /\ hwpc' = "entries"
    BY <1>2, HardwareType DEF HandleEntry, HwInv, HwTypeOK, NumEntries
  <2> QED
    BY <2>1, <2>2 DEF HwInv, HwTypeOK
<1>3. CASE VerifyRoutingTable
  BY <1>3 DEF VerifyRoutingTable, HwInv, HwTypeOK, Built, NumEntries
<1>4. CASE UNCHANGED hwVars
  BY <1>4 DEF hwVars, HwInv, HwTypeOK, Built, NumEntries
<1> QED
  BY <1>1, <1>2, <1>3, <1>4 DEF HwNext

\* A list on which every interface is complete is the server's.
LEMMA BuiltIsHardware == ASSUME HwInv PROVE ListIsHardware
<1> SUFFICES ASSUME hwpc = "ready" PROVE if_list = hw
  BY DEF ListIsHardware
<1>1. i = 6 * Len(hw) /\ Len(hw) \in Nat /\ hw \in Seq(Interface)
  BY HardwareType DEF HwInv, NumEntries
<1>2. Len(if_list) = Len(hw) /\ if_list \in Seq(ListItem)
  BY <1>1 DEF HwInv, Built, HwTypeOK
<1>3. ASSUME NEW k \in 1 .. Len(hw)
      PROVE  if_list[k] = hw[k]
  <2>1. i > 6 * (k - 1) + 3 /\ i > 6 * (k - 1) + 2
    BY <1>1
  <2>2. /\ if_list[k].name = hw[k].name
        /\ if_list[k].addr = hw[k].addr /\ if_list[k].ip = hw[k].ip
    BY <1>2, <2>1 DEF HwInv, Built
  <2>3. if_list[k] \in ListItem /\ hw[k] \in Interface
    BY <1>1, <1>2
  <2> QED
    BY <2>2, <2>3 DEF ListItem, Interface
<1> QED
  BY <1>1, <1>2, <1>3

\* Handling HWINFO keeps the types, whatever the server has.
THEOREM HwTypeCorrect == HwSpec => []HwTypeOK
<1>1. HwInv => HwTypeOK
  BY DEF HwInv
<1> QED
  BY <1>1, HwInit1, HwStep, PTL DEF HwSpec

\* A client that is ready has the server's list of interfaces, for any number of
\* interfaces: sr_set_ether_addr and sr_set_ether_ip write to the right one.
THEOREM ListCorrect == HwSpec => []ListIsHardware
BY BuiltIsHardware, HwInit1, HwStep, PTL DEF HwSpec

-----------------------------------------------------------------------------
(* The log. *)

HeaderIn(s, x) == \E j \in DOMAIN s : s[j] = Piece(x, "header")

RecordIn(s, x) ==
    \E j, k \in DOMAIN s :
        j < k /\ s[j] = Piece(x, "header") /\ s[k] = Piece(x, "contents")

\* What has been written to the FILE.
Log == file \o buffer

\* What a thread has at hand at each place.
OutPlace ==
    \A t \in Thread :
        /\ opc[t] = "idle" <=> out[t] = Nothing
        /\ opc[t] \in {"check", "write"} => out[t] \in Frame

\* How far it has got with its record.
OutLogged ==
    alive /\ ~closed =>
        \A t \in Thread :
            /\ opc[t] = "contents" => HeaderIn(Log, out[t])
            /\ opc[t] = "flush" => RecordIn(Log, out[t])
            /\ opc[t] \in {"check", "write"} => RecordIn(file, out[t])

OutInv == OutTypeOK /\ OutPlace /\ OutLogged /\ WireLogged

\* The parts of a record are what a file is made of.
LEMMA PieceType ==
    ASSUME NEW x \in Frame \cup Item, NEW part \in {"header", "contents"}
    PROVE  Piece(x, part) \in Pieces
BY OutputAssumption DEF Piece, Pieces

\* A record that is there stays when something is written behind it.
LEMMA Keeps ==
    ASSUME NEW s \in Seq(Pieces), NEW u \in Seq(Pieces), NEW x
    PROVE  /\ HeaderIn(s, x) => HeaderIn(s \o u, x)
           /\ RecordIn(s, x) => RecordIn(s \o u, x)
<1>1. \A j \in DOMAIN s : j \in DOMAIN (s \o u) /\ (s \o u)[j] = s[j]
  OBVIOUS
<1> QED
  BY <1>1 DEF HeaderIn, RecordIn

\* Header and contents, one after the other, make a record.
LEMMA Writes ==
    ASSUME NEW s \in Seq(Pieces), NEW x \in Frame \cup Item
    PROVE  /\ HeaderIn(Append(s, Piece(x, "header")), x)
           /\ HeaderIn(s, x) => RecordIn(Append(s, Piece(x, "contents")), x)
<1>1. Piece(x, "header") \in Pieces /\ Piece(x, "contents") \in Pieces
  BY PieceType
<1>2. ASSUME NEW p \in Pieces
      PROVE  /\ \A j \in DOMAIN s : j \in DOMAIN Append(s, p) /\ Append(s, p)[j] = s[j]
                                    /\ j < Len(s) + 1
             /\ Len(s) + 1 \in DOMAIN Append(s, p) /\ Append(s, p)[Len(s) + 1] = p
  OBVIOUS
<1> QED
  BY <1>1, <1>2 DEF HeaderIn, RecordIn

\* Writing to the FILE is writing to the log; flushing leaves the log as it is.
LEMMA LogFacts ==
    ASSUME OutTypeOK
    PROVE  /\ Log \in Seq(Pieces)
           /\ \A p \in Pieces : file \o Append(buffer, p) = Append(Log, p)
           /\ Log \o <<>> = Log
           /\ \A p \in Pieces : Append(Log, p) = Log \o <<p>> /\ <<p>> \in Seq(Pieces)
<1>1. file \in Seq(Pieces) /\ buffer \in Seq(Pieces)
  BY DEF OutTypeOK
<1>2. Log \in Seq(Pieces)
  BY <1>1 DEF Log
<1>3. ASSUME NEW p \in Pieces
      PROVE  /\ file \o Append(buffer, p) = Append(Log, p)
             /\ Append(Log, p) = Log \o <<p>> /\ <<p>> \in Seq(Pieces)
  <2>1. <<p>> \in Seq(Pieces)
    OBVIOUS
  <2>2. Append(buffer, p) = buffer \o <<p>> /\ Append(Log, p) = Log \o <<p>>
    BY <1>1, <1>2, AppendIsConcat
  <2>3. (file \o buffer) \o <<p>> = file \o (buffer \o <<p>>)
    BY <1>1, <2>1, ConcatAssociative
  <2> QED
    BY <2>1, <2>2, <2>3 DEF Log
<1>4. Log \o <<>> = Log
  BY <1>2, ConcatEmptySeq
<1> QED
  BY <1>2, <1>3, <1>4

\* InFile is RecordIn for what the file holds.
LEMMA FileRecords == \A x : InFile(x) <=> RecordIn(file, x)
BY DEF InFile, RecordIn

\* A thread that moves leaves the other where it is.
LEMMA GotoFacts ==
    ASSUME OutTypeOK, OutPlace, NEW t \in Thread,
           NEW l \in {"idle", "header", "contents", "flush", "check", "write"},
           Goto(t, l), opc[t] # "idle",
           l \in {"check", "write"} => out[t] \in Frame
    PROVE  /\ opc' \in [Thread -> {"idle", "header", "contents", "flush", "check", "write"}]
           /\ out' \in [Thread -> Frame \cup Item \cup {Nothing}]
           /\ OutPlace'
           /\ \A u \in Thread \ {t} : opc'[u] = opc[u] /\ out'[u] = out[u]
           /\ opc'[t] = l
           /\ l # "idle" => out'[t] = out[t]
<1>1. /\ opc' = [opc EXCEPT ![t] = l]
      /\ out' = IF l = "idle" THEN [out EXCEPT ![t] = Nothing] ELSE out
  BY DEF Goto
<1>2. /\ opc \in [Thread -> {"idle", "header", "contents", "flush", "check", "write"}]
      /\ out \in [Thread -> Frame \cup Item \cup {Nothing}]
  BY DEF OutTypeOK
<1>3. /\ opc' \in [Thread -> {"idle", "header", "contents", "flush", "check", "write"}]
      /\ out' \in [Thread -> Frame \cup Item \cup {Nothing}]
      /\ \A u \in Thread \ {t} : opc'[u] = opc[u] /\ out'[u] = out[u]
      /\ opc'[t] = l
      /\ l # "idle" => out'[t] = out[t]
      /\ l = "idle" => out'[t] = Nothing
  BY <1>1, <1>2
<1>4. ASSUME NEW u \in Thread
      PROVE  /\ opc'[u] = "idle" <=> out'[u] = Nothing
             /\ opc'[u] \in {"check", "write"} => out'[u] \in Frame
  <2>1. /\ opc[u] = "idle" <=> out[u] = Nothing
        /\ opc[u] \in {"check", "write"} => out[u] \in Frame
    BY DEF OutPlace
  <2>2. CASE u = t
    BY <1>3, <2>1, <2>2
  <2>3. CASE u # t
    BY <1>3, <2>1, <2>3
  <2> QED
    BY <2>2, <2>3
<1> QED
  BY <1>3, <1>4 DEF OutPlace

\* A step that keeps what is in the file keeps what the wire owes it.
LEMMA WireKept ==
    ASSUME OutTypeOK, WireLogged, wire' = wire, NEW u \in Seq(Pieces), file' = file \o u
    PROVE  WireLogged'
<1>1. file \in Seq(Pieces)
  BY DEF OutTypeOK
<1>2. ASSUME NEW x, InFile(x) PROVE InFile(x)'
  <2>1. \A j \in DOMAIN file : j \in DOMAIN file' /\ file'[j] = file[j]
    BY <1>1
  <2> QED
    BY <1>2, <2>1 DEF InFile
<1> QED
  BY <1>2 DEF WireLogged

\* Appending nothing to the file leaves it as it is.
LEMMA NothingAdded == ASSUME OutTypeOK PROVE <<>> \in Seq(Pieces) /\ file \o <<>> = file
BY ConcatEmptySeq DEF OutTypeOK

\* A thread that writes nothing may be where its record allows it to be.
LEMMA LoggedKept ==
    ASSUME OutLogged, NEW t \in Thread,
           \A u \in Thread \ {t} : opc'[u] = opc[u] /\ out'[u] = out[u],
           \/ opc'[t] \in {"idle", "header"}
           \/ opc[t] = "check" /\ opc'[t] = "write" /\ out'[t] = out[t],
           UNCHANGED <<file, buffer, closed, alive>>
    PROVE  OutLogged'
<1>1. \A s, x : (HeaderIn(s, x) <=> HeaderIn(s, x)') /\ (RecordIn(s, x) <=> RecordIn(s, x)')
  BY DEF HeaderIn, RecordIn, Piece
<1>2. Log' = Log
  BY DEF Log
<1> SUFFICES ASSUME alive, ~closed, NEW u \in Thread
             PROVE  /\ opc'[u] = "contents" => HeaderIn(Log, out'[u])
                    /\ opc'[u] = "flush" => RecordIn(Log, out'[u])
                    /\ opc'[u] \in {"check", "write"} => RecordIn(file, out'[u])
  BY <1>1, <1>2 DEF OutLogged
<1>3. /\ opc[u] = "contents" => HeaderIn(Log, out[u])
      /\ opc[u] = "flush" => RecordIn(Log, out[u])
      /\ opc[u] \in {"check", "write"} => RecordIn(file, out[u])
  BY DEF OutLogged
<1> QED
  BY <1>3

\* Both threads start with nothing to send and an empty log.
LEMMA OutInit1 == ASSUME OutInit PROVE OutInv
<1>1. <<>> \in Seq(Pieces) /\ <<>> \in Seq([frame : Frame, late : BOOLEAN])
  OBVIOUS
<1>2. OutTypeOK
  BY <1>1 DEF OutInit, OutTypeOK
<1>3. OutPlace /\ OutLogged
  BY DEF OutInit, OutPlace, OutLogged
<1>4. WireLogged
  BY DEF OutInit, WireLogged
<1> QED
  BY <1>2, <1>3, <1>4 DEF OutInv

\* A frame or a packet that is to be logged.
LEMMA OutBegins ==
    ASSUME OutInv, NEW t \in Thread, NEW x \in Frame \cup Item, opc[t] = "idle",
           opc' = [opc EXCEPT ![t] = "header"], out' = [out EXCEPT ![t] = x],
           NEW S \in SUBSET Frame, tried' = S,
           UNCHANGED <<buffer, file, closed, wire, alive>>
    PROVE  OutInv'
<1> USE DEF OutInv
<1>1. /\ opc' \in [Thread -> {"idle", "header", "contents", "flush", "check", "write"}]
      /\ out' \in [Thread -> Frame \cup Item \cup {Nothing}]
      /\ \A u \in Thread \ {t} : opc'[u] = opc[u] /\ out'[u] = out[u]
      /\ opc'[t] = "header" /\ out'[t] = x
  BY DEF OutTypeOK
<1>2. OutTypeOK'
  BY <1>1 DEF OutTypeOK
<1>3. x # Nothing
  BY OutputAssumption
<1>4. ASSUME NEW u \in Thread
      PROVE  /\ opc'[u] = "idle" <=> out'[u] = Nothing
             /\ opc'[u] \in {"check", "write"} => out'[u] \in Frame
  BY <1>1, <1>3 DEF OutPlace
<1>5. OutPlace'
  BY <1>4 DEF OutPlace
<1>6. OutLogged'
  BY <1>1, LoggedKept
<1>7. WireLogged'
  BY DEF WireLogged, InFile, Piece
<1> QED
  BY <1>2, <1>5, <1>6, <1>7

\* A thread has written a piece of its record.
LEMMA OutWrites ==
    ASSUME OutInv, NEW t \in Thread, NEW part \in {"header", "contents"},
           alive, opc[t] = part, Write(t, part),
           Goto(t, IF part = "header" THEN "contents" ELSE "flush"),
           UNCHANGED <<file, closed, wire, tried>>
    PROVE  OutInv'
<1> USE DEF OutInv
<1> DEFINE l == IF part = "header" THEN "contents" ELSE "flush"
<1>1. /\ opc' \in [Thread -> {"idle", "header", "contents", "flush", "check", "write"}]
      /\ out' \in [Thread -> Frame \cup Item \cup {Nothing}]
      /\ OutPlace'
      /\ \A u \in Thread \ {t} : opc'[u] = opc[u] /\ out'[u] = out[u]
      /\ opc'[t] = l
      /\ out'[t] = out[t]
  BY GotoFacts
<1>2. out[t] \in Frame \cup Item
  BY DEF OutTypeOK, OutPlace
<1>3. Piece(out[t], part) \in Pieces
  BY <1>2, PieceType
<1>4. OutTypeOK'
  <2>1. buffer' \in Seq(Pieces)
    <3>1. buffer \in Seq(Pieces)
      BY DEF OutTypeOK
    <3>2. buffer' = Append(buffer, Piece(out[t], part)) \/ buffer' = buffer
      BY DEF Write
    <3> QED
      BY <1>3, <3>1, <3>2, AppendProperties
  <2>2. alive' \in BOOLEAN
    BY DEF OutTypeOK, Write
  <2> QED
    BY <1>1, <2>1, <2>2 DEF OutTypeOK
<1>5. WireLogged'
  BY NothingAdded, WireKept
<1>6. OutLogged'
  <2> SUFFICES ASSUME ~closed, NEW u \in Thread
               PROVE  /\ opc'[u] = "contents" => HeaderIn(Log', out'[u])
                      /\ opc'[u] = "flush" => RecordIn(Log', out'[u])
                      /\ opc'[u] \in {"check", "write"} => RecordIn(file, out'[u])
    BY DEF OutLogged, HeaderIn, RecordIn, Piece
  <2>1. Log' = Append(Log, Piece(out[t], part))
    BY <1>3, LogFacts DEF Write, Log
  <2>2. Log \in Seq(Pieces) /\ Log' = Log \o <<Piece(out[t], part)>>
        /\ <<Piece(out[t], part)>> \in Seq(Pieces)
    BY <1>3, <2>1, LogFacts
  <2>3. /\ opc[u] = "contents" => HeaderIn(Log, out[u])
        /\ opc[u] = "flush" => RecordIn(Log, out[u])
        /\ opc[u] \in {"check", "write"} => RecordIn(file, out[u])
    BY DEF OutLogged
  <2>4. CASE u # t
    <3>1. /\ HeaderIn(Log, out[u]) => HeaderIn(Log', out[u])
          /\ RecordIn(Log, out[u]) => RecordIn(Log', out[u])
      BY <2>2, Keeps
    <3> QED
      BY <1>1, <2>3, <2>4, <3>1
  <2>5. CASE u = t
    <3>1. /\ HeaderIn(Append(Log, Piece(out[t], "header")), out[t])
          /\ HeaderIn(Log, out[t]) => RecordIn(Append(Log, Piece(out[t], "contents")), out[t])
      BY <1>2, <2>2, Writes
    <3>2. CASE part = "header"
      BY <1>1, <2>1, <2>5, <3>1, <3>2
    <3>3. CASE part = "contents"
      BY <1>1, <2>1, <2>3, <2>5, <3>1, <3>3
    <3> QED
      BY <3>2, <3>3
  <2> QED
    BY <2>4, <2>5
<1> QED
  BY <1>1, <1>4, <1>5, <1>6

\* The FILE is flushed: everybody's records are in the file.
LEMMA OutFlushes ==
    ASSUME OutInv, NEW t \in Thread, Flush(t)
    PROVE  OutInv'
<1> USE DEF OutInv
<1> DEFINE l == IF out[t] \in Frame THEN "check" ELSE "idle"
<1>1. /\ opc' \in [Thread -> {"idle", "header", "contents", "flush", "check", "write"}]
      /\ out' \in [Thread -> Frame \cup Item \cup {Nothing}]
      /\ OutPlace'
      /\ \A u \in Thread \ {t} : opc'[u] = opc[u] /\ out'[u] = out[u]
      /\ opc'[t] = l
      /\ l # "idle" => out'[t] = out[t]
  BY GotoFacts DEF Flush
<1>2. file \in Seq(Pieces) /\ buffer \in Seq(Pieces) /\ opc[t] = "flush" /\ alive
      /\ wire' = wire /\ closed' = closed
  BY DEF OutTypeOK, Flush
<1>3. CASE closed
  <2>1. file' = file /\ buffer' = buffer /\ alive' \in BOOLEAN
    BY <1>3 DEF Flush
  <2>2. OutTypeOK'
    BY <1>1, <2>1 DEF OutTypeOK, Flush
  <2>3. OutLogged'
    BY <1>2, <1>3 DEF OutLogged
  <2>4. WireLogged'
    BY <1>2, <2>1, NothingAdded, WireKept
  <2> QED
    BY <1>1, <2>2, <2>3, <2>4
<1>4. CASE ~closed
  <2>1. file' = Log /\ file' = file \o buffer /\ buffer' = <<>> /\ alive' = alive
    BY <1>4 DEF Flush, Flushed, Log
  <2>2. OutTypeOK'
    BY <1>1, <1>2, <2>1 DEF OutTypeOK, Flush
  <2>3. Log' = Log
    BY <2>1, LogFacts DEF Log
  <2>4. OutLogged'
    <3> SUFFICES ASSUME NEW u \in Thread
                 PROVE  /\ opc'[u] = "contents" => HeaderIn(Log', out'[u])
                        /\ opc'[u] = "flush" => RecordIn(Log', out'[u])
                        /\ opc'[u] \in {"check", "write"} => RecordIn(file', out'[u])
      BY DEF OutLogged, HeaderIn, RecordIn, Piece
    <3>1. /\ opc[u] = "contents" => HeaderIn(Log, out[u])
          /\ opc[u] = "flush" => RecordIn(Log, out[u])
          /\ opc[u] \in {"check", "write"} => RecordIn(file, out[u])
      BY <1>2, <1>4 DEF OutLogged
    <3>2. RecordIn(file, out[u]) => RecordIn(file', out[u])
      BY <1>2, <2>1, Keeps
    <3>3. CASE u # t
      BY <1>1, <2>3, <3>1, <3>2, <3>3
    <3>4. CASE u = t
      BY <1>1, <1>2, <2>1, <3>1, <3>4
    <3> QED
      BY <3>3, <3>4
  <2>5. WireLogged'
    BY <1>2, <2>1, WireKept
  <2> QED
    BY <1>1, <2>2, <2>4, <2>5
<1> QED
  BY <1>3, <1>4

\* The frame has been checked.
LEMMA OutChecks ==
    ASSUME OutInv, NEW t \in Thread, NEW ok \in BOOLEAN, CheckAddrs(t, ok)
    PROVE  OutInv'
<1> USE DEF OutInv
<1> DEFINE l == IF ok THEN "write" ELSE "idle"
<1>0. out[t] \in Frame
  BY DEF OutPlace, CheckAddrs
<1>1. /\ opc' \in [Thread -> {"idle", "header", "contents", "flush", "check", "write"}]
      /\ out' \in [Thread -> Frame \cup Item \cup {Nothing}]
      /\ OutPlace'
      /\ \A u \in Thread \ {t} : opc'[u] = opc[u] /\ out'[u] = out[u]
      /\ opc'[t] = l
      /\ l # "idle" => out'[t] = out[t]
  BY <1>0, GotoFacts DEF CheckAddrs
<1>2. opc[t] = "check" /\ UNCHANGED <<buffer, file, closed, wire, tried, alive>>
  BY DEF CheckAddrs
<1>3. OutTypeOK'
  BY <1>1, <1>2 DEF OutTypeOK
<1>4. OutLogged'
  BY <1>1, <1>2, LoggedKept
<1>5. WireLogged'
  BY <1>2, NothingAdded, WireKept
<1> QED
  BY <1>1, <1>3, <1>4, <1>5

\* The frame leaves: its record is in the file, or the log is closed.
LEMMA OutLeaves ==
    ASSUME OutInv, NEW t \in Thread, WriteSocket(t)
    PROVE  OutInv'
<1> USE DEF OutInv
<1> DEFINE w == [frame |-> out[t], late |-> closed]
<1>1. /\ opc' \in [Thread -> {"idle", "header", "contents", "flush", "check", "write"}]
      /\ out' \in [Thread -> Frame \cup Item \cup {Nothing}]
      /\ OutPlace'
      /\ \A u \in Thread \ {t} : opc'[u] = opc[u] /\ out'[u] = out[u]
      /\ opc'[t] = "idle"
  BY GotoFacts DEF WriteSocket
<1>2. /\ alive /\ opc[t] = "write" /\ UNCHANGED <<buffer, file, closed, tried, alive>>
      /\ wire' = Append(wire, w) \/ wire' = wire
  BY DEF WriteSocket
<1>3. /\ w \in [frame : Frame, late : BOOLEAN]
      /\ wire \in Seq([frame : Frame, late : BOOLEAN])
  BY <1>2 DEF OutPlace, OutTypeOK
<1>4. OutTypeOK'
  <2>1. Append(wire, w) \in Seq([frame : Frame, late : BOOLEAN])
    BY <1>3, AppendProperties
  <2> QED
    BY <1>1, <1>2, <1>3, <2>1 DEF OutTypeOK
<1>5. OutLogged'
  BY <1>1, <1>2, LoggedKept
<1>6. WireLogged'
  <2>1. w.late \/ InFile(w.frame)
    BY <1>2 DEF OutLogged, RecordIn, InFile
  <2>2. ASSUME NEW k \in DOMAIN wire'
        PROVE  wire'[k].late \/ InFile(wire'[k].frame)
    <3>1. (k \in DOMAIN wire /\ wire'[k] = wire[k]) \/ wire'[k] = w
      BY <1>2, <1>3
    <3> QED
      BY <2>1, <3>1 DEF WireLogged
  <2> QED
    BY <1>2, <2>2 DEF WireLogged, InFile, Piece
<1> QED
  BY <1>1, <1>4, <1>5, <1>6

\* The invariant is inductive.
LEMMA OutStep1 ==
    ASSUME OutInv, [OutNext]_outVars
    PROVE  OutInv'
<1> USE DEF OutInv
<1>1. CASE \E t \in Thread, f \in Frame : SendPacket(t, f)
  <2>1. PICK t \in Thread, f \in Frame : SendPacket(t, f)
    BY <1>1
  <2>2. /\ tried' \in SUBSET Frame /\ opc[t] = "idle"
        /\ UNCHANGED <<buffer, file, closed, wire, alive>>
    BY <2>1 DEF SendPacket, OutTypeOK
  <2>3. CASE opc' = [opc EXCEPT ![t] = "header"] /\ out' = [out EXCEPT ![t] = f]
    BY <2>2, <2>3, OutBegins
  <2>4. CASE UNCHANGED <<opc, out>>
    BY <2>2, <2>4 DEF OutTypeOK, OutPlace, OutLogged, WireLogged, InFile, HeaderIn, RecordIn,
                      Log, Piece
  <2> QED
    BY <2>1, <2>3, <2>4 DEF SendPacket
<1>2. CASE \E x \in Item : LogReceived(x)
  <2>1. PICK x \in Item : LogReceived(x)
    BY <1>2
  <2>2. tried' \in SUBSET Frame
    BY <2>1 DEF LogReceived, OutTypeOK
  <2> QED
    BY <2>1, <2>2, OutBegins DEF LogReceived, Thread
<1>3. CASE \E t \in Thread : WriteHeader(t) \/ WriteContents(t)
  BY <1>3, OutWrites DEF WriteHeader, WriteContents
<1>4. CASE \E t \in Thread : Flush(t)
  BY <1>4, OutFlushes
<1>5. CASE \E t \in Thread : \E ok \in BOOLEAN : CheckAddrs(t, ok)
  BY <1>5, OutChecks
<1>6. CASE \E t \in Thread : WriteSocket(t)
  BY <1>6, OutLeaves
<1>7. CASE CloseLog
  <2>1. /\ file' = file \o buffer /\ buffer' = <<>> /\ closed' = TRUE
        /\ UNCHANGED <<opc, out, wire, tried, alive>>
    BY <1>7 DEF CloseLog, Flushed
  <2>2. buffer \in Seq(Pieces) /\ file \in Seq(Pieces)
    BY DEF OutTypeOK
  <2>3. OutTypeOK' /\ OutPlace' /\ OutLogged'
    BY <2>1, <2>2 DEF OutTypeOK, OutPlace, OutLogged
  <2> QED
    BY <2>1, <2>2, <2>3, WireKept
<1>8. CASE Die
  <2>1. /\ file' = file /\ buffer' = <<>> /\ alive' = FALSE
        /\ UNCHANGED <<opc, out, closed, wire, tried>>
    BY <1>8 DEF Die
  <2>2. buffer' \in Seq(Pieces)
    BY <2>1
  <2>3. OutTypeOK'
    BY <2>1, <2>2 DEF OutTypeOK
  <2>4. OutPlace' /\ OutLogged'
    BY <2>1 DEF OutPlace, OutLogged
  <2> QED
    BY <2>1, <2>3, <2>4, NothingAdded, WireKept
<1>9. CASE UNCHANGED outVars
  BY <1>9 DEF outVars, OutTypeOK, OutPlace, OutLogged, WireLogged, InFile, HeaderIn, RecordIn,
              Log, Piece
<1> QED
  BY <1>1, <1>2, <1>3, <1>4, <1>5, <1>6, <1>7, <1>8, <1>9 DEF OutNext, OutStep

\* Logging and sending keep their types.
THEOREM OutTypeCorrect == OutSpec => []OutTypeOK
<1>1. OutInv => OutTypeOK
  BY DEF OutInv
<1> QED
  BY <1>1, OutInit1, OutStep1, PTL DEF OutSpec

\* Whatever the two threads send and log, and whenever the process dies, the log is
\* ahead of the wire.
THEOREM LogAheadOfWire == OutSpec => []WireLogged
<1>1. OutInv => WireLogged
  BY DEF OutInv
<1> QED
  BY <1>1, OutInit1, OutStep1, PTL DEF OutSpec

-----------------------------------------------------------------------------
(* The client. *)

\* What main is at, and where that puts the list and the log.
Flow ==
    /\ task \in {"none", "hwinfo", "handling"} /\ queued \in BOOLEAN
    /\ Len(sent) <= MaxSent
    /\ phase = "handle" => got # <<>>
    /\ alive /\ task # "none" => phase = "handle"
    /\ closed => phase = "over"
    /\ hwpc = "none" => if_list = <<>>
    /\ hwpc = "entries" => task = "hwinfo"
    /\ hwpc = "mismatch" => task = "hwinfo" \/ phase = "over"

\* Nobody sends before the list is complete.
ReadyFirst ==
    /\ queued => hwpc = "ready"
    /\ opc["timeout"] # "idle" => hwpc = "ready"
    /\ out["main"] \in Frame => hwpc = "ready"

\* The server has an interface of that name and address.
Owned(f) == \E j \in DOMAIN hw : hw[j].name = f.iface /\ hw[j].addr = f.src

\* A frame that is past the check has the address of its interface.
Checked == \A t \in Thread : opc[t] = "write" => Owned(out[t])

\* A packet that main still logs is the one that it has at hand.
AtHand == task = "handling" /\ out["main"] \in Item => out["main"] = Received

ClientInv ==
    /\ ReaderInv /\ HwInv /\ OutInv
    /\ Flow /\ ReadyFirst /\ Checked /\ AtHand
    /\ SourceTrue /\ PacketLoggedFirst

\* What main handles is something that was received.
LEMMA ReceivedItem ==
    ASSUME ReaderInv, Flow, phase = "handle"
    PROVE  Received \in Item
<1>1. /\ got \in Seq(Message) /\ got # <<>> /\ Len(got) <= Len(sent) /\ Len(sent) <= MaxSent
      /\ Len(sent) \in Nat /\ MaxSent \in Nat
  BY ReaderAssumption DEF ReaderInv, ReaderTypeOK, Prefix, Flow
<1>2. Len(got) \in 1 .. MaxSent /\ Msg \in Message
  BY <1>1 DEF Msg
<1> QED
  BY <1>2, ItemAssumption DEF Received

\* Every step of the client is a step of its parts, or leaves them alone.
LEMMA Parts ==
    ASSUME ClientInv, [Next]_vars
    PROVE  [ReaderNext]_readerVars /\ [HwNext]_hwVars /\ [OutNext]_outVars
<1> USE DEF ClientInv, Thread
<1>1. CASE Server
  BY <1>1 DEF Server, ReaderNext
<1>2. CASE MainReads
  BY <1>2 DEF MainReads, ReaderNext
<1>3. CASE ReceiveHwInfo
  BY <1>3 DEF ReceiveHwInfo, HwNext
<1>4. CASE ReceiveClose
  BY <1>4 DEF ReceiveClose, ReaderNext
<1>5. CASE UnknownInterface
  BY <1>5 DEF UnknownInterface, ReaderNext, OutNext
<1>6. CASE NotForUs
  BY <1>6 DEF NotForUs, ReaderNext
<1>7. CASE ReceivePacket
  <2>1. Received \in Item
    BY <1>7, ReceivedItem DEF ReceivePacket, Handling
  <2> QED
    BY <1>7, <2>1 DEF ReceivePacket, OutNext
<1>8. CASE HwInfoStep
  BY <1>8 DEF HwInfoStep, HwNext
<1>9. CASE HwInfoDone
  BY <1>9 DEF HwInfoDone, ReaderNext
<1>10. CASE HandlePacket
  BY <1>10 DEF HandlePacket, OutNext
<1>11. CASE PacketHandled
  BY <1>11 DEF PacketHandled, ReaderNext
<1>12. ASSUME NEW t \in Thread, Output(t)
       PROVE  UNCHANGED <<readerVars, hwVars>> /\ OutStep(t)
  <2>1. AddrsMatch(out[t]) \in BOOLEAN
    BY DEF AddrsMatch
  <2> QED
    BY <1>12, <2>1 DEF Output, OutStep
<1>13. CASE Output("main") \/ Output("timeout")
  BY <1>12, <1>13 DEF OutNext
<1>14. CASE Destroy
  BY <1>14 DEF Destroy, OutNext
<1>15. CASE TimeoutStep /\ ~Output("timeout")
  BY <1>15 DEF TimeoutStep, OutNext, ReaderNext
<1>16. CASE UNCHANGED vars
  BY <1>16 DEF vars
<1> QED
  BY <1>1, <1>2, <1>3, <1>4, <1>5, <1>6, <1>7, <1>8, <1>9, <1>10, <1>11, <1>13, <1>14,
     <1>15, <1>16 DEF Next, MainStep

\* The parts of the client start as they do alone.
LEMMA ClientInit == ASSUME Init PROVE ClientInv
<1>1. ReaderInv /\ HwInv /\ OutInv
  BY ReaderInit1, HwInit1, OutInit1 DEF Init
<1>2. Flow
  <2>1. Len(sent) = 0 /\ MaxSent \in Nat
    BY ReaderAssumption DEF Init, ReaderInit
  <2>2. Len(sent) <= MaxSent
    BY <2>1
  <2> QED
    BY <2>2 DEF Init, ReaderInit, HwInit, OutInit, Flow
<1>3. ReadyFirst /\ Checked /\ AtHand
  BY OutputAssumption DEF Init, OutInit, ReadyFirst, Checked, AtHand, Thread
<1>4. SourceTrue /\ PacketLoggedFirst
  BY DEF Init, OutInit, SourceTrue, PacketLoggedFirst
<1> QED
  BY <1>1, <1>2, <1>3, <1>4 DEF ClientInv

\* What no step of a part undoes.
LEMMA Lasting ==
    ASSUME ClientInv, [ReaderNext]_readerVars, [HwNext]_hwVars, [OutNext]_outVars
    PROVE  /\ phase = "over" => phase' = "over"
           /\ alive' => alive
           /\ hwpc = "ready" => hwpc' = "ready"
           /\ hw' = hw
<1>1. phase = "over" => phase' = "over"
  BY DEF ReaderNext, readerVars, ServerWrites, ServerCloses, Reads, RecvLen, CheckLen, RecvBody,
         Dispatch, TakeByte, ReadAgain, StopReading, ConnectionReset
<1>2. alive' => alive
  BY DEF OutNext, outVars, OutStep, SendPacket, LogReceived, WriteHeader, WriteContents, Flush,
         CheckAddrs, WriteSocket, CloseLog, Die
<1>3. (hwpc = "ready" => hwpc' = "ready") /\ hw' = hw
  BY DEF HwNext, hwVars, HandleHwInfo, HandleEntry, VerifyRoutingTable
<1> QED
  BY <1>1, <1>2, <1>3

\* While main handles a packet and there is a list, the list is complete.
LEMMA ReadyToHandle ==
    ASSUME ClientInv, alive, task = "handling", if_list # <<>>
    PROVE  hwpc = "ready"
BY DEF ClientInv, Flow, HwInv, HwTypeOK

\* The file only grows.
LEMMA FileGrows ==
    ASSUME OutInv, [OutNext]_outVars
    PROVE  \A x : InFile(x) => InFile(x)'
<1>1. file \in Seq(Pieces) /\ buffer \in Seq(Pieces)
  BY DEF OutInv, OutTypeOK
<1>2. file' = file \/ file' = file \o buffer
  BY DEF OutNext, outVars, OutStep, SendPacket, LogReceived, WriteHeader, WriteContents, Flush,
         Flushed, CheckAddrs, WriteSocket, CloseLog, Die
<1>3. \A j \in DOMAIN file : j \in DOMAIN file' /\ file'[j] = file[j]
  <2>1. CASE file' = file
    BY <2>1
  <2>2. CASE file' = file \o buffer
    BY <1>1, <2>2
  <2> QED
    BY <1>2, <2>1, <2>2
<1> QED
  BY <1>3 DEF InFile, Piece

\* Main is at one message at a time, in every step of the client.
LEMMA FlowStep ==
    ASSUME ClientInv, [Next]_vars
    PROVE  Flow'
<1> USE DEF ClientInv, Flow
<1>0. /\ [ReaderNext]_readerVars /\ [HwNext]_hwVars /\ [OutNext]_outVars
      /\ phase = "over" => phase' = "over"
      /\ alive' => alive
      /\ got \in Seq(Message) /\ sent \in Seq(Message)
  BY Parts, Lasting DEF ReaderInv, ReaderTypeOK
<1>1. CASE Server
  <2>1. Len(sent') <= MaxSent
    BY <1>0, <1>1, ReaderAssumption DEF Server, ServerWrites, ServerCloses
  <2> QED
    BY <1>1, <2>1 DEF Server, ServerWrites, ServerCloses, hwVars, outVars
<1>2. CASE MainReads
  <2>1. phase \in {"len", "body"} /\ sent' = sent /\ UNCHANGED <<hwVars, outVars, task, queued>>
    BY <1>2 DEF MainReads, Reads, RecvLen, CheckLen, RecvBody, Dispatch, TakeByte,
                ConnectionReset
  <2>2. phase' = "handle" => got' # <<>>
    <3>1. phase' = "handle" => got' = Append(got, buf)
      BY <1>2 DEF MainReads, Reads, RecvLen, CheckLen, RecvBody, Dispatch, TakeByte,
                  ConnectionReset
    <3> QED
      BY <1>0, <3>1
  <2>3. task = "none" /\ ~closed
    BY <1>2, <2>1 DEF MainReads
  <2> QED
    BY <2>1, <2>2, <2>3 DEF hwVars, outVars
<1>3. CASE ReceiveHwInfo
  BY <1>3 DEF ReceiveHwInfo, Handling, HandleHwInfo, readerVars, outVars
<1>4. CASE ReceiveClose
  BY <1>4 DEF ReceiveClose, Handling, StopReading, hwVars, outVars
<1>5. CASE UnknownInterface
  BY <1>5 DEF UnknownInterface, Die, StopReading, hwVars
<1>6. CASE NotForUs
  BY <1>6 DEF NotForUs, Handling, ReadAgain, hwVars, outVars
<1>7. CASE ReceivePacket
  BY <1>7 DEF ReceivePacket, Handling, LogReceived, readerVars, hwVars
<1>8. CASE HwInfoStep
  BY <1>8 DEF HwInfoStep, HandleEntry, VerifyRoutingTable, readerVars, outVars
<1>9. CASE HwInfoDone
  BY <1>9 DEF HwInfoDone, ReadAgain, StopReading, hwVars, outVars
<1>10. CASE HandlePacket
  BY <1>10 DEF HandlePacket, SendPacket, readerVars, hwVars
<1>11. CASE PacketHandled
  BY <1>11 DEF PacketHandled, ReadAgain, hwVars, outVars
<1>12. CASE \E t \in Thread : Output(t)
  <2>1. UNCHANGED <<readerVars, hwVars, task, queued>> /\ closed' = closed
    BY <1>12 DEF Output, WriteHeader, WriteContents, Flush, CheckAddrs, WriteSocket
  <2> QED
    BY <1>0, <2>1 DEF readerVars, hwVars
<1>13. CASE Destroy
  BY <1>0, <1>13 DEF Destroy, CloseLog, Die, readerVars, hwVars
<1>14. CASE TimeoutStep /\ ~Output("timeout")
  BY <1>14 DEF TimeoutStep, SendPacket, Die, StopReading, readerVars, hwVars
<1>15. CASE UNCHANGED vars
  BY <1>15 DEF vars, readerVars, hwVars, outVars
<1> QED
  BY <1>1, <1>2, <1>3, <1>4, <1>5, <1>6, <1>7, <1>8, <1>9, <1>10, <1>11, <1>12, <1>13,
     <1>14, <1>15 DEF Next, MainStep, Thread

\* What a step does to the places of the threads: an output step of t concerns t alone,
\* and takes a frame past the check only with the address of its interface.
LEMMA Moves ==
    ASSUME ClientInv, NEW t \in Thread, Output(t)
    PROVE  /\ alive /\ UNCHANGED <<readerVars, hwVars, task, queued>>
           /\ \A u \in Thread \ {t} : opc'[u] = opc[u] /\ out'[u] = out[u]
           /\ opc[t] # "idle"
           /\ opc'[t] # "idle" => out'[t] = out[t]
           /\ opc'[t] = "idle" => out'[t] = Nothing
           /\ opc'[t] = "write" => opc[t] = "check" /\ AddrsMatch(out[t])
<1> USE DEF ClientInv, OutInv
<1>1. /\ opc \in [Thread -> {"idle", "header", "contents", "flush", "check", "write"}]
      /\ out \in [Thread -> Frame \cup Item \cup {Nothing}]
  BY DEF OutTypeOK
<1>2. PICK l \in {"idle", "contents", "flush", "check", "write"} :
        Goto(t, l) /\ (l = "write" => opc[t] = "check" /\ AddrsMatch(out[t]))
  BY DEF Output, WriteHeader, WriteContents, Flush, CheckAddrs, WriteSocket
<1>3. alive /\ UNCHANGED <<readerVars, hwVars, task, queued>> /\ opc[t] # "idle"
  BY DEF Output, WriteHeader, WriteContents, Flush, CheckAddrs, WriteSocket
<1> QED
  BY <1>1, <1>2, <1>3 DEF Goto

\* What a frame that begins its way does.
LEMMA Begins ==
    ASSUME ClientInv, NEW t \in Thread, NEW f \in Frame, SendPacket(t, f)
    PROVE  /\ alive /\ opc[t] = "idle" /\ out[t] = Nothing
           /\ \A u \in Thread \ {t} : opc'[u] = opc[u] /\ out'[u] = out[u]
           /\ opc'[t] # "write"
           /\ out'[t] \in Frame \cup {Nothing}
           /\ UNCHANGED <<buffer, file, closed, wire, alive>>
<1> USE DEF ClientInv, OutInv
<1>1. /\ opc \in [Thread -> {"idle", "header", "contents", "flush", "check", "write"}]
      /\ out \in [Thread -> Frame \cup Item \cup {Nothing}]
  BY DEF OutTypeOK
<1> QED
  BY <1>1 DEF SendPacket, OutPlace

TimeoutSends ==
    /\ queued /\ \E f \in Frame : SendPacket("timeout", f)
    /\ UNCHANGED <<readerVars, hwVars, task, queued>>

\* main logs the packet that it has read.
LEMMA Logs ==
    ASSUME ClientInv, ReceivePacket
    PROVE  /\ task = "none" /\ phase = "handle"
           /\ out'["main"] = Received /\ Received' = Received /\ Received \in Item
           /\ opc'["main"] = "header"
           /\ opc'["timeout"] = opc["timeout"] /\ out'["timeout"] = out["timeout"]
           /\ UNCHANGED <<readerVars, hwVars, queued, file, closed, wire, alive>>
<1>1. /\ opc \in [Thread -> {"idle", "header", "contents", "flush", "check", "write"}]
      /\ out \in [Thread -> Frame \cup Item \cup {Nothing}]
  BY DEF ClientInv, OutInv, OutTypeOK
<1>2. Received \in Item
  BY ReceivedItem DEF ClientInv, ReceivePacket, Handling
<1> QED
  BY <1>1, <1>2 DEF ReceivePacket, Handling, LogReceived, readerVars, Received, Msg, Thread

\* The other steps leave the threads where they are.
LEMMA Rests ==
    ASSUME ClientInv, [Next]_vars,
           \A t \in Thread : ~Output(t), ~HandlePacket, ~TimeoutSends, ~ReceivePacket
    PROVE  UNCHANGED <<opc, out, wire>>
BY DEF Next, MainStep, TimeoutStep, TimeoutSends, vars, outVars, Server, MainReads, ReceiveHwInfo,
       ReceiveClose, UnknownInterface, NotForUs, HwInfoStep, HwInfoDone, PacketHandled, Destroy,
       CloseLog, Die, Thread

\* Nobody sends before the list of interfaces is complete.
LEMMA ReadyStep ==
    ASSUME ClientInv, [Next]_vars
    PROVE  ReadyFirst'
<1>0. ReadyFirst /\ OutTypeOK /\ (hwpc = "ready" => hwpc' = "ready")
  BY Parts, Lasting DEF ClientInv, OutInv
<1>1. queued' => hwpc' = "ready"
  <2>1. CASE PacketHandled
    BY <1>0, <2>1, ReadyToHandle DEF PacketHandled, hwVars, ReadyFirst
  <2>2. CASE ~PacketHandled
    <3>1. queued' = queued
      BY <2>2 DEF Next, MainStep, TimeoutStep, vars, Server, MainReads, ReceiveHwInfo,
                  ReceiveClose, UnknownInterface, NotForUs, ReceivePacket, HwInfoStep,
                  HwInfoDone, HandlePacket, Destroy, Output
    <3> QED
      BY <1>0, <3>1 DEF ReadyFirst
  <2> QED
    BY <2>1, <2>2
<1>2. (opc'["timeout"] # "idle" => hwpc' = "ready") /\ (out'["main"] \in Frame => hwpc' = "ready")
  <2>1. CASE \E t \in Thread : Output(t)
    BY <1>0, <2>1, Moves, OutputAssumption DEF ReadyFirst, Thread
  <2>2. CASE HandlePacket
    <3>1. hwpc = "ready"
      BY <2>2, ReadyToHandle DEF HandlePacket, SendPacket
    <3> QED
      BY <1>0, <3>1
  <2>3. CASE TimeoutSends
    BY <1>0, <2>3 DEF TimeoutSends, ReadyFirst
  <2>4. CASE ReceivePacket
    BY <1>0, <2>4, Logs, OutputAssumption DEF ReadyFirst
  <2> QED
    BY <1>0, <2>1, <2>2, <2>3, <2>4, Rests DEF ReadyFirst
<1> QED
  BY <1>1, <1>2 DEF ReadyFirst

\* What sr_ether_addrs_match_interface lets through is the server's.
LEMMA MatchOwned ==
    ASSUME ClientInv, NEW t \in Thread, out[t] \in Frame, AddrsMatch(out[t])
    PROVE  Owned(out[t])
<1>1. hwpc = "ready"
  <2>1. opc[t] # "idle"
    BY OutputAssumption DEF ClientInv, OutInv, OutPlace
  <2> QED
    BY <2>1 DEF ClientInv, ReadyFirst, Thread
<1>2. if_list = hw
  BY <1>1, BuiltIsHardware DEF ClientInv, ListIsHardware
<1> QED
  BY <1>2 DEF AddrsMatch, Found, Owned

\* The list does not change between the check of a frame and its write.
LEMMA CheckedStep ==
    ASSUME ClientInv, [Next]_vars
    PROVE  Checked'
<1>0. Checked /\ OutPlace /\ hw' = hw
  BY Parts, Lasting DEF ClientInv, OutInv
<1>1. \A f : Owned(f) <=> Owned(f)'
  BY <1>0 DEF Owned
<1>2. CASE \E t \in Thread : Output(t)
  <2>1. PICK t \in Thread : Output(t)
    BY <1>2
  <2>2. opc'[t] = "write" => Owned(out[t]) /\ out'[t] = out[t]
    BY <1>0, <2>1, Moves, MatchOwned DEF OutPlace
  <2>3. \A u \in Thread \ {t} : opc'[u] = opc[u] /\ out'[u] = out[u]
    BY <2>1, Moves
  <2>4. ASSUME NEW u \in Thread, opc'[u] = "write" PROVE Owned(out'[u])
    BY <1>0, <2>2, <2>3, <2>4 DEF Checked
  <2> QED
    BY <1>1, <2>4 DEF Checked
<1>3. CASE \E t \in Thread, f \in Frame : SendPacket(t, f)
  <2>1. PICK t \in Thread, f \in Frame : SendPacket(t, f)
    BY <1>3
  <2>2. opc'[t] # "write" /\ \A u \in Thread \ {t} : opc'[u] = opc[u] /\ out'[u] = out[u]
    BY <2>1, Begins
  <2>4. ASSUME NEW u \in Thread, opc'[u] = "write" PROVE Owned(out'[u])
    BY <1>0, <2>2, <2>4 DEF Checked
  <2> QED
    BY <1>1, <2>4 DEF Checked
<1>4. CASE ReceivePacket
  <2>1. ASSUME NEW u \in Thread, opc'[u] = "write" PROVE Owned(out'[u])
    BY <1>0, <1>4, <2>1, Logs DEF Checked, Thread
  <2> QED
    BY <1>1, <2>1 DEF Checked
<1>5. CASE UNCHANGED <<opc, out, wire>>
  BY <1>0, <1>1, <1>5 DEF Checked
<1> QED
  BY <1>2, <1>3, <1>4, <1>5, Rests DEF HandlePacket, TimeoutSends, Thread

\* What leaves has been checked.
LEMMA SourceStep ==
    ASSUME ClientInv, [Next]_vars
    PROVE  SourceTrue'
<1>0. SourceTrue /\ Checked /\ hw' = hw /\ wire \in Seq([frame : Frame, late : BOOLEAN])
  BY Parts, Lasting DEF ClientInv, OutInv, OutTypeOK
<1>1. CASE wire' = wire
  BY <1>0, <1>1 DEF SourceTrue
<1>2. CASE \E t \in Thread : WriteSocket(t) /\ wire' # wire
  <2>1. PICK t \in Thread : WriteSocket(t) /\ wire' # wire
    BY <1>2
  <2>2. /\ opc[t] = "write" /\ Owned(out[t]) /\ out[t] \in Frame /\ closed \in BOOLEAN
        /\ wire' = Append(wire, [frame |-> out[t], late |-> closed])
    BY <1>0, <2>1 DEF WriteSocket, Checked, ClientInv, OutInv, OutPlace, OutTypeOK
  <2> DEFINE w == [frame |-> out[t], late |-> closed]
  <2>3. w \in [frame : Frame, late : BOOLEAN] /\ w.frame = out[t]
    BY <2>2
  <2> HIDE DEF w
  <2>4. ASSUME NEW k \in DOMAIN wire' PROVE Owned(wire'[k].frame)
    <3>1. (k \in DOMAIN wire /\ wire'[k] = wire[k]) \/ wire'[k] = w
      BY <1>0, <2>2, <2>3 DEF w
    <3> QED
      BY <1>0, <2>2, <2>3, <3>1 DEF SourceTrue, Owned
  <2> QED
    BY <1>0, <2>4 DEF SourceTrue, Owned
<1>3. wire' = wire \/ \E t \in Thread : WriteSocket(t)
  BY Parts DEF OutNext, outVars, OutStep, SendPacket, LogReceived, WriteHeader, WriteContents,
               Flush, CheckAddrs, CloseLog, Die
<1> QED
  BY <1>1, <1>2, <1>3

\* The packet at hand stays the same while it is handled.
LEMMA StaysAtHand ==
    ASSUME ClientInv, [Next]_vars, ~ReceivePacket, task' = "handling"
    PROVE  task = "handling" /\ Received' = Received
<1>1. task = "handling"
  BY DEF Next, MainStep, TimeoutStep, vars, Server, MainReads, ReceiveHwInfo, ReceiveClose,
         UnknownInterface, NotForUs, HwInfoStep, HwInfoDone, HandlePacket, PacketHandled, Destroy,
         Output
<1>2. ~MainReads
  BY <1>1 DEF ClientInv, Flow, MainReads, Reads, RecvLen, CheckLen, RecvBody, Dispatch,
              ConnectionReset
<1>3. got' = got
  BY <1>2 DEF Next, MainStep, TimeoutStep, vars, readerVars, Server, ServerWrites, ServerCloses,
              ReceiveHwInfo, ReceiveClose, UnknownInterface, NotForUs, HwInfoStep, HwInfoDone,
              HandlePacket, PacketHandled, Destroy, Output, ReadAgain, StopReading
<1> QED
  BY <1>1, <1>3 DEF Received, Msg

\* Main logs the packet that it handles, and reads on only after that.
LEMMA AtHandStep ==
    ASSUME ClientInv, [Next]_vars
    PROVE  AtHand'
<1>1. CASE ReceivePacket
  BY <1>1, Logs DEF AtHand
<1>2. CASE ~ReceivePacket
  <2> SUFFICES ASSUME task' = "handling", out'["main"] \in Item
               PROVE  out'["main"] = Received'
    BY DEF AtHand
  <2>1. task = "handling" /\ Received' = Received
    BY <1>2, StaysAtHand
  <2>2. out'["main"] = out["main"]
    <3>1. CASE \E t \in Thread : Output(t)
      BY <3>1, Moves, OutputAssumption DEF Thread
    <3>2. CASE HandlePacket
      BY <3>2, Begins, OutputAssumption DEF HandlePacket, Thread
    <3>3. CASE TimeoutSends
      BY <3>3, Begins DEF TimeoutSends, Thread
    <3> QED
      BY <1>2, <3>1, <3>2, <3>3, Rests
  <2> QED
    BY <2>1, <2>2 DEF ClientInv, AtHand
<1> QED
  BY <1>1, <1>2

\* The packet at hand gets into the file before main lets go of it.
LEMMA LoggedFirstStep ==
    ASSUME ClientInv, [Next]_vars
    PROVE  PacketLoggedFirst'
<1>1. CASE ReceivePacket
  BY <1>1, Logs DEF PacketLoggedFirst
<1>2. CASE ~ReceivePacket
  <2> SUFFICES ASSUME task' = "handling", out'["main"] \notin Item
               PROVE  InFile(Received)'
    BY DEF PacketLoggedFirst
  <2>1. task = "handling" /\ Received' = Received
    BY <1>2, StaysAtHand
  <2>2. CASE InFile(Received)
    <3>1. \A x : InFile(x) => InFile(x)'
      BY Parts, FileGrows DEF ClientInv
    <3> QED
      BY <2>1, <2>2, <3>1 DEF InFile
  <2>3. CASE ~InFile(Received)
    <3>1. out["main"] = Received /\ Received \in Item
      BY <2>1, <2>3 DEF ClientInv, PacketLoggedFirst, AtHand
    <3>2. out'["main"] # out["main"]
      BY <3>1
    <3>3. Output("main")
      <4>1. ~HandlePacket
        BY <3>1, Begins, OutputAssumption DEF HandlePacket, Thread
      <4>2. TimeoutSends => out'["main"] = out["main"]
        BY Begins DEF TimeoutSends, Thread
      <4>3. Output("timeout") => out'["main"] = out["main"]
        BY Moves DEF Thread
      <4> QED
        BY <1>2, <3>2, <4>1, <4>2, <4>3, Rests DEF Thread
    <3>4. out["main"] \notin Frame
      BY <3>1, OutputAssumption
    <3>5. opc["main"] \notin {"check", "write"}
      BY <3>4 DEF ClientInv, OutInv, OutPlace, Thread
    <3>6. Flush("main")
      BY <3>2, <3>3, <3>5 DEF Output, WriteHeader, WriteContents, CheckAddrs, WriteSocket, Goto
    <3>7. alive /\ ~closed /\ opc["main"] = "flush"
      BY <2>1, <3>6 DEF ClientInv, Flow, Flush
    <3>8. RecordIn(Log, Received)
      BY <3>1, <3>7 DEF ClientInv, OutInv, OutLogged, Thread
    <3>9. file' = Log
      BY <3>6, <3>7 DEF Flush, Flushed, Log
    <3> QED
      BY <2>1, <3>8, <3>9 DEF InFile, RecordIn
  <2> QED
    BY <2>2, <2>3
<1> QED
  BY <1>1, <1>2

\* The invariant is inductive.
LEMMA ClientStep ==
    ASSUME ClientInv, [Next]_vars
    PROVE  ClientInv'
<1>1. ReaderInv' /\ HwInv' /\ OutInv'
  BY Parts, ReaderStep, HwStep, OutStep1 DEF ClientInv
<1> QED
  BY <1>1, FlowStep, ReadyStep, CheckedStep, AtHandStep, SourceStep, LoggedFirstStep
     DEF ClientInv

\* What the run io checks, liveness aside, follows from the invariant.
LEMMA ClientPromises ==
    ASSUME ClientInv
    PROVE  TypeOK /\ ListIsHardware /\ WireLogged /\ SourceTrue /\ PacketLoggedFirst
BY BuiltIsHardware DEF ClientInv, ReaderInv, HwInv, OutInv, Flow, TypeOK

\* The client keeps its types.
THEOREM ClientTypeCorrect == Spec => []TypeOK
BY ClientInit, ClientStep, ClientPromises, PTL DEF Spec

\* Whatever the threads do, what leaves carries the source address that the server
\* announced for its interface.
THEOREM SourceAddresses == Spec => []SourceTrue
BY ClientInit, ClientStep, ClientPromises, PTL DEF Spec

\* A packet is in the file before sr_handlepacket gets it.
THEOREM LoggedBeforeHandled == Spec => []PacketLoggedFirst
BY ClientInit, ClientStep, ClientPromises, PTL DEF Spec

\* What the parts promise they keep in the client: the log is ahead of the wire, and
\* the list is the server's.
THEOREM PartsKeepPromises == Spec => [](WireLogged /\ ListIsHardware)
BY ClientInit, ClientStep, ClientPromises, PTL DEF Spec

\* So does the reader: the client gets the server's messages whole and in order.
THEOREM ClientReadsInOrder == Spec => InOrder
<1>1. ClientInv /\ [Next]_vars => [M!Next]_(M!vars)
  BY Parts, ReaderImplements DEF ClientInv
<1>2. Init => M!Init
  BY ReaderStarts DEF Init
<1> QED
  BY <1>1, <1>2, ClientInit, ClientStep, PTL DEF Spec, InOrder, M!Safety

=============================================================================
