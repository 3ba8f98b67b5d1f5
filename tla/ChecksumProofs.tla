--------------------------- MODULE ChecksumProofs ---------------------------
(* Theorems about Checksum, for bytes of any size, packets of any length and   *)
(* any contents.                                                               *)
EXTENDS Checksum, FiniteSetTheorems, TLAPS

-----------------------------------------------------------------------------
(* Arithmetic. *)

\* A word has at least four values.
LEMMA WordSize ==
    /\ Base \in Nat /\ Base > 1
    /\ Word \in Nat /\ Ones \in Nat /\ Word = Ones + 1
    /\ Ones >= 3 /\ Ones >= Base
<1>1. Base \in Nat /\ Base > 1
  BY ChecksumAssumption
<1>2. Base * Base >= 2 * Base
  BY <1>1, SMT
<1>3. Base * Base \in Nat
  BY <1>1, SMT
<1>. QED
  BY <1>1, <1>2, <1>3, SMT DEF Word, Ones

\* The register holds a word for every byte of a message, and one more.
LEMMA RegSize ==
    /\ Reg \in Nat
    /\ \A p \in Packets : Word * (Len(p) + 1) <= Reg
<1>1. Word \in Nat
  BY WordSize
<1>2. \A n \in Nat : n <= Word => Word * n <= Word * Word
  BY <1>1, SMT
<1>3. ASSUME NEW p \in Packets
      PROVE  Len(p) + 1 \in Nat /\ Len(p) + 1 <= Word
  <2>1. p \in Seq(Byte) /\ Len(p) < Word
    BY ChecksumAssumption
  <2>2. Len(p) \in Nat
    BY <2>1
  <2>. QED
    BY <2>1, <2>2, <1>1, SMT
<1>4. Word * Word \in Nat
  BY <1>1, SMT
<1>. QED
  BY <1>2, <1>3, <1>4 DEF Reg

\* Quotient and remainder.
LEMMA Division ==
    ASSUME NEW a \in Nat, NEW b \in Nat \ {0}
    PROVE  /\ a \div b \in Nat /\ a % b \in 0 .. b - 1
           /\ a = b * (a \div b) + (a % b)
  BY SMT

\* A multiple leaves no remainder.
LEMMA Multiple ==
    ASSUME NEW m \in Nat \ {0}, NEW n \in Nat
    PROVE  n * m \in Nat /\ (n * m) % m = 0
<1>1. n * m \in Nat
  BY SMT
<1>2. PICK q \in Nat, r \in 0 .. m - 1 : n * m = m * q + r /\ r = (n * m) % m
  BY <1>1, Division
<1>3. m * (n - q) = r
  BY <1>2, SMT
<1>4. n - q = 0
  <2>1. CASE n - q >= 1
    <3>1. m * (n - q) >= m
      BY <2>1, <1>2, SMT
    <3>. QED
      BY <3>1, <1>2, <1>3, SMT
  <2>2. CASE n - q <= -1
    <3>1. m * (n - q) <= -m
      BY <2>2, <1>2, SMT
    <3>. QED
      BY <3>1, <1>2, <1>3, SMT
  <2>. QED
    BY <2>1, <2>2, <1>2, SMT
<1>. QED
  BY <1>1, <1>2, <1>3, <1>4, SMT

\* Multiples add up.
LEMMA Distribute ==
    ASSUME NEW m \in Int, NEW a \in Int, NEW b \in Int
    PROVE  a * m + b * m = (a + b) * m
  BY SMT

\* A field holds what is stored in it.
LEMMA StoredValue ==
    ASSUME NEW p \in Seq(Byte), SumAt < Len(p), NEW v \in 0 .. Ones
    PROVE  /\ WithValue(p, v) \in Seq(Byte) /\ Len(WithValue(p, v)) = Len(p)
           /\ Value(WithValue(p, v)) = v
<1>1. Base \in Nat \ {0} /\ v \in Nat /\ v < Base * Base
  BY WordSize, SMT DEF Word, Ones
<1>2. PICK q \in Nat, r \in 0 .. Base - 1 :
          q = v \div Base /\ r = v % Base /\ v = Base * q + r
  BY <1>1, Division
<1>3. q < Base
  <2>1. SUFFICES ASSUME q >= Base PROVE FALSE
    BY <1>1, <1>2, SMT
  <2>2. Base * q >= Base * Base
    BY <2>1, <1>1, <1>2, SMT
  <2>. QED
    BY <2>2, <1>1, <1>2, SMT
<1>4. q \in Byte /\ r \in Byte
  BY <1>1, <1>2, <1>3, SMT DEF Byte
<1>5. SumAt \in 1 .. Len(p) /\ SumAt + 1 \in 1 .. Len(p) /\ SumAt # SumAt + 1
  BY ChecksumAssumption, SMT
<1>6. WithValue(p, v) = [p EXCEPT ![SumAt] = q, ![SumAt + 1] = r]
  BY <1>2 DEF WithValue
<1>. QED
  BY <1>2, <1>4, <1>5, <1>6, SMT DEF Value

\* Bytes and words are in their ranges.
LEMMA SummandType ==
    ASSUME NEW p \in Seq(Byte), NEW k \in 1 .. Len(p)
    PROVE  Summand(p, k) \in 0 .. Ones
<1>1. p[k] \in Byte /\ (k < Len(p) => p[k + 1] \in Byte) /\ Len(p) \in Nat
  BY SMT
<1>2. PICK b \in Byte : Summand(p, k) = Base * p[k] + b
  <2>1. 0 \in Byte
    BY WordSize, SMT DEF Byte
  <2>. QED
    BY <1>1, <2>1 DEF Summand
<1>3. p[k] \in Nat /\ b \in Nat /\ p[k] <= Base - 1 /\ b <= Base - 1
  BY <1>1, <1>2, WordSize, SMT DEF Byte
<1>4. Base * p[k] <= Base * (Base - 1) /\ Base * p[k] \in Nat
  BY <1>3, WordSize, SMT
<1>. QED
  BY <1>2, <1>3, <1>4, WordSize, SMT DEF Ones, Word

\* Folding takes away a multiple of 0xffff, and never leaves nothing of something.
LEMMA FoldedValue ==
    ASSUME NEW s \in Nat
    PROVE  /\ Folded(s) \in Nat /\ Folded(s) <= s
           /\ Folded(s) = 0 <=> s = 0
           /\ \E q \in Nat : s = Folded(s) + q * Ones
<1>1. PICK q \in Nat, r \in 0 .. Word - 1 :
          q = s \div Word /\ r = s % Word /\ s = Word * q + r
  <2>1. Word \in Nat \ {0}
    BY WordSize, SMT
  <2>. QED
    BY <2>1, Division
<1>2. Folded(s) = q + r
  BY <1>1 DEF Folded
<1> DEFINE M == Ones
<1>3. Word * q = q + q * M /\ q * M \in Nat
  <2>1. Word = M + 1 /\ M \in Nat
    BY WordSize
  <2> HIDE DEF M
  <2>. QED
    BY <2>1, <1>1, SMT
<1>4. q = 0 => q * M = 0
  BY WordSize, SMT
<1> HIDE DEF M
<1>5. s = Folded(s) + q * M /\ Folded(s) \in Nat /\ Folded(s) <= s
  BY <1>1, <1>2, <1>3, SMT
<1>6. Folded(s) = 0 <=> s = 0
  BY <1>1, <1>2, <1>3, <1>4, <1>5, SMT
<1>. QED
  BY <1>1, <1>5, <1>6 DEF M

-----------------------------------------------------------------------------
(* The inductive invariant. *)

\* The register holds every packet's sum.
Fits == Word * (Len(pkt) + 1) <= Reg

\* While words are added nothing is lost.
Adding == pc = "add" => sum = total /\ total <= Word * (i - 1)

\* The sum is the total in one's complement, and 0 only if that is 0.
Congruent ==
    /\ total = 0 <=> sum = 0
    /\ \E k \in Nat : total = sum + k * Ones

Inv ==
    /\ TypeOK
    /\ Fits
    /\ Adding
    /\ Congruent
    /\ AcceptsRight
    /\ SentRight

\* The router starts with an untouched sum.
LEMMA InitInv == Init => Inv
<1>1. SUFFICES ASSUME NEW p \in Packets,
                      pkt = WithValue(p, 0), field = Value(p),
                      job = "test", pc = "add", i = 1, sum = 0, total = 0
               PROVE  Inv
  BY DEF Init
<1>2. p \in Seq(Byte) /\ SumAt < Len(p) /\ TtlAt <= Len(p) /\ Word * (Len(p) + 1) <= Reg
  BY <1>1, ChecksumAssumption, RegSize
<1>3. pkt \in Seq(Byte) /\ Len(pkt) = Len(p)
  BY <1>1, <1>2, StoredValue, WordSize, SMT
<1>4. field \in 0 .. Ones
  <2>1. p[SumAt] \in 0 .. Base - 1 /\ p[SumAt + 1] \in 0 .. Base - 1
    BY <1>2, ChecksumAssumption, SMT DEF Byte
  <2>2. Base * p[SumAt] <= Base * (Base - 1) /\ Base * p[SumAt] \in Nat
    BY <2>1, WordSize, SMT
  <2>. QED
    BY <1>1, <2>1, <2>2, WordSize, SMT DEF Value, Ones, Word
<1>5. Word * (Len(p) + 1) >= 1 /\ Reg \in Nat /\ Len(p) \in Nat
  <2>1. Len(p) \in Nat
    BY <1>2, SMT
  <2>. QED
    BY <2>1, WordSize, RegSize, SMT
<1>6. TypeOK
  <2>1. Reg >= 1
    <3> DEFINE x == Word * (Len(p) + 1)
    <3>1. x >= 1 /\ x <= Reg
      BY <1>2, <1>5
    <3>2. x \in Int
      BY <1>5, WordSize, SMT
    <3> HIDE DEF x
    <3>. QED
      BY <3>1, <3>2, <1>5, SMT
  <2>2. i \in 1 .. Len(pkt) + 2 /\ sum \in 0 .. Reg - 1 /\ total \in Nat
    BY <2>1, <1>1, <1>3, <1>5, SMT
  <2>. QED
    BY <2>2, <1>1, <1>2, <1>3, <1>4 DEF TypeOK
<1>7. Fits
  BY <1>2, <1>3 DEF Fits
<1>8. Adding /\ Congruent
  <2>1. Word * (i - 1) = 0 /\ 0 = 0 + 0 * Ones /\ 0 <= 0 /\ 0 \in Nat
    BY <1>1, WordSize, SMT
  <2>. QED
    BY <1>1, <2>1 DEF Adding, Congruent
<1>. QED
  BY <1>1, <1>6, <1>7, <1>8 DEF Inv, AcceptsRight, SentRight

\* Adding a word neither overflows the register nor loses anything.
LEMMA AddInv == Inv /\ Add => Inv'
<1>1. SUFFICES ASSUME Inv, Add PROVE Inv'
  OBVIOUS
<1>2. /\ pkt \in Seq(Byte) /\ Len(pkt) \in Nat /\ i \in 1 .. Len(pkt)
      /\ sum = total /\ total \in Nat /\ total <= Word * (i - 1) /\ Reg \in Nat
      /\ Word * (Len(pkt) + 1) <= Reg
  BY <1>1, RegSize, SMT DEF Inv, TypeOK, Adding, Add, Fits
<1> DEFINE w == Summand(pkt, i)
<1>3. w \in 0 .. Ones
  BY <1>2, SummandType
<1> HIDE DEF w
<1>4. Word * (i - 1) + Word = Word * i /\ Word * i <= Word * (Len(pkt) + 1)
      /\ Word * i <= Word * (i + 1)
  BY <1>2, WordSize, SMT
<1>5. sum + w < Reg /\ sum + w \in Nat /\ total + w <= Word * (i + 1)
  BY <1>2, <1>3, <1>4, WordSize, SMT
<1>6. sum' = sum + w /\ total' = total + w
  <2>1. sum' = (sum + w) % Reg /\ total' = total + w
    BY <1>1 DEF Add, Register, w
  <2>2. (sum + w) % Reg = sum + w
    BY <1>5, <1>2, SMT
  <2>. QED
    BY <2>1, <2>2
<1>7. i' = i + 2 /\ UNCHANGED <<pkt, field, job, pc>> /\ pc = "add"
  BY <1>1 DEF Add
<1>8. TypeOK'
  <2>1. i' \in 1 .. Len(pkt) + 2 /\ sum' \in 0 .. Reg - 1 /\ total' \in Nat
    BY <1>2, <1>3, <1>5, <1>6, <1>7, SMT
  <2>. QED
    BY <1>1, <1>7, <2>1 DEF Inv, TypeOK
<1>9. Fits'
  BY <1>1, <1>7 DEF Inv, Fits
<1>10. Adding'
  BY <1>2, <1>5, <1>6, <1>7, SMT DEF Adding
<1>11. Congruent'
  <2>1. total' = sum' + 0 * Ones
    BY <1>2, <1>5, <1>6, WordSize, SMT
  <2>. QED
    BY <2>1, <1>2, <1>6 DEF Congruent
<1>. QED
  BY <1>7, <1>8, <1>9, <1>10, <1>11 DEF Inv, AcceptsRight, SentRight

\* Folding.
LEMMA FoldInv == Inv /\ Fold => Inv'
<1>1. SUFFICES ASSUME Inv, Fold PROVE Inv'
  OBVIOUS
<1>2. sum \in Nat /\ total \in Nat /\ sum < Reg /\ Reg \in Nat
  BY <1>1, RegSize, SMT DEF Inv, TypeOK
<1>3. pc = "fold" /\ sum' = Folded(sum) /\ UNCHANGED <<pkt, field, job, pc, i, total>>
  BY <1>1 DEF Fold
<1> DEFINE M == Ones
<1>4. PICK k \in Nat : total = sum + k * M
  BY <1>1 DEF Inv, Congruent
<1>5. PICK q \in Nat : sum = sum' + q * M
  BY <1>2, <1>3, FoldedValue
<1>6. sum' \in Nat /\ sum' <= sum /\ (sum' = 0 <=> sum = 0)
  BY <1>2, <1>3, FoldedValue
<1>7. M \in Nat
  BY WordSize
<1> HIDE DEF M
<1>8. q * M + k * M = (q + k) * M /\ q * M \in Nat /\ k * M \in Nat
  BY <1>4, <1>5, <1>7, SMT
<1>9. total = sum' + (q + k) * M /\ q + k \in Nat
  BY <1>2, <1>4, <1>5, <1>6, <1>8, SMT
<1>10. Congruent'
  BY <1>1, <1>3, <1>6, <1>9 DEF Inv, Congruent, M
<1>11. TypeOK'
  <2>1. sum' \in 0 .. Reg - 1
    BY <1>2, <1>6, SMT
  <2>. QED
    BY <1>1, <1>3, <2>1 DEF Inv, TypeOK
<1>. QED
  BY <1>1, <1>3, <1>10, <1>11 DEF Inv, Fits, Adding, AcceptsRight, SentRight

-----------------------------------------------------------------------------
(* What the comparison decides. *)

\* The complement is a right checksum, and not 0.
LEMMA CksumRight ==
    ASSUME Inv, sum <= Ones
    PROVE  /\ Cksum(sum) \in 1 .. Ones
           /\ Right(Cksum(sum))
<1>1. sum \in Nat /\ total \in Nat
  BY ChecksumAssumption, SMT DEF Inv, TypeOK
<1> DEFINE M == Ones
<1>2. PICK k \in Nat : total = sum + k * M
  BY DEF Inv, Congruent
<1>3. M \in Nat \ {0} /\ M >= 3
  BY WordSize, SMT
<1>4. Cksum(sum) = IF sum = M THEN M ELSE M - sum
  BY DEF Cksum
<1>5. PICK n \in {1, 2} : sum + Cksum(sum) = n * M
  BY <1>1, <1>3, <1>4, SMT
<1> HIDE DEF M
<1>6. n * M + k * M = (n + k) * M /\ n * M \in Nat /\ k * M \in Nat /\ n * M >= M
  BY <1>2, <1>3, <1>5, SMT
<1>7. Cksum(sum) \in 1 .. M
  BY <1>1, <1>3, <1>4, SMT DEF M
<1>8. total + Cksum(sum) = (n + k) * M /\ n + k \in Nat /\ total + Cksum(sum) > 0
  BY <1>1, <1>2, <1>5, <1>6, <1>7, SMT
<1>9. ((n + k) * M) % M = 0
  BY <1>3, <1>8, Multiple
<1>. QED
  BY <1>7, <1>8, <1>9 DEF Right, M

\* No other value but 0 is right.
LEMMA OnlyCksumRight ==
    ASSUME Inv, sum <= Ones, NEW v \in 1 .. Ones, Right(v)
    PROVE  v = Cksum(sum)
<1>1. sum \in Nat /\ total \in Nat
  BY ChecksumAssumption, SMT DEF Inv, TypeOK
<1> DEFINE M == Ones
<1>2. PICK k \in Nat : total = sum + k * M
  BY DEF Inv, Congruent
<1>3. M \in Nat \ {0} /\ M >= 3 /\ v \in Nat /\ v >= 1 /\ v <= M /\ sum <= M
  BY WordSize, SMT
<1>4. (total + v) % M = 0 /\ total + v \in Nat
  BY <1>1, <1>3 DEF Right
<1>5. Cksum(sum) = IF sum = M THEN M ELSE M - sum
  BY DEF Cksum
<1> HIDE DEF M
<1>6. PICK n \in Nat : total + v = M * n
  <2>1. /\ (total + v) \div M \in Nat
        /\ total + v = M * ((total + v) \div M) + ((total + v) % M)
    BY <1>3, <1>4, Division
  <2>2. M * ((total + v) \div M) \in Nat
    BY <1>3, <2>1, SMT
  <2>3. total + v = M * ((total + v) \div M)
    BY <1>4, <2>1, <2>2, SMT
  <2>. QED
    BY <2>1, <2>3
<1>7. M * n = n * M /\ n * M - k * M = (n - k) * M /\ n * M \in Nat /\ k * M \in Nat
  BY <1>2, <1>3, <1>6, SMT
<1>8. sum + v = (n - k) * M
  BY <1>1, <1>2, <1>3, <1>6, <1>7, SMT
<1>9. n - k \in {1, 2}
  <2>1. CASE n - k <= 0
    <3>1. (n - k) * M <= 0
      BY <2>1, <1>2, <1>3, <1>6, SMT
    <3>. QED
      BY <3>1, <1>1, <1>3, <1>8, SMT
  <2>2. CASE n - k >= 3
    <3>1. (n - k) * M >= 3 * M
      BY <2>2, <1>2, <1>3, <1>6, SMT
    <3>. QED
      BY <3>1, <1>1, <1>3, <1>8, SMT
  <2>. QED
    BY <2>1, <2>2, <1>2, <1>6, SMT
<1>10. CASE n - k = 1
  BY <1>10, <1>1, <1>3, <1>5, <1>8, SMT
<1>11. CASE n - k = 2
  BY <1>11, <1>1, <1>3, <1>5, <1>8, SMT
<1>. QED
  BY <1>9, <1>10, <1>11

\* The comparison decides by the value of the field alone.
LEMMA TestInv == Inv /\ Test => Inv'
<1>1. SUFFICES ASSUME Inv, Test PROVE Inv'
  OBVIOUS
<1>2. /\ sum <= Ones /\ pc' = IF Cksum(sum) = field THEN "accepted" ELSE "discarded"
      /\ UNCHANGED <<pkt, field, job, i, sum, total>>
  <2>1. sum \in Nat /\ Ones \in Nat
    BY <1>1, ChecksumAssumption, WordSize, SMT DEF Inv, TypeOK
  <2>2. ~(sum > Ones)
    BY <1>1 DEF Test, TooLarge
  <2>. QED
    BY <1>1, <2>1, <2>2, SMT DEF Test
<1>3. field \in 0 .. Ones
  BY <1>1 DEF Inv, TypeOK
<1>4. AcceptsRight'
  <2>1. pc' = "accepted" => Right(field)
    BY <1>1, <1>2, CksumRight
  <2>2. pc' = "discarded" => ~Right(field) \/ field = 0
    <3>1. SUFFICES ASSUME pc' = "discarded", Right(field), field # 0 PROVE FALSE
      OBVIOUS
    <3>2. field \in 1 .. Ones
      BY <3>1, <1>3, WordSize, SMT
    <3>. QED
      BY <3>1, <3>2, <1>1, <1>2, OnlyCksumRight
  <2>3. Right(field)' <=> Right(field)
    BY <1>2 DEF Right
  <2>. QED
    BY <2>1, <2>2, <2>3, <1>2 DEF AcceptsRight
<1>. QED
  BY <1>1, <1>2, <1>4 DEF Inv, TypeOK, Fits, Adding, Congruent, SentRight

\* The stored value is the complement of the words around it.
LEMMA StoreInv == Inv /\ Store => Inv'
<1>1. SUFFICES ASSUME Inv, Store PROVE Inv'
  OBVIOUS
<1>2. /\ sum <= Ones /\ pc' = "sent" /\ pkt' = WithValue(pkt, Cksum(sum))
      /\ UNCHANGED <<field, job, i, sum, total>>
  <2>1. sum \in Nat /\ Ones \in Nat
    BY <1>1, ChecksumAssumption, WordSize, SMT DEF Inv, TypeOK
  <2>2. ~(sum > Ones)
    BY <1>1 DEF Store, TooLarge
  <2>. QED
    BY <1>1, <2>1, <2>2, SMT DEF Store
<1> DEFINE c == Cksum(sum)
<1>3. c \in 1 .. Ones /\ c \in 0 .. Ones /\ c # 0 /\ Right(c)
  <2>1. c \in 1 .. Ones /\ Right(c)
    BY <1>1, <1>2, CksumRight
  <2> HIDE DEF c
  <2>. QED
    BY <2>1, WordSize, SMT
<1> HIDE DEF c
<1>4. pkt \in Seq(Byte) /\ SumAt < Len(pkt) /\ pkt' = WithValue(pkt, c)
  BY <1>1, <1>2 DEF Inv, TypeOK, c
<1>5. pkt' \in Seq(Byte) /\ Len(pkt') = Len(pkt) /\ Value(pkt') = c
  BY <1>3, <1>4, StoredValue
<1>6. SentRight'
  <2>1. Right(Value(pkt))' <=> Right(c)
    BY <1>2, <1>5 DEF Right
  <2>2. Value(pkt)' = Value(pkt')
    BY DEF Value
  <2>. QED
    BY <2>1, <2>2, <1>3, <1>5 DEF SentRight
<1>. QED
  BY <1>1, <1>2, <1>5, <1>6 DEF Inv, TypeOK, Fits, Adding, Congruent, AcceptsRight

-----------------------------------------------------------------------------
(* The other steps. *)

\* Blank packets are packets.
LEMMA BlankFits ==
    ASSUME NEW p \in Blank
    PROVE  /\ p \in Seq(Byte) /\ SumAt < Len(p) /\ TtlAt <= Len(p)
           /\ Word * (Len(p) + 1) <= Reg
<1>1. PICK q \in Packets : p = WithValue(q, 0)
  BY DEF Blank
<1>2. 0 \in 0 .. Ones
  BY WordSize, SMT
<1>. QED
  BY <1>1, <1>2, StoredValue, ChecksumAssumption, RegSize

\* A second computation starts afresh.
LEMMA MakeInv ==
    ASSUME Inv, NEW p \in Seq(Byte), Make(p), SumAt < Len(p), TtlAt <= Len(p),
           Word * (Len(p) + 1) <= Reg
    PROVE  Inv'
<1>1. pkt' = p /\ job' = "make" /\ pc' = "add" /\ i' = 1 /\ sum' = 0 /\ total' = 0 /\ field' = 0
  BY DEF Make
<1>2. TypeOK'
  <2>1. Len(p) \in Nat /\ 0 \in 0 .. Reg - 1 /\ 0 \in 0 .. Ones
    BY WordSize, RegSize, SMT DEF Inv, TypeOK
  <2>2. 1 \in 1 .. Len(p) + 2
    BY <2>1, SMT
  <2>. QED
    BY <1>1, <2>1, <2>2 DEF TypeOK
<1>3. Fits'
  BY <1>1 DEF Fits
<1>4. Adding' /\ Congruent'
  <2>1. Word * (1 - 1) = 0 /\ 0 = 0 + 0 * Ones /\ 0 <= 0 /\ 0 \in Nat
    BY WordSize, SMT
  <2>. QED
    BY <1>1, <2>1 DEF Adding, Congruent
<1>. QED
  BY <1>1, <1>2, <1>3, <1>4 DEF Inv, AcceptsRight, SentRight

\* Every step preserves the invariant.
LEMMA NextInv == Inv /\ [Next]_vars => Inv'
<1>1. SUFFICES ASSUME Inv, [Next]_vars PROVE Inv'
  OBVIOUS
<1>2. CASE Added
  BY <1>1, <1>2 DEF Added, Inv, TypeOK, Fits, Adding, Congruent, AcceptsRight, SentRight
<1>3. CASE Forward
  <2> DEFINE p == [pkt EXCEPT ![TtlAt] = (@ - 1) % Base]
  <2>1. Make(p) /\ pkt \in Seq(Byte) /\ TtlAt \in 1 .. Len(pkt) /\ SumAt < Len(pkt)
        /\ Word * (Len(pkt) + 1) <= Reg
    BY <1>1, <1>3, ChecksumAssumption, SMT DEF Forward, Inv, TypeOK, Fits
  <2>2. (pkt[TtlAt] - 1) % Base \in Byte
    <3>1. pkt[TtlAt] \in Byte
      BY <2>1, SMT
    <3>2. pkt[TtlAt] \in Int
      BY <3>1, WordSize, SMT DEF Byte
    <3>. QED
      BY <3>2, WordSize, SMT DEF Byte
  <2>3. p \in Seq(Byte) /\ Len(p) = Len(pkt)
    BY <2>1, <2>2, SMT
  <2> HIDE DEF p
  <2>4. SumAt < Len(p) /\ TtlAt <= Len(p) /\ Word * (Len(p) + 1) <= Reg
    BY <2>1, <2>3, SMT
  <2>. QED
    BY <1>1, <2>1, <2>3, <2>4, MakeInv
<1>4. CASE Respond
  BY <1>1, <1>4, BlankFits, MakeInv DEF Respond
<1>5. CASE UNCHANGED vars
  BY <1>1, <1>5 DEF vars, Inv, TypeOK, Fits, Adding, Congruent, AcceptsRight, SentRight, Right,
                    Value
<1>. QED
  BY <1>1, <1>2, <1>3, <1>4, <1>5, AddInv, FoldInv, TestInv, StoreInv DEF Next

\* The invariant holds for ever.
LEMMA SpecInv == Spec => []Inv
  BY InitInv, NextInv, PTL DEF Spec

-----------------------------------------------------------------------------
(* Sums over sets.  The library's theorems on induction take a predicate as a  *)
(* parameter; the induction here is on the least element of the set of         *)
(* counterexamples, which the theorem WFMin about well-founded relations gives.*)

\* The order of the naturals, as a relation.
Less == {d \in Nat \X Nat : d[1] < d[2]}

\* A set of naturals that is not empty has a least element.
LEMMA LeastNatural ==
    ASSUME NEW T \in SUBSET Nat, T # {}
    PROVE  \E x \in T : \A y \in T : x <= y
<1>1. IsWellFoundedOn(Less, Nat)
  BY NatLessThanWellFounded DEF OpToRel, Less
<1>2. PICK x \in T : \A y \in T : ~(<<y, x>> \in Less)
  BY <1>1, WFMin
<1>3. \A y \in Nat : y < x => <<y, x>> \in Less
  BY DEF Less
<1>4. ASSUME NEW y \in T PROVE x <= y
  <2>1. x \in Nat /\ y \in Nat /\ ~(y < x)
    BY <1>2, <1>3
  <2>. QED
    BY <2>1, SMT
<1>. QED
  BY <1>4

\* A set of subsets of a finite set that is not empty has a smallest element.
LEMMA SmallestSubset ==
    ASSUME NEW D, IsFiniteSet(D), NEW B \in SUBSET SUBSET D, B # {}
    PROVE  \E s \in B : \A x \in s : s \ {x} \notin B
<1> DEFINE T == {n \in Nat : \E s \in B : Cardinality(s) = n}
<1>1. \A s \in SUBSET D : IsFiniteSet(s) /\ Cardinality(s) \in Nat
  BY FS_Subset, FS_CardinalityType
<1>2. T \in SUBSET Nat /\ T # {}
  BY <1>1
<1>3. PICK n \in T : \A m \in T : n <= m
  BY <1>2, LeastNatural
<1>4. PICK s \in B : Cardinality(s) = n
  BY <1>3
<1>5. ASSUME NEW x \in s, s \ {x} \in B PROVE FALSE
  <2>1. Cardinality(s \ {x}) = n - 1
    BY <1>1, <1>4, FS_RemoveElement
  <2>2. n - 1 \in T
    BY <1>1, <1>5, <2>1
  <2>. QED
    BY <1>2, <1>3, <2>2, SMT
<1>. QED
  BY <1>5

\* The element that a fold takes out first, and what folding + over sets does.
Pick(s) == CHOOSE x \in s : TRUE
Summed(f, w, s) == IF s = {} THEN 0 ELSE w[Pick(s)] + f[s \ {Pick(s)}]
Sums(f, w, D) == f = [s \in SUBSET D |-> Summed(f, w, s)]

\* What is picked is there.
LEMMA Picked ==
    ASSUME NEW s, s # {}
    PROVE  Pick(s) \in s
  BY DEF Pick

\* The recursive definition of a sum over the subsets of a finite set has a solution.
LEMMA SumExists ==
    ASSUME NEW D, IsFiniteSet(D), NEW w \in [D -> Nat]
    PROVE  \E f : Sums(f, w, D)
<1> DEFINE Upto(f, n) == \A s \in SUBSET D : Cardinality(s) <= n => f[s] = Summed(f, w, s)
           T == {n \in Nat : ~\E f \in [SUBSET D -> Nat] : Upto(f, n)}
<1>1. \A s \in SUBSET D : IsFiniteSet(s) /\ Cardinality(s) \in Nat
  BY FS_Subset, FS_CardinalityType
<1>2. T = {}
  <2>1. SUFFICES ASSUME T # {} PROVE FALSE
    OBVIOUS
  <2>2. PICK n \in T : \A m \in T : n <= m
    BY <2>1, LeastNatural
  <2>3. n # 0
    <3> DEFINE f == [s \in SUBSET D |-> 0]
    <3>1. f \in [SUBSET D -> Nat]
      OBVIOUS
    <3>2. \A s \in SUBSET D : Cardinality(s) <= 0 => s = {}
      BY <1>1, FS_EmptySet
    <3>3. Upto(f, 0)
      BY <3>2 DEF Summed
    <3>. QED
      BY <3>1, <3>3
  <2>4. n - 1 \in Nat /\ n - 1 \notin T
    <3>1. n \in Nat
      BY <2>2
    <3> HIDE DEF T
    <3>. QED
      BY <2>2, <2>3, <3>1, SMT
  <2>5. PICK f \in [SUBSET D -> Nat] : Upto(f, n - 1)
    BY <2>4
  <2> DEFINE g == [s \in SUBSET D |-> IF Cardinality(s) <= n - 1 THEN f[s]
                                                                  ELSE Summed(f, w, s)]
  <2>6. \A s \in SUBSET D : s # {} => /\ Pick(s) \in D /\ s \ {Pick(s)} \in SUBSET D
                                      /\ Cardinality(s \ {Pick(s)}) = Cardinality(s) - 1
    BY <1>1, Picked, FS_RemoveElement
  <2>7. \A s \in SUBSET D : Summed(f, w, s) \in Nat
    BY <2>6 DEF Summed
  <2>8. g \in [SUBSET D -> Nat]
    BY <2>7
  <2>9. \A s \in SUBSET D : Cardinality(s) <= n => Summed(g, w, s) = Summed(f, w, s)
    BY <1>1, <2>2, <2>6 DEF Summed
  <2>10. Upto(g, n)
    <3>1. SUFFICES ASSUME NEW s \in SUBSET D, Cardinality(s) <= n
                   PROVE  g[s] = Summed(g, w, s)
      OBVIOUS
    <3>2. g[s] = Summed(f, w, s)
      BY <2>5
    <3>. QED
      BY <2>9, <3>1, <3>2
  <2>. QED
    BY <2>2, <2>8, <2>10
<1>3. Cardinality(D) \in Nat /\ \A s \in SUBSET D : Cardinality(s) <= Cardinality(D)
  BY FS_Subset, FS_CardinalityType
<1>4. PICK f \in [SUBSET D -> Nat] : Upto(f, Cardinality(D))
  BY <1>2, <1>3
<1>5. \A s \in SUBSET D : f[s] = Summed(f, w, s)
  BY <1>3, <1>4
<1>. QED
  BY <1>5 DEF Sums

\* Sums are naturals.
LEMMA SumType ==
    ASSUME NEW D, IsFiniteSet(D), NEW w \in [D -> Nat], NEW f, Sums(f, w, D)
    PROVE  f \in [SUBSET D -> Nat]
<1> DEFINE B == {s \in SUBSET D : f[s] \notin Nat}
<1>1. f = [s \in SUBSET D |-> Summed(f, w, s)]
  BY DEF Sums
<1>2. B = {}
  <2>1. SUFFICES ASSUME B # {} PROVE FALSE
    OBVIOUS
  <2>2. PICK s \in B : \A x \in s : s \ {x} \notin B
    BY <2>1, SmallestSubset
  <2>3. f[s] = Summed(f, w, s)
    BY <1>1
  <2>4. s # {}
    BY <2>2, <2>3 DEF Summed
  <2>5. Pick(s) \in s /\ s \ {Pick(s)} \in SUBSET D
    BY <2>4, Picked
  <2>6. f[s \ {Pick(s)}] \in Nat /\ w[Pick(s)] \in Nat
    BY <2>2, <2>5
  <2>. QED
    BY <2>2, <2>3, <2>4, <2>6 DEF Summed
<1>. QED
  BY <1>1, <1>2

Taken(f, w, s, x) == f[s] = w[x] + f[s \ {x}]

\* It does not matter which element is taken out first.
LEMMA SumAnyOrder ==
    ASSUME NEW D, IsFiniteSet(D), NEW w \in [D -> Nat], NEW f, Sums(f, w, D)
    PROVE  \A s \in SUBSET D : \A x \in s : Taken(f, w, s, x)
<1> DEFINE B == {s \in SUBSET D : \E x \in s : f[s] # w[x] + f[s \ {x}]}
<1>1. f = [s \in SUBSET D |-> Summed(f, w, s)] /\ f \in [SUBSET D -> Nat]
  BY SumType DEF Sums
<1>2. B = {}
  <2>1. SUFFICES ASSUME B # {} PROVE FALSE
    OBVIOUS
  <2>2. PICK s \in B : \A x \in s : s \ {x} \notin B
    BY <2>1, SmallestSubset
  <2>3. PICK x \in s : f[s] # w[x] + f[s \ {x}]
    BY <2>2
  <2> DEFINE c == Pick(s)
  <2>4. c \in s /\ f[s] = w[c] + f[s \ {c}]
    BY <1>1, <2>3, Picked DEF Summed
  <2> HIDE DEF c
  <2>5. x # c /\ x \in D /\ c \in D
    BY <2>3, <2>4
  <2>6. s \ {c} \in SUBSET D /\ s \ {x} \in SUBSET D /\ (s \ {c}) \ {x} \in SUBSET D
    OBVIOUS
  <2>7. f[s \ {c}] = w[x] + f[(s \ {c}) \ {x}]
    BY <2>2, <2>4, <2>5, <2>6
  <2>8. f[s \ {x}] = w[c] + f[(s \ {x}) \ {c}]
    BY <2>2, <2>3, <2>4, <2>5, <2>6
  <2>9. f[s \ {x}] = w[c] + f[(s \ {c}) \ {x}]
    <3>1. (s \ {c}) \ {x} = (s \ {x}) \ {c}
      OBVIOUS
    <3>. QED
      BY <2>8, <3>1
  <2>10. w[x] \in Nat /\ w[c] \in Nat /\ f[(s \ {c}) \ {x}] \in Nat
    BY <1>1, <2>5, <2>6
  <2>. QED
    BY <2>3, <2>4, <2>7, <2>9, <2>10, SMT
<1>. QED
  BY <1>2 DEF Taken

-----------------------------------------------------------------------------
(* The loop that adds. *)

\* What the byte at k counts in the sum of RFC 1071.
Weight(p, k) == IF k % 2 = 1 THEN Base * p[k] ELSE p[k]
Weights(p) == [k \in DOMAIN p |-> Weight(p, k)]

\* The weights are naturals, and there are finitely many of them.
LEMMA WeightsType ==
    ASSUME NEW p \in Seq(Byte)
    PROVE  /\ Weights(p) \in [DOMAIN p -> Nat]
           /\ DOMAIN p = 1 .. Len(p) /\ Len(p) \in Nat /\ IsFiniteSet(DOMAIN p)
<1>1. DOMAIN p = 1 .. Len(p) /\ Len(p) \in Nat
  OBVIOUS
<1>2. IsFiniteSet(DOMAIN p)
  BY <1>1, FS_Interval
<1>3. ASSUME NEW k \in DOMAIN p PROVE Weight(p, k) \in Nat
  <2>1. p[k] \in Byte
    BY <1>1
  <2>2. p[k] \in Nat
    BY <2>1, WordSize, SMT DEF Byte
  <2>3. Base * p[k] \in Nat
    BY <2>2, WordSize, SMT
  <2>. QED
    BY <2>2, <2>3 DEF Weight
<1>. QED
  BY <1>1, <1>2, <1>3 DEF Weights

\* RefSum is the fold that it is defined by.
LEMMA RefSumFolds ==
    ASSUME NEW p \in Seq(Byte)
    PROVE  \E f : Sums(f, Weights(p), DOMAIN p) /\ RefSum(p) = f[DOMAIN p]
<1> DEFINE Solves(f) == f = [s \in SUBSET DOMAIN p |->
                                IF s = {} THEN 0 ELSE Weight(p, Pick(s)) + f[s \ {Pick(s)}]]
<1>1. RefSum(p) = (CHOOSE f : Solves(f))[DOMAIN p]
  BY DEF RefSum, MapThenSumSet, MapThenFoldSet, Weight, Pick
<1>2. ASSUME NEW f PROVE Solves(f) <=> Sums(f, Weights(p), DOMAIN p)
  <2>1. \A s \in SUBSET DOMAIN p : s # {} => Weights(p)[Pick(s)] = Weight(p, Pick(s))
    BY Picked DEF Weights
  <2>2. \A s \in SUBSET DOMAIN p :
            Summed(f, Weights(p), s)
                = IF s = {} THEN 0 ELSE Weight(p, Pick(s)) + f[s \ {Pick(s)}]
    BY <2>1 DEF Summed
  <2>3. [s \in SUBSET DOMAIN p |-> Summed(f, Weights(p), s)]
            = [s \in SUBSET DOMAIN p |->
                   IF s = {} THEN 0 ELSE Weight(p, Pick(s)) + f[s \ {Pick(s)}]]
    BY <2>2
  <2>. QED
    BY <2>3 DEF Sums
<1>3. \E f : Solves(f)
  BY <1>2, WeightsType, SumExists
<1> HIDE DEF Solves
<1>4. Solves(CHOOSE f : Solves(f))
  BY <1>3
<1>. QED
  BY <1>1, <1>2, <1>4

\* The field is 0 while its packet is summed up.
FieldBlank == pc \in {"add", "fold", "accepted"} => pkt[SumAt] = 0 /\ pkt[SumAt + 1] = 0

\* The loop goes from word to word and ends behind the last byte.
WordByWord == i % 2 = 1 /\ (pc = "fold" => i > Len(pkt))

\* The total is that of the bytes before i, in whatever order they are added.
PrefixSummed ==
    pc \in {"add", "fold"} =>
        \A f : Sums(f, Weights(pkt), DOMAIN pkt) => total = f[{k \in DOMAIN pkt : k < i}]

SumInv == FieldBlank /\ WordByWord /\ PrefixSummed

\* A packet with the field 0.
LEMMA BlankField ==
    ASSUME NEW p \in Seq(Byte), SumAt < Len(p)
    PROVE  /\ WithValue(p, 0)[SumAt] = 0 /\ WithValue(p, 0)[SumAt + 1] = 0
           /\ p[SumAt] = 0 /\ p[SumAt + 1] = 0 => WithValue(p, 0) = p
<1>1. SumAt \in 1 .. Len(p) /\ SumAt + 1 \in 1 .. Len(p) /\ SumAt # SumAt + 1
  BY ChecksumAssumption, SMT
<1>2. 0 \div Base = 0 /\ 0 % Base = 0
  BY WordSize, SMT
<1>3. WithValue(p, 0) = [p EXCEPT ![SumAt] = 0, ![SumAt + 1] = 0]
  BY <1>2 DEF WithValue
<1>. QED
  BY <1>1, <1>3

\* A new computation has summed up nothing.
LEMMA SumStart ==
    ASSUME NEW p \in Seq(Byte), SumAt < Len(p), p[SumAt] = 0, p[SumAt + 1] = 0,
           pkt' = p, pc' = "add", i' = 1, total' = 0
    PROVE  SumInv'
<1>1. {k \in DOMAIN p : k < 1} = {}
  BY WeightsType
<1>2. \A f : Sums(f, Weights(p), DOMAIN p) => f[{}] = 0
  BY DEF Sums, Summed
<1>3. PrefixSummed'
  BY <1>1, <1>2 DEF PrefixSummed
<1>4. 1 % 2 = 1
  BY SMT
<1>. QED
  BY <1>3, <1>4 DEF SumInv, FieldBlank, WordByWord

\* A step of the loop adds the next two bytes, or the last one.
LEMMA SumAdd == Inv /\ SumInv /\ Add => SumInv'
<1>1. SUFFICES ASSUME Inv, SumInv, Add PROVE SumInv'
  OBVIOUS
<1>2. /\ pkt \in Seq(Byte) /\ i \in Nat /\ i >= 1 /\ i % 2 = 1 /\ pc = "add"
      /\ i <= Len(pkt) /\ i' = i + 2 /\ total' = total + Summand(pkt, i)
      /\ UNCHANGED <<pkt, pc>> /\ total \in Nat
  BY <1>1, SMT DEF Inv, TypeOK, SumInv, WordByWord, Add
<1>3. /\ Weights(pkt) \in [DOMAIN pkt -> Nat] /\ DOMAIN pkt = 1 .. Len(pkt)
      /\ Len(pkt) \in Nat /\ IsFiniteSet(DOMAIN pkt)
  BY <1>2, WeightsType
<1> DEFINE Before(j) == {k \in DOMAIN pkt : k < j}
<1>4. i \in DOMAIN pkt /\ (i < Len(pkt) => i + 1 \in DOMAIN pkt)
  BY <1>2, <1>3, SMT
<1>5. /\ i \in Before(i + 1) /\ Before(i + 1) \ {i} = Before(i)
      /\ i < Len(pkt) => /\ i + 1 \in Before(i + 2)
                         /\ Before(i + 2) \ {i + 1} = Before(i + 1)
      /\ ~(i < Len(pkt)) => Before(i + 2) = Before(i + 1)
  BY <1>2, <1>3, <1>4
<1>6. /\ Weights(pkt)[i] = Base * pkt[i]
      /\ i < Len(pkt) => Weights(pkt)[i + 1] = pkt[i + 1]
  <2>1. ~((i + 1) % 2 = 1)
    BY <1>2, SMT
  <2>. QED
    BY <1>2, <1>4, <2>1 DEF Weights, Weight
<1>7. ASSUME NEW f, Sums(f, Weights(pkt), DOMAIN pkt)
      PROVE  total' = f[Before(i + 2)]
  <2>1. total = f[Before(i)]
    BY <1>1, <1>2, <1>7 DEF SumInv, PrefixSummed
  <2>2. \A s \in SUBSET DOMAIN pkt : \A x \in s : Taken(f, Weights(pkt), s, x)
    BY <1>3, <1>7, SumAnyOrder
  <2>3. /\ f[Before(i + 1)] = Weights(pkt)[i] + f[Before(i)]
        /\ i < Len(pkt) => f[Before(i + 2)] = Weights(pkt)[i + 1] + f[Before(i + 1)]
    <3>1. Before(i + 1) \in SUBSET DOMAIN pkt /\ Before(i + 2) \in SUBSET DOMAIN pkt
      OBVIOUS
    <3> HIDE DEF Before
    <3>2. /\ Taken(f, Weights(pkt), Before(i + 1), i)
          /\ i < Len(pkt) => Taken(f, Weights(pkt), Before(i + 2), i + 1)
      BY <1>5, <2>2, <3>1
    <3>. QED
      BY <1>5, <3>2 DEF Taken
  <2>4. /\ Weights(pkt)[i] \in Nat
        /\ i < Len(pkt) => Weights(pkt)[i + 1] \in Nat
    BY <1>3, <1>4
  <2> HIDE DEF Before
  <2>5. CASE i < Len(pkt)
    <3>1. total' = total + (Weights(pkt)[i] + Weights(pkt)[i + 1])
      BY <1>2, <1>6, <2>5 DEF Summand
    <3>. QED
      BY <1>2, <2>1, <2>3, <2>4, <2>5, <3>1, SMT
  <2>6. CASE ~(i < Len(pkt))
    <3>1. total' = total + (Weights(pkt)[i] + 0)
      BY <1>2, <1>6, <2>6 DEF Summand
    <3>2. f[Before(i + 2)] = f[Before(i + 1)]
      BY <1>5, <2>6
    <3>. QED
      BY <1>2, <2>1, <2>3, <2>4, <3>1, <3>2, SMT
  <2>. QED
    BY <2>5, <2>6
<1>8. PrefixSummed'
  BY <1>2, <1>7 DEF PrefixSummed
<1>9. (i + 2) % 2 = 1
  BY <1>2, SMT
<1>. QED
  BY <1>1, <1>2, <1>8, <1>9 DEF SumInv, FieldBlank, WordByWord

\* Every step keeps the account of what has been added.
LEMMA SumNext == Inv /\ SumInv /\ [Next]_vars => SumInv'
<1>1. SUFFICES ASSUME Inv, SumInv, [Next]_vars PROVE SumInv'
  OBVIOUS
<1>2. CASE Add
  BY <1>1, <1>2, SumAdd
<1>3. CASE Added
  BY <1>1, <1>3 DEF Added, SumInv, FieldBlank, WordByWord, PrefixSummed
<1>4. CASE Fold
  BY <1>1, <1>4 DEF Fold, SumInv, FieldBlank, WordByWord, PrefixSummed
<1>5. CASE Test
  BY <1>1, <1>5 DEF Test, SumInv, FieldBlank, WordByWord, PrefixSummed
<1>6. CASE Store
  BY <1>1, <1>6 DEF Store, SumInv, FieldBlank, WordByWord, PrefixSummed
<1>7. CASE Forward
  <2> DEFINE p == [pkt EXCEPT ![TtlAt] = (@ - 1) % Base]
  <2>1. /\ pkt' = p /\ pc' = "add" /\ i' = 1 /\ total' = 0 /\ pc = "accepted"
    BY <1>7 DEF Forward, Make
  <2>2. /\ pkt \in Seq(Byte) /\ TtlAt \in 1 .. Len(pkt) /\ SumAt < Len(pkt)
        /\ SumAt \in 1 .. Len(pkt) /\ SumAt + 1 \in 1 .. Len(pkt)
        /\ TtlAt # SumAt /\ TtlAt # SumAt + 1
    BY <1>1, ChecksumAssumption, SMT DEF Inv, TypeOK
  <2>3. (pkt[TtlAt] - 1) % Base \in Byte
    <3>1. pkt[TtlAt] \in Byte
      BY <2>2
    <3>2. pkt[TtlAt] \in Int
      BY <3>1, WordSize, SMT DEF Byte
    <3>. QED
      BY <3>2, WordSize, SMT DEF Byte
  <2>4. p \in Seq(Byte) /\ Len(p) = Len(pkt)
    BY <2>2, <2>3
  <2>5. p[SumAt] = 0 /\ p[SumAt + 1] = 0
    BY <1>1, <2>1, <2>2 DEF SumInv, FieldBlank
  <2> HIDE DEF p
  <2>. QED
    BY <2>1, <2>2, <2>4, <2>5, SumStart
<1>8. CASE Respond
  <2>1. PICK p \in Blank : pkt' = p /\ pc' = "add" /\ i' = 1 /\ total' = 0
    BY <1>8 DEF Respond, Make
  <2>2. p \in Seq(Byte) /\ SumAt < Len(p)
    BY BlankFits
  <2>3. p[SumAt] = 0 /\ p[SumAt + 1] = 0
    BY ChecksumAssumption, BlankField DEF Blank
  <2>. QED
    BY <2>1, <2>2, <2>3, SumStart
<1>9. CASE UNCHANGED vars
  BY <1>1, <1>9 DEF vars, SumInv, FieldBlank, WordByWord, PrefixSummed
<1>. QED
  BY <1>1, <1>2, <1>3, <1>4, <1>5, <1>6, <1>7, <1>8, <1>9 DEF Next

\* The first computation starts like the others.
LEMMA SumInit == Init => SumInv
<1>1. SUFFICES ASSUME NEW q \in Packets,
                      pkt = WithValue(q, 0), pc = "add", i = 1, total = 0
               PROVE  SumInv
  BY DEF Init
<1>2. q \in Seq(Byte) /\ SumAt < Len(q)
  BY ChecksumAssumption
<1>3. pkt \in Seq(Byte) /\ Len(pkt) = Len(q)
  BY <1>1, <1>2, StoredValue, WordSize, SMT
<1>4. pkt[SumAt] = 0 /\ pkt[SumAt + 1] = 0
  BY <1>1, <1>2, BlankField
<1>5. {k \in DOMAIN pkt : k < 1} = {}
  BY <1>3, WeightsType
<1>6. \A f : Sums(f, Weights(pkt), DOMAIN pkt) => f[{}] = 0
  BY DEF Sums, Summed
<1>7. 1 % 2 = 1
  BY SMT
<1>. QED
  BY <1>1, <1>4, <1>5, <1>6, <1>7 DEF SumInv, FieldBlank, WordByWord, PrefixSummed

\* When the loop has ended the register and the total hold the sum that RFC 1071 defines.
LEMMA SumsAll == Inv /\ SumInv => SumsEveryByte
<1>1. SUFFICES ASSUME Inv, SumInv, pc = "fold" \/ (pc = "add" /\ i > Len(pkt))
               PROVE  total = RefSum(WithValue(pkt, 0))
  BY DEF SumsEveryByte, Inv, Adding
<1>2. pkt \in Seq(Byte) /\ SumAt < Len(pkt) /\ i \in Nat /\ i > Len(pkt)
  BY <1>1 DEF Inv, TypeOK, SumInv, WordByWord
<1>3. WithValue(pkt, 0) = pkt
  BY <1>1, <1>2, BlankField DEF SumInv, FieldBlank
<1>4. PICK f : Sums(f, Weights(pkt), DOMAIN pkt) /\ RefSum(pkt) = f[DOMAIN pkt]
  BY <1>2, RefSumFolds
<1>5. {k \in DOMAIN pkt : k < i} = DOMAIN pkt
  <2>1. DOMAIN pkt = 1 .. Len(pkt) /\ Len(pkt) \in Nat
    BY <1>2, WeightsType
  <2>. QED
    BY <1>2, <2>1
<1>. QED
  BY <1>1, <1>3, <1>4, <1>5 DEF SumInv, PrefixSummed

-----------------------------------------------------------------------------
(* Theorems. *)

\* The variables keep their types; the sum fits the register that cksum uses.
THEOREM ChecksumTypeOK == Spec => []TypeOK
  BY SpecInv, PTL DEF Inv

\* Comparing the field with the result of cksum accepts the right checksums and no
\* others, except that it never accepts 0.
THEOREM ComparisonIsTest == Spec => []AcceptsRight
  BY SpecInv, PTL DEF Inv

\* What the router puts into the field is right, and not 0.
THEOREM SendsRight == Spec => []SentRight
  BY SpecInv, PTL DEF Inv

\* cksum's loop adds up every byte of a packet once, an odd one at the end included, and
\* its register does not overflow: it holds the whole sum when the loop ends, for packets
\* of every length below 0xffff.
THEOREM CksumSumsEveryByte == Spec => []SumsEveryByte
  BY InitInv, NextInv, SumInit, SumNext, SumsAll, PTL DEF Spec

=============================================================================
