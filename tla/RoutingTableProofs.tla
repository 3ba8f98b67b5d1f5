------------------------- MODULE RoutingTableProofs -------------------------
(* Proofs about RoutingTable, for every file and every size of an address. *)
EXTENDS RoutingTable, TLAPS, SequenceTheorems, WellFoundedInduction

(* A nonempty set of natural numbers has a least element. *)
LEMMA LeastNat ==
    ASSUME NEW T \in SUBSET Nat, T # {}
    PROVE  \E x \in T : \A y \in T : x <= y
<1>1. \E x \in T : \A y \in T : ~(<<y, x>> \in OpToRel(<, Nat))
  BY NatLessThanWellFounded, WFMin
<1>2. PICK x \in T : \A y \in T : ~(<<y, x>> \in OpToRel(<, Nat))
  BY <1>1
<1>3. ASSUME NEW y \in T PROVE x <= y
  <2>1. x \in Nat /\ y \in Nat
    OBVIOUS
  <2>2. ~(y < x)
    BY <1>2, <2>1 DEF OpToRel
  <2> QED BY <2>1, <2>2
<1> QED BY <1>2, <1>3

(* In a nonempty set of bits there is one that weighs most: it is in the last *)
(* byte the set reaches, and the first one there.                             *)
LEMMA HeaviestBit ==
    ASSUME NEW D \in SUBSET Bit, D # {}
    PROVE  \E b \in D : \A c \in D : ~Heavier(c, b)
<1> DEFINE Gaps == {Bytes - b[1] : b \in D}
<1> USE SizeAssumption
<1>1. Gaps \in SUBSET Nat /\ Gaps # {}
  BY DEF Bit
<1>2. PICK g \in Gaps : \A h \in Gaps : g <= h
  BY <1>1, LeastNat
<1>3. PICK d \in D : g = Bytes - d[1]
  BY <1>2
<1> DEFINE Places == {b[2] : b \in {e \in D : e[1] = d[1]}}
<1>4. Places \in SUBSET Nat /\ Places # {}
  BY <1>3 DEF Bit
<1>5. PICK p \in Places : \A q \in Places : p <= q
  <2> HIDE DEF Places
  <2> QED BY <1>4, LeastNat
<1>6. PICK b \in D : b[1] = d[1] /\ b[2] = p
  BY <1>5
<1>7. ASSUME NEW c \in D PROVE ~Heavier(c, b)
  <2>1. g <= Bytes - c[1]
    BY <1>2
  <2>2. c[1] \in 1 .. Bytes /\ d[1] \in 1 .. Bytes
    BY DEF Bit
  <2>3. c[1] <= b[1]
    BY <2>1, <2>2, <1>3, <1>6
  <2>4. c[1] = b[1] => b[2] <= c[2]
    BY <1>5, <1>6
  <2>5. b[1] \in Nat /\ b[2] \in Nat /\ c[1] \in Nat /\ c[2] \in Nat
    BY DEF Bit
  <2> QED BY <2>3, <2>4, <2>5 DEF Heavier
<1> QED BY <1>6, <1>7

(* The byte order does no harm to netmasks: one is greater as the uint32_t of *)
(* a little-endian machine exactly if its prefix is longer.                   *)
THEOREM GreaterIsLonger ==
    ASSUME NEW m \in Masks, NEW n \in Masks
    PROVE  Greater(m, n) <=> AtLeast(m, n) /\ m # n
<1> USE SizeAssumption
<1>0. m \in Addr /\ n \in Addr
  BY DEF Masks
<1>1. ASSUME Greater(m, n) PROVE AtLeast(m, n) /\ m # n
  <2>1. PICK b \in Bit : m[b] = 1 /\ n[b] = 0
    BY <1>1 DEF Greater
  <2>2. ASSUME NEW c \in Bit, n[c] = 1 PROVE m[c] = 1
    <3>1. ~Before(b, c)
      BY <2>1, <2>2 DEF Masks
    <3>2. c = b \/ Before(c, b)
      BY <3>1 DEF Before, Bit
    <3> QED BY <2>1, <2>2, <3>2 DEF Masks
  <2> QED BY <2>1, <2>2 DEF AtLeast
<1>2. ASSUME AtLeast(m, n), m # n PROVE Greater(m, n)
  <2> DEFINE D == {b \in Bit : m[b] = 1 /\ n[b] = 0}
  <2>1. ASSUME NEW b \in Bit, m[b] # n[b] PROVE b \in D
    BY <1>0, <1>2, <2>1 DEF AtLeast, Addr
  <2>2. D # {}
    <3>1. \E b \in Bit : m[b] # n[b]
      BY <1>0, <1>2 DEF Addr
    <3> QED BY <3>1, <2>1
  <2>3. PICK b \in D : \A c \in D : ~Heavier(c, b)
    <3>1. D \in SUBSET Bit
      OBVIOUS
    <3> HIDE DEF D
    <3> QED BY <2>2, <3>1, HeaviestBit
  <2>4. ASSUME NEW c \in Bit, Heavier(c, b) PROVE m[c] = n[c]
    BY <2>1, <2>3, <2>4
  <2> QED BY <2>3, <2>4 DEF Greater
<1> QED BY <1>1, <1>2

-----------------------------------------------------------------------------

(* While a load runs there is one to run, and after its first line the buffers *)
(* hold a route, of which a line may repeat some fields.                       *)
LoadOK == pc = "load" => loads > 0 /\ (line > 0 => buf \in Route)

(* A line that is not rejected leaves a route in the buffers, if it is complete or *)
(* they held one before.                                                           *)
LEMMA ParsedType ==
    ASSUME NEW l \in Fields, l \in Route \/ buf \in Route
    PROVE  Parsed(l) \in Route
<1>0. Missing \notin Addr /\ Missing \notin Gateways /\ Missing \notin Ifaces
      /\ Missing \notin Masks
  BY FileAssumption DEF Masks
<1>1. CASE l \in Route
  <2>1. \A f \in Field : l[f] # Missing
    BY <1>0, <1>1 DEF Field, Route
  <2>2. Parsed(l) = [f \in Field |-> l[f]]
    BY <2>1 DEF Parsed
  <2> QED BY <1>1, <2>2 DEF Route, Field
<1>2. CASE buf \in Route
  BY <1>2 DEF Fields, Route, Parsed, Field
<1> QED BY <1>1, <1>2

(* Loading and walking keep the types: the induction step of TypeCorrect. *)
LEMMA TypeInductive ==
    ASSUME TypeOK, LoadOK, file \in Files, [Next]_vars
    PROVE  TypeOK' /\ LoadOK' /\ (file \in Files)'
<1> USE SizeAssumption, FileAssumption
<1>0. ZeroMask \in Masks /\ Masks \subseteq Addr
  BY DEF ZeroMask, Masks, Addr
<1>1. CASE ReadLine
  <2>1. file[line + 1] \in Line /\ line + 1 \in 1 .. Len(file)
    BY <1>1 DEF ReadLine, TypeOK
  <2>2. Parsed(file[line + 1]) \in Route
    <3>1. file[line + 1] \in Fields
      BY <2>1, <1>1 DEF Line, ReadLine
    <3>2. line = 0 => file[line + 1] \in Route
      <4>1. file # <<>>
        BY <1>1 DEF ReadLine, TypeOK
      <4>2. file[1] \in Route \cup {Bad}
        BY <4>1
      <4> QED BY <4>2, <1>1 DEF ReadLine
    <3>3. line # 0 => buf \in Route
      BY <1>1 DEF ReadLine, LoadOK, TypeOK
    <3> QED BY <3>1, <3>2, <3>3, ParsedType
  <2>3. Cleared(table) \in Seq(Route)
    BY DEF Cleared, TypeOK
  <2>4. table' \in Seq(Route)
    <3> HIDE DEF Route
    <3> QED BY <1>1, <2>2, <2>3 DEF ReadLine
  <2>5. buf' \in Route
    BY <1>1, <2>2 DEF ReadLine
  <2>6. line' \in 0 .. Len(file')
    BY <1>1, <2>1 DEF ReadLine, TypeOK
  <2> QED BY <1>1, <2>4, <2>5, <2>6 DEF ReadLine, TypeOK, LoadOK, matchVars
<1>2. CASE RejectLine
  BY <1>2 DEF RejectLine, TypeOK, LoadOK, loadVars, matchVars
<1>3. CASE EndLoad
  BY <1>3 DEF EndLoad, TypeOK, LoadOK, matchVars
<1>4. ASSUME NEW d \in Dests, StartMatch(d) PROVE TypeOK' /\ LoadOK' /\ (file \in Files)'
  BY <1>0, <1>4 DEF StartMatch, TypeOK, LoadOK, loadVars
<1>5. CASE VisitRoute
  <2>1. rt \in 1 .. Len(table)
    BY <1>5 DEF VisitRoute, TypeOK
  <2>2. table[rt] \in Route
    BY <2>1 DEF TypeOK
  <2>3. table[rt].mask \in Masks
    BY <2>2 DEF Route
  <2>4. longest_match_len' \in Masks /\ longest_match' \in Nat \cup {NoRoute}
    BY <1>5, <2>1, <2>3 DEF VisitRoute, MatchLen, TypeOK
  <2> QED BY <1>5, <2>1, <2>4 DEF VisitRoute, TypeOK, LoadOK, loadVars
<1>6. CASE ReturnMatch
  BY <1>6 DEF ReturnMatch, TypeOK, LoadOK, loadVars, matchVars
<1>7. CASE UNCHANGED vars
  BY <1>7 DEF TypeOK, LoadOK, vars
<1> QED BY <1>1, <1>2, <1>3, <1>4, <1>5, <1>6, <1>7 DEF Next

(* Type correctness of every start of the router and of every walk: the table *)
(* that sr_load_rt builds holds only routes, whatever the file.               *)
THEOREM TypeCorrect == Spec => []TypeOK
<1> DEFINE TInv == TypeOK /\ LoadOK /\ file \in Files
<1>1. Init => TInv
  BY SizeAssumption, FileAssumption DEF Init, TypeOK, LoadOK, ZeroMask, Masks, Addr
<1>2. TInv /\ [Next]_vars => TInv'
  BY TypeInductive
<1>3. TInv => TypeOK
  OBVIOUS
<1> QED
  <2> HIDE DEF TInv
  <2> QED BY <1>1, <1>2, <1>3, PTL DEF Spec

-----------------------------------------------------------------------------
(* The table is the file. *)

\* r is what the first i lines leave in the buffers.
Left(r, i) ==
    \A f \in Field : \E k \in 1 .. i : Source(k, i, f) /\ r[f] = file[k][f]

\* The first n routes of the table are those of the first n lines.
FirstLines(n) ==
    /\ Len(table) = n
    /\ \A i \in 1 .. n : Left(table[i], i)

\* What each load has built so far; a load that has read nothing yet leaves the
\* table of the one before, which is empty before the first.
LoadInv ==
    /\ pc = "load" /\ line > 0 =>
          /\ FirstLines(line)
          /\ Left(buf, line)
    /\ pc = "load" /\ line = 0 /\ loads = 2 => table = <<>>
    /\ pc = "load" /\ line = 0 /\ loads = 1 => FirstLines(Len(file))
    /\ pc \in {"ready", "walk"} => FirstLines(Len(file))

(* Every step of a load extends the table by the route of the line it reads. *)
LEMMA LoadInductive ==
    ASSUME TypeOK, LoadOK, file \in Files, LoadInv, [Next]_vars
    PROVE  LoadInv'
<1> USE SizeAssumption, FileAssumption
<1>1. CASE ReadLine
  <2> DEFINE n == line + 1
  <2>0. n \in 1 .. Len(file) /\ line \in Nat /\ file' = file /\ line' = n
    BY <1>1 DEF ReadLine, TypeOK
  <2>1. \A r, i : Left(r, i)' <=> Left(r, i)
    BY <2>0 DEF Left, Source
  <2>2. Left(Parsed(file[n]), n)
    <3> SUFFICES ASSUME NEW f \in Field
                 PROVE  \E k \in 1 .. n : Source(k, n, f) /\ Parsed(file[n])[f] = file[k][f]
      BY DEF Left
    <3>1. CASE file[n][f] # Missing
      BY <3>1, <2>0 DEF Source, Parsed
    <3>2. CASE file[n][f] = Missing
      <4>1. line > 0
        <5>1. file # <<>> /\ file[n] # Bad
          BY <1>1 DEF ReadLine, TypeOK
        <5>2. file[1] \in Route \cup {Bad}
          BY <5>1
        <5>3. \A r \in Route : \A g \in Field : r[g] # Missing
          BY DEF Route, Field, Masks
        <5> QED BY <3>2, <5>1, <5>2, <5>3, <2>0
      <4>2. PICK j \in 1 .. line : Source(j, line, f) /\ buf[f] = file[j][f]
        BY <1>1, <4>1 DEF ReadLine, LoadInv, Left
      <4>3. Source(j, n, f)
        BY <4>2, <3>2, <2>0 DEF Source
      <4>4. Parsed(file[n])[f] = buf[f]
        BY <3>2 DEF Parsed
      <4> QED BY <4>2, <4>3, <4>4, <2>0
    <3> QED BY <3>1, <3>2
  <2>3. Cleared(table) \in Seq(Route) /\ Len(Cleared(table)) = line
    BY <1>1, <2>0 DEF Cleared, TypeOK, ReadLine, LoadInv, FirstLines
  <2>4. \A i \in 1 .. line : Cleared(table)[i] = table[i]
    BY <2>0 DEF Cleared
  <2>5. Parsed(file[n]) \in Route
    <3>1. LoadOK'
      BY TypeInductive
    <3>2. pc' = "load" /\ buf' = Parsed(file[n]) /\ line' > 0
      BY <1>1, <2>0 DEF ReadLine
    <3> QED BY <3>1, <3>2 DEF LoadOK
  <2>6. /\ Len(table') = n
        /\ table'[n] = Parsed(file[n])
        /\ \A i \in 1 .. line : table'[i] = table[i]
    <3>1. table' = Append(Cleared(table), Parsed(file[n]))
      BY <1>1 DEF ReadLine
    <3> HIDE DEF Route
    <3> QED BY <3>1, <2>0, <2>3, <2>4, <2>5
  <2>7. FirstLines(line)'
    <3>1. ASSUME NEW i \in 1 .. n
          PROVE  Left(table'[i], i)
      <4>1. CASE i = n
        BY <4>1, <2>2, <2>6
      <4>2. CASE i # n
        <5>1. i \in 1 .. line /\ line > 0
          BY <4>2, <2>0
        <5> QED BY <5>1, <1>1, <2>6 DEF LoadInv, FirstLines, ReadLine
      <4> QED BY <4>1, <4>2
    <3>2. \A i \in 1 .. n : Left(table[i], i)'
      BY <3>1, <2>0 DEF Left, Source
    <3> QED BY <3>2, <2>0, <2>6 DEF FirstLines
  <2>8. Left(buf, line)'
    <3>1. buf' = Parsed(file[n])
      BY <1>1 DEF ReadLine
    <3> QED BY <3>1, <2>0, <2>2 DEF Left, Source
  <2>9. pc' = "load" /\ line' > 0
    BY <1>1, <2>0 DEF ReadLine
  <2> QED BY <2>0, <2>7, <2>8, <2>9 DEF LoadInv
<1>2. CASE EndLoad
  <2>1. FirstLines(Len(file))
    <3>1. CASE line > 0
      BY <1>2, <3>1 DEF EndLoad, LoadInv
    <3>2. CASE line = 0
      <4>1. Len(file) = 0 /\ loads \in {1, 2}
        BY <1>2, <3>2 DEF EndLoad, TypeOK, LoadOK
      <4> QED BY <1>2, <3>2, <4>1 DEF EndLoad, LoadInv, FirstLines
    <3> QED BY <3>1, <3>2 DEF TypeOK
  <2>2. FirstLines(Len(file))' /\ line' = 0 /\ loads' # 2
    <3>1. loads' # 2
      BY <1>2 DEF EndLoad, TypeOK
    <3> QED BY <1>2, <2>1, <3>1 DEF EndLoad, FirstLines, Left, Source
  <2> QED BY <2>2 DEF LoadInv
<1>3. CASE ~ReadLine /\ ~EndLoad
  <2>1. /\ UNCHANGED <<file, table, line, loads, buf>>
        /\ pc' = "load" => pc = "load"
        /\ pc' \in {"ready", "walk"} => pc \in {"ready", "walk"}
    BY <1>3 DEF Next, RejectLine, StartMatch, VisitRoute, ReturnMatch, vars,
                loadVars
  <2> QED BY <2>1 DEF LoadInv, FirstLines, Left, Source
<1> QED BY <1>1, <1>2, <1>3

\* The inductive invariant of the loads.
LInv == TypeOK /\ LoadOK /\ file \in Files /\ LoadInv

(* The router routes by what the file says, after both loads of main. *)
THEOREM TableFollowsFile == Spec => []TableIsFile
<1>1. Init => LInv
  BY SizeAssumption, FileAssumption
  DEF Init, LInv, TypeOK, LoadOK, LoadInv, ZeroMask, Masks, Addr
<1>2. LInv /\ [Next]_vars => LInv'
  BY TypeInductive, LoadInductive DEF LInv
<1>3. LInv => TableIsFile
  BY DEF LInv, LoadInv, FirstLines, Left, TableIsFile
<1> QED BY <1>1, <1>2, <1>3, PTL DEF Spec

-----------------------------------------------------------------------------
(* The walk finds the longest prefix. *)

\* The result so far is the longest match among the routes already visited.
WalkInv ==
    pc = "walk" =>
        /\ rt <= Len(table) + 1
        /\ \/ /\ longest_match = NoRoute
              /\ longest_match_len = ZeroMask
              /\ \A i \in 1 .. rt - 1 : ~Candidate(i)
           \/ /\ longest_match \in 1 .. rt - 1
              /\ longest_match_len = table[longest_match].mask
              /\ Candidate(longest_match)
              /\ \A i \in 1 .. rt - 1 :
                   Candidate(i) =>
                     /\ AtLeast(longest_match_len, table[i].mask)
                     /\ table[i].mask = longest_match_len => longest_match <= i

(* A netmask is no shorter than itself or the empty one; longer is transitive. *)
LEMMA PrefixOrder ==
    /\ ZeroMask \in Masks
    /\ \A m \in Masks : AtLeast(m, m) /\ AtLeast(m, ZeroMask)
    /\ \A l, m, n \in Masks : AtLeast(l, m) /\ AtLeast(m, n) => AtLeast(l, n)
BY DEF ZeroMask, Masks, Addr, AtLeast

(* Of two netmasks one is at least as long as the other. *)
LEMMA PrefixTotal ==
    ASSUME NEW m \in Masks, NEW n \in Masks
    PROVE  AtLeast(m, n) \/ AtLeast(n, m)
<1> SUFFICES ASSUME ~AtLeast(m, n) PROVE AtLeast(n, m)
  OBVIOUS
<1>1. PICK b \in Bit : n[b] = 1 /\ m[b] # 1
  BY DEF AtLeast
<1>2. ASSUME NEW c \in Bit, m[c] = 1 PROVE n[c] = 1
  <2>1. ~Before(b, c)
    BY <1>1, <1>2 DEF Masks
  <2>2. c = b \/ Before(c, b)
    BY <2>1, SizeAssumption DEF Before, Bit
  <2> QED BY <1>1, <1>2, <2>2 DEF Masks
<1> QED BY <1>2 DEF AtLeast

(* One step of the walk keeps WalkInv: the mask of the visited route is        *)
(* compared with the longest one so far by GreaterIsLonger.                    *)
LEMMA WalkInductive ==
    ASSUME TypeOK, WalkInv, [Next]_vars
    PROVE  WalkInv'
<1> USE SizeAssumption, FileAssumption
<1>1. CASE VisitRoute
  <2>0. /\ pc = "walk" /\ pc' = "walk" /\ rt \in 1 .. Len(table)
        /\ rt' = rt + 1 /\ table' = table /\ dest' = dest
        /\ rt' - 1 = rt
    BY <1>1 DEF VisitRoute, TypeOK, loadVars
  <2>1. \A i : Candidate(i)' <=> Candidate(i)
    BY <2>0 DEF Candidate, Matches
  <2> DEFINE m == table[rt].mask
             l == longest_match_len
  <2>2. m \in Masks /\ l \in Masks
    <3>1. table[rt] \in Route
      BY <2>0 DEF TypeOK
    <3> QED BY <3>1 DEF TypeOK, Route
  <2>3. \A i \in 1 .. rt : i = rt \/ i \in 1 .. rt - 1
    BY <2>0
  <2>4. \A i \in 1 .. rt : table[i].mask \in Masks
    <3> SUFFICES ASSUME NEW i \in 1 .. rt PROVE table[i].mask \in Masks
      OBVIOUS
    <3>1. table[i] \in Route
      BY <2>0 DEF TypeOK
    <3> QED BY <3>1 DEF Route
  <2>5. CASE Matches(dest, table[rt]) /\ Greater(m, l)
    <3>1. AtLeast(m, l) /\ m # l
      BY <2>2, <2>5, GreaterIsLonger
    <3>2. m # ZeroMask
      <4>1. m[CHOOSE b \in Bit : m[b] = 1] = 1 /\ \E b \in Bit : m[b] = 1
        BY <2>5 DEF Greater
      <4> QED BY <4>1 DEF ZeroMask
    <3>3. Candidate(rt)
      BY <2>5, <3>2 DEF Candidate
    <3>4. longest_match' = rt /\ longest_match_len' = m
      BY <1>1, <2>5 DEF VisitRoute, MatchLen
    <3>5. ASSUME NEW i \in 1 .. rt, Candidate(i)
          PROVE  AtLeast(m, table[i].mask) /\ (table[i].mask = m => rt <= i)
      <4>1. CASE i = rt
        BY <4>1, <2>2, <2>0, PrefixOrder
      <4>2. CASE i \in 1 .. rt - 1
        <5>1. AtLeast(l, table[i].mask)
          BY <4>2, <3>5, <2>0 DEF WalkInv
        <5>2. AtLeast(m, table[i].mask)
          BY <5>1, <3>1, <2>2, <2>4, PrefixOrder
        <5>3. table[i].mask # m
          BY <5>1, <3>1, <2>2, GreaterIsLonger DEF AtLeast, Masks, Addr
        <5> QED BY <5>2, <5>3
      <4> QED BY <2>3, <4>1, <4>2
    <3> QED BY <2>0, <2>1, <3>3, <3>4, <3>5 DEF WalkInv
  <2>6. CASE ~(Matches(dest, table[rt]) /\ Greater(m, l))
    <3>1. longest_match' = longest_match /\ longest_match_len' = l
      BY <1>1, <2>6 DEF VisitRoute
    <3>2. Candidate(rt) => AtLeast(l, m) /\ l # ZeroMask
      <4> SUFFICES ASSUME Candidate(rt) PROVE AtLeast(l, m) /\ l # ZeroMask
        OBVIOUS
      <4>1. ~(AtLeast(m, l) /\ m # l) /\ m # ZeroMask
        BY <2>2, <2>6, GreaterIsLonger DEF Candidate
      <4>2. l # ZeroMask
        BY <4>1, <2>2, PrefixOrder
      <4>3. AtLeast(l, m)
        BY <4>1, <2>2, PrefixTotal, PrefixOrder
      <4> QED BY <4>2, <4>3
    <3>3. CASE longest_match = NoRoute
      <4>1. l = ZeroMask /\ \A i \in 1 .. rt - 1 : ~Candidate(i)
        BY <2>0, <3>3 DEF WalkInv
      <4> QED BY <2>0, <2>1, <2>3, <3>1, <3>2, <3>3, <4>1 DEF WalkInv
    <3>4. CASE longest_match # NoRoute
      <4>1. /\ longest_match \in 1 .. rt - 1
            /\ l = table[longest_match].mask
            /\ Candidate(longest_match)
            /\ \A i \in 1 .. rt - 1 :
                 Candidate(i) => /\ AtLeast(l, table[i].mask)
                                 /\ table[i].mask = l => longest_match <= i
        BY <2>0, <3>4 DEF WalkInv
      <4>2. \A i \in 1 .. rt :
               Candidate(i) => /\ AtLeast(l, table[i].mask)
                               /\ table[i].mask = l => longest_match <= i
        BY <2>0, <2>3, <3>2, <4>1
      <4>3. longest_match \in 1 .. rt
        BY <4>1, <2>0
      <4> QED BY <2>0, <2>1, <3>1, <4>1, <4>2, <4>3 DEF WalkInv
    <3> QED BY <3>3, <3>4
  <2> QED BY <2>5, <2>6
<1>2. ASSUME NEW d \in Dests, StartMatch(d) PROVE WalkInv'
  BY <1>2 DEF StartMatch, WalkInv, TypeOK, loadVars
<1>3. CASE ReadLine \/ RejectLine \/ EndLoad \/ ReturnMatch
  BY <1>3 DEF ReadLine, RejectLine, EndLoad, ReturnMatch, WalkInv
<1>4. CASE UNCHANGED vars
  BY <1>4 DEF WalkInv, Candidate, Matches, vars
<1> QED BY <1>1, <1>2, <1>3, <1>4 DEF Next

(* The route that sr_longest_prefix_match returns has the longest matching     *)
(* prefix, and it returns none only if no prefix but an empty one matches: for *)
(* every table and every destination.                                          *)
THEOREM LongestMatchCorrect == Spec => []LongestMatch
<1> DEFINE Inv == TypeOK /\ LoadOK /\ file \in Files /\ WalkInv
<1>1. Init => Inv
  BY SizeAssumption, FileAssumption
  DEF Init, TypeOK, LoadOK, WalkInv, ZeroMask, Masks, Addr
<1>2. Inv /\ [Next]_vars => Inv'
  BY TypeInductive, WalkInductive
<1>3. Inv => LongestMatch
  <2> SUFFICES ASSUME Inv, Done PROVE LongestMatch
    BY DEF LongestMatch
  <2>1. rt - 1 = Len(table) /\ DOMAIN table = 1 .. Len(table)
    BY DEF Done, TypeOK, WalkInv
  <2>2. CASE longest_match = NoRoute
    BY <2>1, <2>2, FileAssumption DEF LongestMatch, Done, WalkInv
  <2>3. CASE longest_match # NoRoute
    <3>1. /\ longest_match \in DOMAIN table
          /\ Matches(dest, table[longest_match])
          /\ table[longest_match].mask # ZeroMask
      BY <2>1, <2>3 DEF Done, WalkInv, Candidate
    <3>2. ASSUME NEW i \in DOMAIN table, Matches(dest, table[i])
          PROVE  /\ AtLeast(table[longest_match].mask, table[i].mask)
                 /\ table[i].mask = table[longest_match].mask => longest_match <= i
      <4>1. CASE Candidate(i)
        BY <2>1, <2>3, <4>1 DEF Done, WalkInv
      <4>2. CASE ~Candidate(i)
        <5>1. table[i].mask = ZeroMask
          BY <3>2, <4>2 DEF Candidate
        <5>2. table[longest_match] \in Route
          BY <3>1 DEF TypeOK
        <5> QED BY <3>1, <5>1, <5>2, PrefixOrder DEF Route
      <4> QED BY <4>1, <4>2
    <3> QED BY <2>3, <3>1, <3>2 DEF LongestMatch
  <2> QED BY <2>2, <2>3
<1> QED
  <2> HIDE DEF Inv
  <2> QED BY <1>1, <1>2, <1>3, PTL DEF Spec

=============================================================================
