------------------------- MODULE BinaryVectorProofs -------------------------
(***************************************************************************)
(* Proofs about BinaryVector, for bytes of any size.                        *)
(*                                                                         *)
(* Everything is stated relative to a sequence of bits u that is being put   *)
(* together: Holds(v, u, m) says that v holds the first m bits of u, byte by *)
(* byte, with zeroes after them.  An operation that appends takes a vector   *)
(* that holds the first m bits of u to one that holds more of them, and a    *)
(* loop over bytes is the repetition of that.  All positions are written as  *)
(* the offset of the first bit of a byte and an offset in the byte, so that  *)
(* divisions appear only in the lemmas of the first section.                 *)
(*                                                                         *)
(* The operations come first, one lemma each, then the calls: Inv says that  *)
(* the vector holds the bits its callers take it for, and each call keeps    *)
(* it.  The four properties of the run follow from Inv.                      *)
(***************************************************************************)
EXTENDS BinaryVector, SequenceTheorems, TLAPS

-------------------------------------------------------------------------------
(* Positions of bits in bytes *)

\* Offset of the first bit of byte j, the bytes being counted from 1.
Start(j) == (j - 1) * ByteBits

\* Byte by byte, the offset grows by the bits of a byte.
LEMMA Starts ==
  ASSUME NEW j \in Int
  PROVE  /\ Start(j) \in Int /\ Start(1) = 0
         /\ Start(j + 1) = Start(j) + ByteBits
         /\ Start(j + 2) = Start(j + 1) + ByteBits
BY ByteBitsAssumption, SMTT(60) DEF Start

\* A byte ends before a later one begins.
LEMMA StartOrder ==
  ASSUME NEW j \in Int, NEW k \in Int, j < k
  PROVE  Start(j) + ByteBits <= Start(k)
BY ByteBitsAssumption, SMTT(60) DEF Start

\* The byte and the offset in it of a bit.
LEMMA DivMod ==
  ASSUME NEW n \in Int
  PROVE  /\ n \div ByteBits \in Int /\ n % ByteBits \in BitPos
         /\ n = Start(n \div ByteBits + 1) + (n % ByteBits)
BY ByteBitsAssumption, SMTT(60) DEF Start, BitPos

\* They are the only ones.
LEMMA DivModUnique ==
  ASSUME NEW n \in Int, NEW q \in Int, NEW r \in BitPos, n = Start(q + 1) + r
  PROVE  n \div ByteBits = q /\ n % ByteBits = r
BY ByteBitsAssumption, SMTT(60) DEF Start, BitPos

\* The byte of a position is not negative.
LEMMA DivNat ==
  ASSUME NEW n \in Nat
  PROVE  n \div ByteBits \in Nat
<1>1. n \div ByteBits \in Int /\ n % ByteBits \in BitPos /\ n = Start(n \div ByteBits + 1) + (n % ByteBits)
  BY DivMod
<1>2. ASSUME n \div ByteBits < 0 PROVE FALSE
  <2>1. Start(n \div ByteBits + 1) + ByteBits <= Start(1)
    BY <1>1, <1>2, StartOrder
  <2> QED BY <1>1, <2>1, Starts, ByteBitsAssumption DEF BitPos
<1> QED BY <1>1, <1>2

\* The bytes that m bits need: the last of them begins before the end.
LEMMA BytesBounds ==
  ASSUME NEW m \in Nat
  PROVE  /\ BytesCountFromBitsCount(m) \in Nat
         /\ Start(BytesCountFromBitsCount(m)) < m
         /\ m <= Start(BytesCountFromBitsCount(m) + 1)
<1> DEFINE k == (m + ByteBits - 1) \div ByteBits
           r == (m + ByteBits - 1) % ByteBits
<1>1. BytesCountFromBitsCount(m) = k
  BY DEF BytesCountFromBitsCount
<1>2. m + ByteBits - 1 \in Nat
  BY ByteBitsAssumption
<1>3. k \in Nat /\ r \in BitPos /\ m + ByteBits - 1 = Start(k + 1) + r
  BY <1>2, DivMod, DivNat
<1> HIDE DEF k, r
<1>4. Start(k + 1) = Start(k) + ByteBits /\ Start(k) \in Int
  BY <1>3, ByteBitsAssumption DEF Start
<1> QED BY <1>1, <1>3, <1>4, ByteBitsAssumption DEF BitPos

\* And no other number of bytes is like that.
LEMMA BytesUnique ==
  ASSUME NEW m \in Nat, NEW k \in Int, Start(k) < m, m <= Start(k + 1)
  PROVE  BytesCountFromBitsCount(m) = k
<1> DEFINE b == BytesCountFromBitsCount(m)
<1>1. b \in Nat /\ Start(b) < m /\ m <= Start(b + 1)
  BY BytesBounds
<1> HIDE DEF b
<1>2. ASSUME b < k PROVE FALSE
  <2>1. Start(b) + ByteBits <= Start(k) /\ Start(b + 1) = Start(b) + ByteBits
    BY <1>1, <1>2, StartOrder, Starts
  <2>2. Start(b) \in Int /\ Start(k) \in Int
    BY <1>1, Starts
  <2> QED BY <1>1, <2>1, <2>2, ByteBitsAssumption
<1>3. ASSUME k < b PROVE FALSE
  <2>1. Start(k) + ByteBits <= Start(b) /\ Start(k + 1) = Start(k) + ByteBits
    BY <1>1, <1>3, StartOrder, Starts
  <2>2. Start(b) \in Int /\ Start(k) \in Int
    BY <1>1, Starts
  <2> QED BY <1>1, <2>1, <2>2, ByteBitsAssumption
<1> QED BY <1>1, <1>2, <1>3 DEF b

\* Whether a position lies in the bytes before the last.
LEMMA BytesSplit ==
  ASSUME NEW m \in Nat
  PROVE  LET q == m \div ByteBits
             r == m % ByteBits
         IN  /\ q \in Nat /\ r \in BitPos /\ m = Start(q + 1) + r
             /\ BytesCountFromBitsCount(m) = IF r = 0 THEN q ELSE q + 1
<1> DEFINE q == m \div ByteBits
           r == m % ByteBits
<1>1. q \in Nat /\ r \in BitPos /\ m = Start(q + 1) + r
  BY DivMod, DivNat
<1> HIDE DEF q, r
<1>2. Start(q + 1) = Start(q) + ByteBits /\ Start(q + 2) = Start(q + 1) + ByteBits /\ Start(q) \in Int
  BY <1>1, ByteBitsAssumption DEF Start
<1>3. CASE r = 0
  <2>1. Start(q) < m /\ m <= Start(q + 1)
    BY <1>1, <1>2, <1>3, ByteBitsAssumption
  <2> QED BY <1>1, <1>3, <2>1, BytesUnique DEF q, r
<1>4. CASE r # 0
  <2>1. Start(q + 1) < m /\ m <= Start((q + 1) + 1)
    BY <1>1, <1>2, <1>4, ByteBitsAssumption DEF BitPos
  <2> QED BY <1>1, <1>4, <2>1, BytesUnique DEF q, r
<1> QED BY <1>3, <1>4 

-------------------------------------------------------------------------------
(* A vector that holds the beginning of a sequence of bits *)

\* The three members of the class.
Vectors == [data : Seq(Byte), used : Nat, fixed : BOOLEAN]

\* v holds the first m bits of u, and zeroes after them.
Holds(v, u, m) ==
  /\ v \in Vectors /\ v.used = m
  /\ Len(v.data) = BytesCountFromBitsCount(m)
  /\ \A j \in 1 .. Len(v.data), i \in BitPos :
       v.data[j][i] = IF Start(j) + i < m THEN u[Start(j) + i + 1] ELSE 0


\* The bytes of a vector of k bytes lie between the first bit and the end.
LEMMA ByteBounds ==
  ASSUME NEW k \in Int, NEW j \in 1 .. k
  PROVE  Start(j) \in Nat /\ Start(j) + ByteBits <= Start(k + 1) /\ Start(k + 1) \in Nat
<1>1. Start(j) \in Int /\ Start(k + 1) \in Int /\ Start(1) = 0
  BY Starts
<1>2. Start(j) + ByteBits <= Start(k + 1)
  BY StartOrder
<1>3. j > 1 => Start(1) + ByteBits <= Start(j)
  BY StartOrder
<1>4. CASE j = 1
  BY <1>1, <1>2, <1>4, ByteBitsAssumption
<1>5. CASE j > 1
  BY <1>1, <1>2, <1>3, <1>5, ByteBitsAssumption
<1> QED BY <1>4, <1>5

\* What a byte that is appended contributes, at the left end of a byte.
LEMMA LeftAlignedIs ==
  ASSUME NEW value \in Byte, NEW n \in 1 .. ByteBits, NEW alignment \in {"Left", "Right"}
  PROVE  /\ LeftAligned(value, n, alignment) \in Byte
         /\ \A i \in BitPos : LeftAligned(value, n, alignment)[i] =
              IF i < n THEN IF alignment = "Left" THEN value[i] ELSE value[ByteBits - n + i]
              ELSE 0
<1>1. ASSUME NEW i \in BitPos, i < n PROVE ByteBits - n + i \in BitPos /\ i + (ByteBits - n) = ByteBits - n + i
  BY <1>1, ByteBitsAssumption DEF BitPos
<1>2. \A i \in BitPos : value[i] \in Bit
  BY DEF Byte
<1>3. 0 \in Bit
  BY DEF Bit
<1> QED BY <1>1, <1>2, <1>3, ByteBitsAssumption DEF LeftAligned, KeepLeft, Shl, Byte, BitPos

\* To show that a vector holds bits: the lengths, and each byte.
LEMMA HoldsIf ==
  ASSUME NEW u, NEW v \in Vectors, NEW d \in Seq(Byte), NEW m \in Nat,
         Len(d) = BytesCountFromBitsCount(m),
         \A j \in 1 .. Len(d), i \in BitPos :
           d[j][i] = IF Start(j) + i < m THEN u[Start(j) + i + 1] ELSE 0
  PROVE  Holds(With(v, d, m), u, m)
<1> DEFINE w == With(v, d, m)
<1>1. w \in Vectors /\ w.data = d /\ w.used = m
  BY DEF Vectors, With
<1> HIDE DEF w
<1>2. Holds(w, u, m)
  BY <1>1 DEF Holds
<1> QED BY <1>2 DEF w

\* Merge of two bytes.
LEMMA MergeIs ==
  ASSUME NEW a \in Byte, NEW b \in Byte
  PROVE  /\ Merge(a, b) \in Byte
         /\ \A i \in BitPos : Merge(a, b)[i] = IF a[i] + b[i] = 0 THEN 0 ELSE 1
         /\ \A i \in BitPos : (a[i] = 0 => Merge(a, b)[i] = b[i]) /\ (b[i] = 0 => Merge(a, b)[i] = a[i])
BY DEF Merge, OrBits, Byte, Bit

\* The shifts.
LEMMA ShiftsAre ==
  ASSUME NEW b \in Byte, NEW n \in 0 .. ByteBits
  PROVE  /\ Shr(b, n) \in Byte /\ Shl(b, n) \in Byte
         /\ \A i \in BitPos : Shr(b, n)[i] = IF i >= n THEN b[i - n] ELSE 0
         /\ \A i \in BitPos : Shl(b, n)[i] = IF i + n < ByteBits THEN b[i + n] ELSE 0
<1>1. \A i \in BitPos : i >= n => i - n \in BitPos
  BY ByteBitsAssumption DEF BitPos
<1>2. \A i \in BitPos : i + n < ByteBits => i + n \in BitPos
  BY ByteBitsAssumption DEF BitPos
<1> QED BY <1>1, <1>2 DEF Shr, Shl, Byte, Bit

\* The n bits that are taken from a byte are those of u from offset m on.
Taken(u, m, value, n, alignment) ==
  \A i \in 0 .. n - 1 :
    u[m + i + 1] = IF alignment = "Left" THEN value[i] ELSE value[ByteBits - n + i]

\* One more byte, of which n bits are taken: the vector holds n bits more.
LEMMA AppendByteHolds ==
  ASSUME NEW u, NEW m \in Nat, NEW n \in 1 .. ByteBits, NEW v,
         Holds(v, u, m), NEW value \in Byte, NEW alignment \in {"Left", "Right"},
         Taken(u, m, value, n, alignment)
  PROVE  Holds(AppendByte(v, value, n, alignment), u, m + n)
<1> DEFINE left == LeftAligned(value, n, alignment)
           q == m \div ByteBits
           r == m % ByteBits
           d == v.data
           mixed == Front(d) \o <<Merge(Last(d), Shr(left, r))>>
           w == AppendByte(v, value, n, alignment)
<1>1. left \in Byte /\ \A i \in BitPos : left[i] = IF i < n THEN u[m + i + 1] ELSE 0
  <2>1. left \in Byte /\ \A i \in BitPos : left[i] =
              IF i < n THEN IF alignment = "Left" THEN value[i] ELSE value[ByteBits - n + i]
              ELSE 0
    BY LeftAlignedIs
  <2> HIDE DEF left
  <2>2. ASSUME NEW i \in BitPos, i < n
        PROVE  u[m + i + 1] = IF alignment = "Left" THEN value[i] ELSE value[ByteBits - n + i]
    BY <2>2 DEF BitPos, Taken
  <2> QED BY <2>1, <2>2
<1>2. q \in Nat /\ r \in BitPos
  BY BytesSplit
<1>8. BytesCountFromBitsCount(m) = IF r = 0 THEN q ELSE q + 1
  BY BytesSplit
<1>3. /\ v \in Vectors /\ d \in Seq(Byte) /\ Len(d) = BytesCountFromBitsCount(m) /\ v.used = m
      /\ \A j \in 1 .. Len(d), i \in BitPos : d[j][i] = IF Start(j) + i < m THEN u[Start(j) + i + 1] ELSE 0
  BY DEF Holds, Vectors
<1>4. w = With(v, IF r = 0 THEN Append(d, left)
                  ELSE IF ByteBits - r >= n THEN mixed ELSE Append(mixed, Shl(left, ByteBits - r)),
               m + n)
  BY <1>3 DEF AppendByte
<1> DEFINE s == Start(q + 1)
<1>5. /\ s \in Int /\ Start(q) = s - ByteBits /\ Start(q + 1) = s /\ Start(q + 2) = s + ByteBits
      /\ Start((q + 1) + 1) = s + ByteBits /\ Start((q + 2) + 1) = s + ByteBits + ByteBits
      /\ m = s + r
  <2>1. m = Start(q + 1) + r
    BY BytesSplit
  <2> HIDE DEF q, r
  <2> QED BY <1>2, <2>1, ByteBitsAssumption DEF Start
<1> HIDE DEF left, q, r, d, w, s
<1>6. CASE r = 0
  <2> DEFINE e == Append(d, left)
  <2>1. e \in Seq(Byte) /\ Len(e) = q + 1 /\ e[q + 1] = left /\ \A j \in 1 .. q : e[j] = d[j]
    BY <1>1, <1>2, <1>3, <1>6, <1>8
  <2>2. BytesCountFromBitsCount(m + n) = q + 1
    BY <1>2, <1>5, <1>6, BytesUnique, ByteBitsAssumption DEF BitPos
  <2>3. w = With(v, e, m + n)
    BY <1>4, <1>6
  <2> HIDE DEF e
  <2>4. ASSUME NEW j \in 1 .. q + 1, NEW i \in BitPos
        PROVE  e[j][i] = IF Start(j) + i < m + n THEN u[Start(j) + i + 1] ELSE 0
    <3>1. CASE j = q + 1
      <4>1. Start(j) = m
        BY <1>2, <1>5, <1>6, <3>1
      <4>2. Start(j) + i < m + n <=> i < n
        BY <4>1 DEF BitPos
      <4> QED BY <1>1, <2>1, <3>1, <4>1, <4>2
    <3>2. CASE j # q + 1
      <4>1. j \in 1 .. q /\ j \in 1 .. Len(d)
        BY <1>2, <1>3, <1>6, <1>8, <3>2
      <4>2. Start(j) \in Nat /\ Start(j) + ByteBits <= Start(q + 1)
        BY <1>2, <4>1, ByteBounds
      <4>3. d[j][i] = IF Start(j) + i < m THEN u[Start(j) + i + 1] ELSE 0
        BY <1>3, <4>1
      <4>4. Start(j) + i < m /\ Start(j) + i < m + n
        BY <1>2, <1>5, <4>2, ByteBitsAssumption DEF BitPos
      <4> QED BY <2>1, <4>1, <4>3, <4>4
    <3> QED BY <3>1, <3>2
  <2>5. m + n \in Nat
    OBVIOUS
  <2> QED BY SMTT(60), <1>2, <1>3, <2>1, <2>2, <2>3, <2>4, <2>5, HoldsIf DEF w
<1>7. CASE r # 0
  <2>1. Len(d) = q + 1 /\ d[q + 1] \in Byte
    BY <1>2, <1>3, <1>7, <1>8
  <2> DEFINE last == Merge(d[q + 1], Shr(left, r))
  <2>2. r \in 0 .. ByteBits /\ ByteBits - r \in 0 .. ByteBits
    BY <1>2, ByteBitsAssumption DEF BitPos
  <2>3. last \in Byte /\ \A i \in BitPos : last[i] = IF i < r THEN u[Start(q + 1) + i + 1]
                                                    ELSE IF i - r < n THEN u[Start(q + 1) + i + 1] ELSE 0
    <3>1. Shr(left, r) \in Byte /\ \A i \in BitPos : Shr(left, r)[i] = IF i >= r THEN left[i - r] ELSE 0
      BY <1>1, <2>2, ShiftsAre
    <3>2. ASSUME NEW i \in BitPos PROVE d[q + 1][i] = IF i < r THEN u[Start(q + 1) + i + 1] ELSE 0
      <4>1. d[q + 1][i] = IF Start(q + 1) + i < m THEN u[Start(q + 1) + i + 1] ELSE 0
        BY <1>2, <1>3, <2>1
      <4>2. Start(q + 1) + i < m <=> i < r
        BY <1>2, <1>5 DEF BitPos
      <4> QED BY <4>1, <4>2
    <3>3. ASSUME NEW i \in BitPos, i >= r
          PROVE  left[i - r] = IF i - r < n THEN u[Start(q + 1) + i + 1] ELSE 0
      <4>1. i - r \in BitPos
        BY <1>2, <3>3, ByteBitsAssumption DEF BitPos
      <4>2. m + (i - r) + 1 = Start(q + 1) + i + 1
        BY <1>2, <1>5 DEF BitPos
      <4> QED BY <1>1, <4>1, <4>2
    <3>5. last \in Byte /\ \A i \in BitPos : (d[q + 1][i] = 0 => last[i] = Shr(left, r)[i])
                                             /\ (Shr(left, r)[i] = 0 => last[i] = d[q + 1][i])
      BY <2>1, <3>1, MergeIs
    <3> HIDE DEF last
    <3>6. ASSUME NEW i \in BitPos
          PROVE  last[i] = IF i < r THEN u[Start(q + 1) + i + 1]
                           ELSE IF i - r < n THEN u[Start(q + 1) + i + 1] ELSE 0
      <4>1. CASE i < r
        <5>1. ~(i >= r)
          BY <1>2, <4>1 DEF BitPos
        <5> QED BY <3>1, <3>2, <3>5, <4>1, <5>1
      <4>2. CASE ~(i < r)
        <5>1. i >= r
          BY <1>2, <4>2 DEF BitPos
        <5> QED BY <3>1, <3>2, <3>3, <3>5, <4>2, <5>1
      <4> QED BY <4>1, <4>2
    <3> QED BY <3>5, <3>6
  <2>4. mixed = Front(d) \o <<last>>
    BY <2>1 DEF Last
  <2>5. mixed \in Seq(Byte) /\ Len(mixed) = q + 1 /\ mixed[q + 1] = last /\ \A j \in 1 .. q : mixed[j] = d[j]
    <3> HIDE DEF last
    <3> QED BY <1>2, <1>3, <2>1, <2>3, <2>4 DEF Front
  <2> HIDE DEF mixed, last
  <2>6. ASSUME NEW j \in 1 .. q + 1, NEW i \in BitPos
        PROVE  mixed[j][i] = IF Start(j) + i < m + n THEN u[Start(j) + i + 1] ELSE 0
    <3>1. CASE j = q + 1
      <4>1. mixed[j][i] = IF i < r THEN u[Start(q + 1) + i + 1]
                                                    ELSE IF i - r < n THEN u[Start(q + 1) + i + 1] ELSE 0
        BY <2>3, <2>5, <3>1
      <4>2. Start(j) + i < m + n <=> i < r \/ i - r < n
        BY <1>2, <1>5, <3>1 DEF BitPos
      <4> QED BY <3>1, <4>1, <4>2
    <3>2. CASE j # q + 1
      <4>1. j \in 1 .. q /\ j \in 1 .. Len(d)
        BY <1>2, <2>1, <3>2
      <4>2. Start(j) \in Nat /\ Start(j) + ByteBits <= Start(q + 1)
        BY <1>2, <4>1, ByteBounds
      <4>3. d[j][i] = IF Start(j) + i < m THEN u[Start(j) + i + 1] ELSE 0
        BY <1>3, <4>1
      <4>4. Start(j) + i < m /\ Start(j) + i < m + n
        BY <1>2, <1>5, <4>2, ByteBitsAssumption DEF BitPos
      <4> QED BY <2>5, <4>1, <4>3, <4>4
    <3> QED BY <3>1, <3>2
  <2>7. CASE ByteBits - r >= n
    <3>1. w = With(v, mixed, m + n)
      BY <1>4, <1>7, <2>7
    <3>2. BytesCountFromBitsCount(m + n) = q + 1
      <4>1. Start(q + 1) < m + n /\ m + n <= Start((q + 1) + 1)
        BY <1>2, <1>5, <2>7, ByteBitsAssumption DEF BitPos
      <4> QED BY <1>2, <4>1, BytesUnique
    <3>3. m + n \in Nat
      OBVIOUS
    <3> QED BY SMTT(60), <1>2, <1>3, <2>5, <2>6, <3>1, <3>2, <3>3, HoldsIf DEF w
  <2>8. CASE ~(ByteBits - r >= n)
    <3> DEFINE over == Shl(left, ByteBits - r)
               e == Append(mixed, over)
    <3>1. over \in Byte /\ \A i \in BitPos : over[i] = IF i + (ByteBits - r) < ByteBits THEN left[i + (ByteBits - r)] ELSE 0
      BY <1>1, <2>2, ShiftsAre
    <3>2. w = With(v, e, m + n)
      BY <1>4, <1>7, <2>8
    <3>3. BytesCountFromBitsCount(m + n) = q + 2
      <4>1. Start(q + 2) < m + n /\ m + n <= Start((q + 2) + 1)
        BY <1>2, <1>5, <2>8, ByteBitsAssumption DEF BitPos
      <4> QED BY <1>2, <4>1, BytesUnique
    <3>4. e \in Seq(Byte) /\ Len(e) = q + 2 /\ e[q + 2] = over /\ \A j \in 1 .. q + 1 : e[j] = mixed[j]
      <4> HIDE DEF over
      <4> QED BY <1>2, <2>5, <3>1
    <3> HIDE DEF e, over
    <3>5. ASSUME NEW j \in 1 .. q + 2, NEW i \in BitPos
          PROVE  e[j][i] = IF Start(j) + i < m + n THEN u[Start(j) + i + 1] ELSE 0
      <4>1. CASE j = q + 2
        <5>1. e[j][i] = over[i]
          BY <3>4, <4>1
        <5>2. CASE i < r
          <6>1. i + (ByteBits - r) \in BitPos /\ i + (ByteBits - r) < ByteBits
            BY <1>2, <5>2, ByteBitsAssumption DEF BitPos
          <6>2. e[j][i] = IF i + (ByteBits - r) < n THEN u[m + (i + (ByteBits - r)) + 1] ELSE 0
            BY <1>1, <3>1, <5>1, <6>1
          <6>3. m + (i + (ByteBits - r)) = Start(j) + i
            BY <1>2, <1>5, <4>1, ByteBitsAssumption DEF BitPos
          <6>4. i + (ByteBits - r) < n <=> Start(j) + i < m + n
            BY <1>2, <1>5, <4>1, ByteBitsAssumption DEF BitPos
          <6> QED BY <6>2, <6>3, <6>4
        <5>3. CASE ~(i < r)
          <6>1. ~(i + (ByteBits - r) < ByteBits)
            BY <1>2, <5>3, ByteBitsAssumption DEF BitPos
          <6>2. ~(Start(j) + i < m + n)
            BY <1>2, <1>5, <4>1, <5>3, ByteBitsAssumption DEF BitPos
          <6> QED BY <3>1, <5>1, <6>1, <6>2
        <5> QED BY <5>2, <5>3
      <4>2. CASE j # q + 2
        <5>1. j \in 1 .. q + 1
          BY <1>2, <4>2
        <5> QED BY <2>6, <3>4, <5>1
      <4> QED BY <4>1, <4>2
    <3>6. m + n \in Nat /\ Len(e) = BytesCountFromBitsCount(m + n)
      BY <3>3, <3>4
    <3>7. \A j \in 1 .. Len(e), i \in BitPos :
            e[j][i] = IF Start(j) + i < m + n THEN u[Start(j) + i + 1] ELSE 0
      BY <3>4, <3>5
    <3> QED BY <1>3, <3>2, <3>4, <3>6, <3>7, HoldsIf DEF w
  <2> QED BY <2>7, <2>8
<1> QED BY <1>6, <1>7

-------------------------------------------------------------------------------
(* Appending several bytes *)

\* What the loops do with one byte: AppendBytes.
ByteStep(c, w, b) == AppendByte(w, b, ByteBits, "Right")

\* The bits that AppendChunks takes of chunk j of more + 1.
ChunkSize(n, alignment, j) ==
  LET more == (n - 1) \div ByteBits
  IN  IF alignment = "Left"
        THEN IF n - j * ByteBits < ByteBits THEN n - j * ByteBits ELSE ByteBits
        ELSE IF j = 0 THEN n - more * ByteBits ELSE ByteBits

\* AppendChunks, c being the number of bits, the alignment, the chunks and the
\* number of those that are skipped.
ChunkStep(c, w, j) == AppendByte(w, c[3][c[4] + j + 1], ChunkSize(c[1], c[2], j), c[2])

\* The lemmas about folds for each of them.
ByByte  == INSTANCE FoldLemmas WITH Op <- ByteStep
ByChunk == INSTANCE FoldLemmas WITH Op <- ChunkStep

\* AppendBytes as a fold of its step.
LEMMA AppendBytesFold ==
  ASSUME NEW v, NEW bytes
  PROVE  AppendBytes(v, bytes) = ByByte!FoldOfSeq(0, v, bytes)
BY SMTT(60) DEF AppendBytes, FoldLeft, MapThenFoldSet, Max, ByteStep, ByByte!FoldOfSeq,
                ByByte!FoldLeft, ByByte!MapThenFoldSet, ByByte!Max

\* The bytes are the bits of u from offset m on.
BytesAre(u, m, bytes) ==
  \A k \in 1 .. Len(bytes), i \in BitPos : u[m + Start(k) + i + 1] = bytes[k][i]

\* Whole bytes at the end of a vector, whatever its alignment.
LEMMA AppendBytesHolds ==
  ASSUME NEW u, NEW m \in Nat, NEW v, Holds(v, u, m), NEW bytes \in Seq(Byte),
         BytesAre(u, m, bytes)
  PROVE  Holds(AppendBytes(v, bytes), u, m + Start(Len(bytes) + 1))
<1>1. PICK f : ByByte!SeqSteps(f, 0, v, bytes, AppendBytes(v, bytes))
  <2>1. DOMAIN bytes = 1 .. Len(bytes) /\ Len(bytes) \in Nat
    OBVIOUS
  <2> QED BY <2>1, AppendBytesFold, ByByte!FoldLeftSteps
<1>2. /\ f[0] = v /\ f[Len(bytes)] = AppendBytes(v, bytes)
      /\ \A k \in 1 .. Len(bytes) : f[k] = AppendByte(f[k - 1], bytes[k], ByteBits, "Right")
  BY <1>1 DEF ByByte!SeqSteps, ByteStep
<1> DEFINE T == {k \in Nat : k <= Len(bytes) => Holds(f[k], u, m + Start(k + 1))}
<1>3. 0 \in T
  <2>1. m + Start(0 + 1) = m
    BY Starts
  <2> QED BY <1>2, <2>1
<1>4. ASSUME NEW k \in T PROVE k + 1 \in T
  <2> SUFFICES ASSUME k + 1 <= Len(bytes) PROVE Holds(f[k + 1], u, m + Start((k + 1) + 1))
    OBVIOUS
  <2>1. k \in Nat /\ k + 1 \in 1 .. Len(bytes) /\ Len(bytes) \in Nat
    OBVIOUS
  <2>2. Holds(f[k], u, m + Start(k + 1))
    BY <2>1
  <2>3. f[k + 1] = AppendByte(f[k], bytes[k + 1], ByteBits, "Right")
    <3>1. (k + 1) - 1 = k
      BY <2>1
    <3> QED BY <1>2, <2>1, <3>1
  <2>4. Start(k + 1) \in Nat /\ Start((k + 1) + 1) = Start(k + 1) + ByteBits
    <3>1. k + 1 \in 1 .. k + 1 /\ k + 1 \in Int
      BY <2>1
    <3> QED BY <3>1, ByteBounds, Starts
  <2> DEFINE s == Start(k + 1)
  <2>5. Taken(u, m + s, bytes[k + 1], ByteBits, "Right")
    <3> SUFFICES ASSUME NEW i \in 0 .. ByteBits - 1
                 PROVE  u[m + s + i + 1] = bytes[k + 1][ByteBits - ByteBits + i]
      BY DEF Taken
    <3>1. i \in BitPos /\ ByteBits - ByteBits + i = i
      BY ByteBitsAssumption DEF BitPos
    <3> QED BY <2>1, <3>1 DEF BytesAre
  <2>6. bytes[k + 1] \in Byte /\ ByteBits \in 1 .. ByteBits /\ m + s \in Nat
    BY <2>1, <2>4, ByteBitsAssumption
  <2>7. Holds(AppendByte(f[k], bytes[k + 1], ByteBits, "Right"), u, (m + s) + ByteBits)
    <3> HIDE DEF s, T
    <3>1. Holds(f[k], u, m + s)
      BY <2>2 DEF s
    <3> QED BY <2>5, <2>6, <3>1, AppendByteHolds
  <2>8. (m + s) + ByteBits = m + Start((k + 1) + 1)
    BY <2>4, ByteBitsAssumption
  <2> QED BY <2>3, <2>7, <2>8
<1>5. T = Nat
  <2> HIDE DEF T
  <2>1. T \in SUBSET Nat
    BY DEF T
  <2> QED BY <1>3, <1>4, <2>1, ByByte!NatSetInduction
<1>6. Len(bytes) \in Nat
  OBVIOUS
<1> QED BY <1>2, <1>5, <1>6

-------------------------------------------------------------------------------
(* Construction *)

\* The bits in the bytes d are the first m of u; nothing is said of those after
\* them.
BitsAre(d, u, m) ==
  \A j \in 1 .. Len(d), i \in BitPos : Start(j) + i < m => d[j][i] = u[Start(j) + i + 1]

\* A vector that holds bits has the fields of one.
LEMMA HoldsFields ==
  ASSUME NEW u, NEW m, NEW v, Holds(v, u, m)
  PROVE  /\ v \in Vectors /\ v.data \in Seq(Byte) /\ v.used = m /\ m \in Nat /\ v.fixed \in BOOLEAN
         /\ Len(v.data) = BytesCountFromBitsCount(m)
         /\ BitsAre(v.data, u, m)
BY DEF Holds, Vectors, BitsAre

\* A byte that keeps some of its bits.
LEMMA KeepLeftIs ==
  ASSUME NEW b \in Byte, NEW n \in Int
  PROVE  KeepLeft(b, n) \in Byte /\ \A i \in BitPos : KeepLeft(b, n)[i] = IF i < n THEN b[i] ELSE 0
BY DEF KeepLeft, Byte, Bit

\* MaskLastByte clears what lies after the last bit.
LEMMA MaskHolds ==
  ASSUME NEW u, NEW v \in Vectors, Len(v.data) = BytesCountFromBitsCount(v.used),
         BitsAre(v.data, u, v.used)
  PROVE  Holds(MaskLastByte(v), u, v.used)
<1> DEFINE m == v.used
           d == v.data
           q == m \div ByteBits
           r == m % ByteBits
           s == Start(q + 1)
<1>1. m \in Nat /\ d \in Seq(Byte)
  BY DEF Vectors
<1>2. q \in Nat /\ r \in BitPos
  BY <1>1, BytesSplit
<1>3. m = s + r /\ s \in Int
  <2>1. m = Start(q + 1) + r
    BY <1>1, BytesSplit
  <2>2. q + 1 \in Int
    BY <1>2
  <2> HIDE DEF q, r
  <2> QED BY <2>1, <2>2, Starts
<1>4. Len(d) = IF r = 0 THEN q ELSE q + 1
  BY <1>1, BytesSplit
<1>5. MaskLastByte(v) = IF r = 0 THEN v ELSE With(v, Front(d) \o <<KeepLeft(Last(d), r)>>, m)
  BY DEF MaskLastByte
<1>6. BitsAre(d, u, m) /\ Len(d) = BytesCountFromBitsCount(m)
  OBVIOUS
<1>7. ASSUME NEW j \in 1 .. q, NEW i \in BitPos, j \in 1 .. Len(d)
      PROVE  d[j][i] = IF Start(j) + i < m THEN u[Start(j) + i + 1] ELSE 0
  <2>1. Start(j) \in Nat /\ Start(j) + ByteBits <= s
    BY <1>2, ByteBounds
  <2>2. Start(j) + i < m
    <3> HIDE DEF m, q, r, s
    <3> QED BY <1>2, <1>3, <2>1, ByteBitsAssumption DEF BitPos
  <2> QED BY <1>7, <2>2 DEF BitsAre
<1> HIDE DEF m, d, q, r, s
<1>8. CASE r = 0
  <2>1. \A j \in 1 .. Len(d), i \in BitPos :
          d[j][i] = IF Start(j) + i < m THEN u[Start(j) + i + 1] ELSE 0
    BY <1>2, <1>4, <1>7, <1>8
  <2> QED BY <1>5, <1>6, <1>8, <2>1 DEF Holds, m, d
<1>9. CASE r # 0
  <2> DEFINE last == KeepLeft(Last(d), r)
             e == Front(d) \o <<last>>
  <2>1. Len(d) = q + 1 /\ Last(d) = d[q + 1] /\ d[q + 1] \in Byte
    BY <1>1, <1>2, <1>4, <1>9 DEF Last
  <2>2. last \in Byte /\ \A i \in BitPos : last[i] = IF i < r THEN d[q + 1][i] ELSE 0
    <3>1. r \in Int
      BY <1>2 DEF BitPos
    <3> QED BY <2>1, <3>1, KeepLeftIs
  <2> HIDE DEF last
  <2>3. e \in Seq(Byte) /\ Len(e) = q + 1 /\ e[q + 1] = last /\ \A j \in 1 .. q : e[j] = d[j]
    BY <1>1, <1>2, <2>1, <2>2 DEF Front
  <2>4. MaskLastByte(v) = With(v, e, m)
    BY <1>5, <1>9 DEF last
  <2> HIDE DEF e
  <2>5. ASSUME NEW j \in 1 .. Len(e), NEW i \in BitPos
        PROVE  e[j][i] = IF Start(j) + i < m THEN u[Start(j) + i + 1] ELSE 0
    <3>1. CASE j = q + 1
      <4>1. Start(j) + i < m <=> i < r
        BY <1>1, <1>2, <1>3, <3>1 DEF BitPos, s
      <4>2. Start(j) + i < m => d[q + 1][i] = u[Start(j) + i + 1]
        BY <1>2, <1>6, <2>1, <3>1 DEF BitsAre
      <4> QED BY <2>2, <2>3, <3>1, <4>1, <4>2
    <3>2. CASE j # q + 1
      <4>1. j \in 1 .. q /\ j \in 1 .. Len(d)
        BY <1>2, <2>1, <2>3, <3>2
      <4> QED BY <1>7, <2>3, <4>1
    <3> QED BY <3>1, <3>2
  <2>6. Len(e) = BytesCountFromBitsCount(m)
    BY <1>6, <2>1, <2>3
  <2> QED BY <1>1, <2>3, <2>4, <2>5, <2>6, HoldsIf DEF m
<1> QED BY <1>8, <1>9

\* A vector made from a buffer holds the bits of the buffer.
LEMMA FromBytesHolds ==
  ASSUME NEW u, NEW n \in Nat, NEW data \in Seq(Byte), NEW fixed \in BOOLEAN,
         Len(data) >= BytesCountFromBitsCount(n), BitsAre(data, u, n)
  PROVE  Holds(FromBytes(data, n, fixed), u, n)
<1> DEFINE size == BytesCountFromBitsCount(n)
           e == [j \in 1 .. size |-> IF j <= Len(data) THEN data[j] ELSE Fill(0)]
           v == [data |-> e, used |-> n, fixed |-> fixed]
<1>1. size \in Nat /\ size <= Len(data) /\ Len(data) \in Nat
  BY BytesBounds
<1> HIDE DEF size
<1>2. \A j \in 1 .. size : j \in 1 .. Len(data) /\ e[j] = data[j] /\ data[j] \in Byte
  BY <1>1
<1>3. e = [j \in 1 .. size |-> data[j]]
  BY <1>2
<1>4. e \in Seq(Byte) /\ Len(e) = size
  BY <1>1, <1>2, <1>3
<1> HIDE DEF e
<1>5. v \in Vectors /\ v.data = e /\ v.used = n
  BY <1>4 DEF Vectors
<1>6. FromBytes(data, n, fixed) = MaskLastByte(v)
  BY DEF FromBytes, v, e, size
<1>7. BitsAre(e, u, n)
  BY <1>2, <1>4 DEF BitsAre
<1> HIDE DEF v
<1> QED BY <1>4, <1>5, <1>6, <1>7, MaskHolds DEF size

\* A byte full of one bit.
LEMMA FillIs ==
  ASSUME NEW b \in Bit
  PROVE  Fill(b) \in Byte /\ \A i \in BitPos : Fill(b)[i] = b
BY DEF Fill, Byte

\* A new vector holds its pattern.
LEMMA NewVectorHolds ==
  ASSUME NEW u, NEW n \in Nat, NEW b \in Bit, NEW fixed \in BOOLEAN,
         \A k \in 1 .. n : u[k] = b
  PROVE  Holds(NewVector(n, Fill(b), fixed), u, n)
<1> DEFINE size == BytesCountFromBitsCount(n)
           data == [j \in 1 .. size |-> Fill(b)]
<1>1. size \in Nat
  BY BytesBounds
<1>2. NewVector(n, Fill(b), fixed) = FromBytes(data, n, fixed)
  BY DEF NewVector
<1> HIDE DEF size
<1>3. data \in Seq(Byte) /\ Len(data) = size /\ \A j \in 1 .. size : data[j] = Fill(b)
  BY <1>1, FillIs
<1> HIDE DEF data
<1>4. BitsAre(data, u, n)
  <2> SUFFICES ASSUME NEW j \in 1 .. Len(data), NEW i \in BitPos, Start(j) + i < n
               PROVE  data[j][i] = u[Start(j) + i + 1]
    BY DEF BitsAre
  <2>1. Start(j) \in Nat
    BY <1>1, <1>3, ByteBounds
  <2>2. Start(j) + i + 1 \in 1 .. n
    BY <2>1 DEF BitPos
  <2> QED BY <1>3, <2>2, FillIs
<1>5. Len(data) >= size
  BY <1>1, <1>3
<1> QED BY <1>2, <1>3, <1>4, <1>5, FromBytesHolds DEF size

\* The empty vector holds none of any bits.
LEMMA EmptyHolds ==
  ASSUME NEW u
  PROVE  Holds(EmptyVector, u, 0)
<1>1. 0 \in Nat /\ 0 \in Bit /\ FALSE \in BOOLEAN /\ \A k \in 1 .. 0 : u[k] = 0
  BY DEF Bit
<1> QED BY <1>1, NewVectorHolds DEF EmptyVector

\* An argument holds its bits.
LEMMA VectorOfHolds ==
  ASSUME NEW s \in Seq(Bit)
  PROVE  Holds(VectorOf(s), s, Len(s))
<1> DEFINE size == BytesCountFromBitsCount(Len(s))
           byte(j) == [i \in BitPos |-> IF (j - 1) * ByteBits + i + 1 <= Len(s)
                                          THEN s[(j - 1) * ByteBits + i + 1] ELSE 0]
           data == [j \in 1 .. size |-> byte(j)]
<1>1. size \in Nat /\ Len(s) \in Nat
  BY BytesBounds
<1>2. VectorOf(s) = FromBytes(data, Len(s), FALSE)
  BY DEF VectorOf
<1>3. ASSUME NEW j \in 1 .. size
      PROVE  /\ byte(j) \in Byte
             /\ \A i \in BitPos : Start(j) + i < Len(s) => byte(j)[i] = s[Start(j) + i + 1]
  <2>1. (j - 1) * ByteBits = Start(j) /\ Start(j) \in Nat
    BY <1>1, ByteBounds DEF Start
  <2>2. ASSUME NEW i \in BitPos
        PROVE  /\ Start(j) + i + 1 <= Len(s) => Start(j) + i + 1 \in 1 .. Len(s)
               /\ Start(j) + i + 1 <= Len(s) <=> Start(j) + i < Len(s)
    BY <1>1, <2>1 DEF BitPos
  <2>3. \A k \in 1 .. Len(s) : s[k] \in Bit
    OBVIOUS
  <2>4. byte(j) = [i \in BitPos |-> IF Start(j) + i + 1 <= Len(s) THEN s[Start(j) + i + 1] ELSE 0]
    BY <2>1
  <2> HIDE DEF byte
  <2>5. 0 \in Bit
    BY DEF Bit
  <2> QED BY <2>2, <2>3, <2>4, <2>5 DEF Byte
<1> HIDE DEF size, byte
<1>4. data \in Seq(Byte) /\ Len(data) = size /\ \A j \in 1 .. size : data[j] = byte(j)
  BY <1>1, <1>3
<1> HIDE DEF data
<1>5. BitsAre(data, s, Len(s))
  BY <1>3, <1>4 DEF BitsAre
<1>6. Len(data) >= size /\ FALSE \in BOOLEAN
  BY <1>1, <1>4
<1> QED BY <1>1, <1>2, <1>4, <1>5, <1>6, FromBytesHolds DEF size

\* Neither an assignment nor a change of the size property touches the bits.
LEMMA AssignHolds ==
  ASSUME NEW u, NEW m, NEW rhs, Holds(rhs, u, m), NEW v \in Vectors, NEW fixed \in BOOLEAN
  PROVE  Holds(Assign(v, rhs), u, m) /\ Holds(FixSize(rhs, fixed), u, m)
<1>1. Assign(v, rhs) \in Vectors /\ Assign(v, rhs).data = rhs.data /\ Assign(v, rhs).used = rhs.used
  BY DEF Holds, Vectors, Assign, With
<1>2. FixSize(rhs, fixed) \in Vectors /\ FixSize(rhs, fixed).data = rhs.data
      /\ FixSize(rhs, fixed).used = rhs.used
  BY DEF Holds, Vectors, FixSize
<1> QED BY <1>1, <1>2 DEF Holds

\* A cleared vector holds none of any bits.
LEMMA ClearHolds ==
  ASSUME NEW u, NEW v \in Vectors
  PROVE  Holds(Clear(v), u, 0)
<1>1. <<>> \in Seq(Byte) /\ Len(<<>>) = 0
  OBVIOUS
<1>2. BytesCountFromBitsCount(0) = 0
  <2>1. Start(0) < 0 /\ 0 <= Start(0 + 1)
    BY ByteBitsAssumption DEF Start
  <2> QED BY <2>1, BytesUnique
<1>3. \A j \in 1 .. Len(<<>>), i \in BitPos :
        <<>>[j][i] = IF Start(j) + i < 0 THEN u[Start(j) + i + 1] ELSE 0
  BY <1>1
<1>4. 0 \in Nat /\ Len(<<>>) = BytesCountFromBitsCount(0)
  BY <1>1, <1>2
<1>5. ASSUME NEW d, d = <<>> PROVE Holds(With(v, d, 0), u, 0)
  BY <1>1, <1>3, <1>4, <1>5, HoldsIf
<1> QED BY <1>5 DEF Clear

-------------------------------------------------------------------------------
(* Appending vectors, integers and runs of one bit *)

\* A vector at the end of another one.
LEMMA AppendVectorHolds ==
  ASSUME NEW u, NEW m \in Nat, NEW v, Holds(v, u, m),
         NEW t, NEW n \in Nat, NEW rhs, Holds(rhs, t, n), \A k \in 1 .. n : u[m + k] = t[k]
  PROVE  Holds(AppendVector(v, rhs), u, m + n)
<1> DEFINE q == n \div ByteBits
           r == n % ByteBits
           d == rhs.data
           front == SubSeq(d, 1, q)
           most == AppendBytes(v, front)
           s == Start(q + 1)
<1>1. q \in Nat /\ r \in BitPos /\ q + 1 \in Int
  BY BytesSplit
<1>2. n = s + r
  BY BytesSplit
<1>3. d \in Seq(Byte) /\ rhs.used = n /\ BitsAre(d, t, n)
  BY HoldsFields
<1>4. Len(d) = IF r = 0 THEN q ELSE q + 1
  <2>1. Len(d) = BytesCountFromBitsCount(n)
    BY HoldsFields
  <2> HIDE DEF d
  <2> QED BY <2>1, BytesSplit
<1>5. AppendVector(v, rhs) = IF r = 0 THEN most ELSE AppendByte(most, d[q + 1], r, "Left")
  BY <1>3 DEF AppendVector
<1> HIDE DEF q, r, d
<1>6. s \in Nat
  <2>1. q + 1 \in 1 .. q + 1
    BY <1>1
  <2> QED BY <1>1, <2>1, ByteBounds
<1>7. front \in Seq(Byte) /\ Len(front) = q /\ \A k \in 1 .. q : front[k] = d[k] /\ k \in 1 .. Len(d)
  BY <1>1, <1>3, <1>4
<1> HIDE DEF front, s
<1>8. ASSUME NEW j \in 1 .. Len(d), NEW i \in BitPos, Start(j) + i < n
      PROVE  d[j][i] = u[m + Start(j) + i + 1]
  <2>1. d[j][i] = t[Start(j) + i + 1]
    BY <1>3, <1>8 DEF BitsAre
  <2>2. Start(j) \in Nat
    <3>1. Len(d) \in Int
      BY <1>3
    <3> QED BY <3>1, ByteBounds
  <2>3. Start(j) + i + 1 \in 1 .. n /\ m + (Start(j) + i + 1) = m + Start(j) + i + 1
    BY <1>8, <2>2 DEF BitPos
  <2> QED BY <2>1, <2>3
<1>9. BytesAre(u, m, front)
  <2> SUFFICES ASSUME NEW k \in 1 .. q, NEW i \in BitPos
               PROVE  u[m + Start(k) + i + 1] = front[k][i]
    BY <1>7 DEF BytesAre
  <2>1. Start(k) \in Nat /\ Start(k) + ByteBits <= s
    BY <1>1, ByteBounds DEF s
  <2>2. Start(k) + i < n
    BY <1>1, <1>2, <1>6, <2>1, ByteBitsAssumption DEF BitPos
  <2> QED BY <1>7, <1>8, <2>2
<1>10. Holds(most, u, m + s)
  BY <1>7, <1>9, AppendBytesHolds DEF s
<1> HIDE DEF most
<1>11. CASE r = 0
  <2>1. m + s = m + n
    BY <1>2, <1>6, <1>11
  <2> QED BY <1>5, <1>10, <1>11, <2>1
<1>12. CASE r # 0
  <2>1. Len(d) = q + 1 /\ d[q + 1] \in Byte /\ q + 1 \in 1 .. Len(d)
    BY <1>1, <1>3, <1>4, <1>12
  <2>2. r \in 1 .. ByteBits /\ m + s \in Nat
    BY <1>1, <1>6, <1>12, ByteBitsAssumption DEF BitPos
  <2>3. Taken(u, m + s, d[q + 1], r, "Left")
    <3> SUFFICES ASSUME NEW i \in 0 .. r - 1 PROVE u[m + s + i + 1] = d[q + 1][i]
      BY DEF Taken
    <3>1. i \in BitPos /\ s + i < n
      BY <1>1, <1>2, <1>6, <2>2, ByteBitsAssumption DEF BitPos
    <3> QED BY <1>8, <2>1, <3>1 DEF s
  <2>4. Holds(AppendByte(most, d[q + 1], r, "Left"), u, (m + s) + r)
    BY <1>10, <2>1, <2>2, <2>3, AppendByteHolds
  <2>5. (m + s) + r = m + n
    BY <1>2, <1>6, <2>2
  <2> QED BY <1>5, <1>12, <2>4, <2>5
<1> QED BY <1>11, <1>12

\* AppendChunks as a fold of its step.
LEMMA AppendChunksFold ==
  ASSUME NEW v, NEW n, NEW alignment, NEW chunks
  PROVE  LET more    == (n - 1) \div ByteBits
             skipped == IF alignment = "Right" THEN Len(chunks) - 1 - more ELSE 0
         IN  AppendChunks(v, n, alignment, chunks) =
               ByChunk!FoldOfSeq(<<n, alignment, chunks, skipped>>, v, [j \in 1 .. more + 1 |-> j - 1])
BY SMTT(60) DEF AppendChunks, FoldLeft, MapThenFoldSet, Max, ChunkStep, ChunkSize, ByChunk!FoldOfSeq,
                ByChunk!FoldLeft, ByChunk!MapThenFoldSet, ByChunk!Max

\* The numbers the loop goes through.
LEMMA CountingSeq ==
  ASSUME NEW k \in Nat
  PROVE  LET seq == [j \in 1 .. k |-> j - 1]
         IN  DOMAIN seq = 1 .. Len(seq) /\ Len(seq) = k /\ \A j \in 1 .. k : seq[j] = j - 1
<1> DEFINE seq == [j \in 1 .. k |-> j - 1]
<1>1. seq \in Seq(Int)
  OBVIOUS
<1> QED BY <1>1

\* Chunk j is appended at offset pos[j], and its bits are those of u.
ChunkFits(u, n, alignment, chunks, skipped, pos, j) ==
  /\ pos[j] \in Nat /\ ChunkSize(n, alignment, j) \in 1 .. ByteBits
  /\ pos[j + 1] = pos[j] + ChunkSize(n, alignment, j)
  /\ chunks[skipped + j + 1] \in Byte
  /\ Taken(u, pos[j], chunks[skipped + j + 1], ChunkSize(n, alignment, j), alignment)

\* The chunks one after the other.
LEMMA ChunksHold ==
  ASSUME NEW u, NEW v, NEW n \in Nat \ {0}, NEW alignment \in {"Left", "Right"}, NEW chunks,
         NEW more, more = (n - 1) \div ByteBits,
         NEW skipped, skipped = IF alignment = "Right" THEN Len(chunks) - 1 - more ELSE 0,
         NEW pos, Holds(v, u, pos[0]),
         \A j \in 0 .. more : ChunkFits(u, n, alignment, chunks, skipped, pos, j)
  PROVE  Holds(AppendChunks(v, n, alignment, chunks), u, pos[more + 1])
<1> DEFINE c == <<n, alignment, chunks, skipped>>
           seq == [j \in 1 .. more + 1 |-> j - 1]
<1>1. more \in Nat
  BY DivNat
<1>2. DOMAIN seq = 1 .. Len(seq) /\ Len(seq) = more + 1 /\ \A j \in 1 .. more + 1 : seq[j] = j - 1
  <2>1. more + 1 \in Nat
    BY <1>1
  <2> QED BY <2>1, CountingSeq
<1>3. PICK f : ByChunk!SeqSteps(f, c, v, seq, AppendChunks(v, n, alignment, chunks))
  <2>1. AppendChunks(v, n, alignment, chunks) = ByChunk!FoldOfSeq(c, v, seq)
    BY AppendChunksFold
  <2>2. Len(seq) \in Nat
    BY <1>1, <1>2
  <2> HIDE DEF c, seq
  <2> QED BY <1>2, <2>1, <2>2, ByChunk!FoldLeftSteps
<1>4. /\ f[0] = v /\ f[more + 1] = AppendChunks(v, n, alignment, chunks)
      /\ \A j \in 1 .. more + 1 : f[j] = ChunkStep(c, f[j - 1], j - 1)
  <2> HIDE DEF c, seq
  <2> QED BY <1>2, <1>3 DEF ByChunk!SeqSteps
<1> DEFINE T == {k \in Nat : k <= more + 1 => Holds(f[k], u, pos[k])}
<1>5. 0 \in T
  BY <1>4
<1>6. ASSUME NEW k \in T PROVE k + 1 \in T
  <2> SUFFICES ASSUME k + 1 <= more + 1 PROVE Holds(f[k + 1], u, pos[k + 1])
    OBVIOUS
  <2>1. k \in 0 .. more /\ k + 1 \in 1 .. more + 1 /\ (k + 1) - 1 = k
    BY <1>1
  <2>2. Holds(f[k], u, pos[k])
    BY <1>1, <2>1
  <2>3. f[k + 1] = AppendByte(f[k], chunks[skipped + k + 1], ChunkSize(n, alignment, k), alignment)
    <3>1. f[k + 1] = ChunkStep(c, f[k], k)
      BY <1>4, <2>1
    <3> QED BY <3>1 DEF ChunkStep
  <2> QED BY SMTT(60), <2>1, <2>2, <2>3, AppendByteHolds DEF ChunkFits
<1>7. T = Nat
  <2> HIDE DEF T
  <2>1. T \in SUBSET Nat
    BY DEF T
  <2> QED BY <1>5, <1>6, <2>1, ByChunk!NatSetInduction
<1>8. more + 1 \in T /\ more + 1 <= more + 1
  <2> HIDE DEF T
  <2> QED BY <1>1, <1>7
<1> QED BY <1>4, <1>8

\* The n bits of u from offset m on are those of w from offset o on.
Continues(u, m, n, w, o) == \A k \in 1 .. n : u[m + k] = w[o + k]

\* An earlier offset is that of an earlier byte.
LEMMA StartLess ==
  ASSUME NEW j \in Int, NEW k \in Int, Start(j) < Start(k)
  PROVE  j < k
<1>1. Start(j) \in Int /\ Start(k) \in Int
  BY Starts
<1>2. k < j => Start(k) + ByteBits <= Start(j)
  BY StartOrder
<1> QED BY <1>1, <1>2, ByteBitsAssumption

\* Bit i of byte k of an integer.
LEMMA WordBit ==
  ASSUME NEW value \in Seq(Byte), NEW k \in 1 .. Len(value), NEW i \in BitPos
  PROVE  /\ Start(k) \in Nat /\ Start(k) + i + 1 \in 1 .. Len(value) * ByteBits
         /\ WordBits(value)[Start(k) + i + 1] = value[k][i]
<1>1. Len(value) \in Int /\ k \in Int
  OBVIOUS
<1>2. Start(k) \in Nat /\ Start(k) + ByteBits <= Start(Len(value) + 1)
  BY <1>1, ByteBounds
<1>3. Start(Len(value) + 1) = Len(value) * ByteBits
  BY <1>1, ByteBitsAssumption DEF Start
<1>4. Start(k) + i + 1 \in 1 .. Len(value) * ByteBits
  <2> DEFINE e == Len(value) * ByteBits
  <2>1. Start(k) + ByteBits <= e /\ e \in Int
    BY <1>1, <1>2, <1>3, ByteBitsAssumption
  <2> HIDE DEF e
  <2>2. Start(k) + i + 1 \in 1 .. e
    BY <1>2, <2>1, ByteBitsAssumption DEF BitPos
  <2> QED BY <2>2 DEF e
<1> DEFINE o == Start(k) + i
<1>5. o \in Int /\ o = Start((k - 1) + 1) + i /\ (o + 1) - 1 = o /\ k - 1 \in Int
  <2>1. (k - 1) + 1 = k /\ k - 1 \in Int
    BY <1>1
  <2> QED BY <1>2, <2>1 DEF BitPos
<1> HIDE DEF o
<1>6. o \div ByteBits = k - 1 /\ o % ByteBits = i
  BY <1>5, DivModUnique
<1>7. WordBits(value)[o + 1] = value[o \div ByteBits + 1][o % ByteBits]
  BY <1>4, <1>5 DEF WordBits, o
<1>8. (k - 1) + 1 = k
  BY <1>1
<1> QED BY <1>2, <1>4, <1>6, <1>7, <1>8 DEF o

\* An integer of which the n leftmost bits are appended.
LEMMA AppendChunksLeft ==
  ASSUME NEW u, NEW m \in Nat, NEW v, Holds(v, u, m), NEW chunks \in Seq(Byte),
         NEW n \in 1 .. Len(chunks) * ByteBits, Continues(u, m, n, WordBits(chunks), 0)
  PROVE  Holds(AppendChunks(v, n, "Left", chunks), u, m + n)
<1> DEFINE more == (n - 1) \div ByteBits
           p == (n - 1) % ByteBits
           L == Len(chunks)
           s == Start(more + 1)
           pos == [j \in 0 .. more + 1 |-> IF j = more + 1 THEN m + n ELSE m + Start(j + 1)]
<1>1. L \in Nat /\ n \in Nat \ {0} /\ n - 1 \in Nat /\ n <= Start(L + 1)
  <2>1. L \in Nat /\ L * ByteBits = Start(L + 1)
    BY ByteBitsAssumption DEF Start
  <2>2. n \in Int /\ 1 <= n /\ n <= L * ByteBits
    BY <2>1, ByteBitsAssumption
  <2> QED BY <2>1, <2>2
<1>2. more \in Nat /\ p \in BitPos /\ more + 1 \in Int
  <2>1. n - 1 \in Int
    BY <1>1
  <2>2. more \in Nat /\ p \in BitPos
    BY <1>1, <2>1, DivMod, DivNat
  <2> QED BY <2>2
<1>3. n = s + p + 1 /\ s \in Nat
  <2>1. n - 1 = s + p
    BY <1>1, DivMod
  <2>2. more + 1 \in 1 .. more + 1
    BY <1>2
  <2>3. s \in Nat
    BY <1>2, <2>2, ByteBounds
  <2> HIDE DEF s, p, more
  <2> QED BY <1>1, <1>2, <2>1, <2>3 DEF BitPos
<1>4. more + 1 <= L
  <2> HIDE DEF more, p, L
  <2>1. s < Start(L + 1) /\ L + 1 \in Int
    <3>1. Start(L + 1) \in Int
      BY <1>1, Starts
    <3> HIDE DEF s
    <3> QED BY <1>1, <1>2, <1>3, <3>1 DEF BitPos
  <2>2. more + 1 < L + 1
    BY <1>2, <2>1, StartLess
  <2> QED BY <1>1, <1>2, <2>2
<1> HIDE DEF more, p, L, s
<1>5. ASSUME NEW j \in 0 .. more
      PROVE  ChunkFits(u, n, "Left", chunks, 0, pos, j)
  <2>1. j \in Nat /\ j + 1 \in 1 .. L /\ 0 + j + 1 = j + 1 /\ j + 1 \in 1 .. more + 1 /\ j + 1 \in Int
    BY <1>1, <1>2, <1>4
  <2> DEFINE o == Start(j + 1)
             size == ChunkSize(n, "Left", j)
  <2>2. o \in Nat /\ j * ByteBits = o
    <3>1. j * ByteBits = o
      BY <2>1, ByteBitsAssumption DEF Start
    <3>2. o \in Nat
      BY <1>2, <2>1, ByteBounds
    <3> QED BY <3>1, <3>2
  <2>3. pos[j] = m + o
    <3>1. j # more + 1 /\ j \in 0 .. more + 1
      BY <1>2, <2>1
    <3> QED BY <3>1
  <2>4. pos[j + 1] = IF j = more THEN m + n ELSE m + Start((j + 1) + 1)
    <3>1. j + 1 \in 0 .. more + 1 /\ (j + 1 = more + 1 <=> j = more)
      BY <1>2, <2>1
    <3> QED BY <3>1
  <2>5. Start((j + 1) + 1) = o + ByteBits
    BY <2>1, Starts
  <2>6. size = IF n - o < ByteBits THEN n - o ELSE ByteBits
    BY <2>2 DEF ChunkSize
  <2> HIDE DEF pos, size, o
  <2>7. /\ size \in 1 .. ByteBits /\ size <= n - o
        /\ pos[j + 1] = pos[j] + size
    <3>1. CASE j = more
      <4>1. o = s
        BY <3>1 DEF o, s
      <4>2. n - o = p + 1
        BY <1>1, <1>3, <1>2, <4>1 DEF BitPos
      <4>3. size = p + 1
        BY <1>2, <2>6, <4>2, ByteBitsAssumption DEF BitPos
      <4> QED BY <1>1, <1>2, <1>3, <2>2, <2>3, <2>4, <3>1, <4>1, <4>2, <4>3, ByteBitsAssumption DEF BitPos
    <3>2. CASE j # more
      <4>1. j + 1 < more + 1
        BY <1>2, <2>1, <3>2
      <4>2. o + ByteBits <= s
        BY <1>2, <2>1, <4>1, StartOrder DEF o, s
      <4>3. n - o >= ByteBits /\ n - o \in Int
        BY <1>1, <1>2, <1>3, <2>2, <4>2, ByteBitsAssumption DEF BitPos
      <4>4. size = ByteBits
        BY <2>6, <4>3, ByteBitsAssumption
      <4>5. m + (o + ByteBits) = (m + o) + ByteBits
        BY <2>2, ByteBitsAssumption
      <4> QED BY <2>3, <2>4, <2>5, <3>2, <4>3, <4>4, <4>5, ByteBitsAssumption
    <3> QED BY <3>1, <3>2
  <2>8. pos[j] \in Nat /\ chunks[0 + j + 1] \in Byte
    BY <2>1, <2>2, <2>3 DEF L
  <2>9. Taken(u, pos[j], chunks[0 + j + 1], size, "Left")
    <3> SUFFICES ASSUME NEW i \in 0 .. size - 1 PROVE u[m + o + i + 1] = chunks[j + 1][i]
      BY <2>1, <2>3 DEF Taken
    <3>1. i \in BitPos
      BY <2>7, ByteBitsAssumption DEF BitPos
    <3>2. WordBits(chunks)[o + i + 1] = chunks[j + 1][i]
      BY <2>1, <3>1, WordBit DEF o, L
    <3>3. o + i + 1 \in 1 .. n /\ m + (o + i + 1) = m + o + i + 1 /\ 0 + (o + i + 1) = o + i + 1
      BY <1>1, <2>2, <2>7, ByteBitsAssumption
    <3> QED BY <3>2, <3>3 DEF Continues
  <2> QED BY <2>7, <2>8, <2>9 DEF ChunkFits, size
<1>6. pos[0] = m /\ pos[more + 1] = m + n
  <2>1. 0 \in 0 .. more + 1 /\ more + 1 \in 0 .. more + 1 /\ 0 # more + 1
    BY <1>2
  <2>2. Start(0 + 1) = 0
    BY Starts
  <2> QED BY <2>1, <2>2
<1> HIDE DEF pos
<1>7. Holds(v, u, pos[0]) /\ "Left" \in {"Left", "Right"} /\ "Left" # "Right"
  BY <1>6
<1>8. Holds(AppendChunks(v, n, "Left", chunks), u, pos[more + 1])
  BY <1>1, <1>5, <1>7, ChunksHold DEF more
<1> QED BY <1>6, <1>8

\* An integer of which the n rightmost bits are appended.
LEMMA AppendChunksRight ==
  ASSUME NEW u, NEW m \in Nat, NEW v, Holds(v, u, m), NEW chunks \in Seq(Byte),
         NEW n \in 1 .. Len(chunks) * ByteBits,
         Continues(u, m, n, WordBits(chunks), Len(chunks) * ByteBits - n)
  PROVE  Holds(AppendChunks(v, n, "Right", chunks), u, m + n)
<1> DEFINE more == (n - 1) \div ByteBits
           p == (n - 1) % ByteBits
           L == Len(chunks)
           s == Start(more + 1)
           skipped == L - 1 - more
           pos == [j \in 0 .. more + 1 |-> IF j = 0 THEN m ELSE m + p + 1 + Start(j)]
<1>1. L \in Nat /\ n \in Nat \ {0} /\ n - 1 \in Nat /\ n <= Start(L + 1) /\ L * ByteBits = Start(L + 1)
  <2>1. L \in Nat /\ L * ByteBits = Start(L + 1)
    BY ByteBitsAssumption DEF Start
  <2>2. n \in Int /\ 1 <= n /\ n <= L * ByteBits
    BY <2>1, ByteBitsAssumption
  <2> QED BY <2>1, <2>2
<1>2. more \in Nat /\ p \in BitPos /\ more + 1 \in Int
  <2>1. n - 1 \in Int
    BY <1>1
  <2>2. more \in Nat /\ p \in BitPos
    BY <1>1, <2>1, DivMod, DivNat
  <2> QED BY <2>2
<1>3. n = s + p + 1 /\ s \in Nat
  <2>1. n - 1 = s + p
    BY <1>1, DivMod
  <2>2. more + 1 \in 1 .. more + 1
    BY <1>2
  <2>3. s \in Nat
    BY <1>2, <2>2, ByteBounds
  <2> HIDE DEF s, p, more
  <2> QED BY <1>1, <1>2, <2>1, <2>3 DEF BitPos
<1>4. more + 1 <= L
  <2> HIDE DEF more, p, L
  <2>1. s < Start(L + 1) /\ L + 1 \in Int
    <3>1. Start(L + 1) \in Int
      BY <1>1, Starts
    <3> HIDE DEF s
    <3> QED BY <1>1, <1>2, <1>3, <3>1 DEF BitPos
  <2>2. more + 1 < L + 1
    BY <1>2, <2>1, StartLess
  <2> QED BY <1>1, <1>2, <2>2
<1>5. skipped \in Nat /\ \A j \in 0 .. more : skipped + j + 1 \in 1 .. L
  <2> HIDE DEF more, L
  <2> QED BY <1>1, <1>2, <1>4
<1>6. \A j \in Int : L * ByteBits - n + p + 1 + Start(j) = Start(skipped + j + 1)
  <2>1. s = more * ByteBits
    BY <1>2, ByteBitsAssumption DEF Start
  <2> HIDE DEF more, L, p, s
  <2>2. L * ByteBits - n + p + 1 = L * ByteBits - more * ByteBits
    <3> DEFINE a == L * ByteBits
    <3>1. a \in Int
      BY <1>1, ByteBitsAssumption
    <3> HIDE DEF a
    <3>2. a - n + p + 1 = a - s
      BY <1>1, <1>2, <1>3, <3>1 DEF BitPos
    <3> QED BY <2>1, <3>2 DEF a
  <2>3. \A j \in Int : Start(skipped + j + 1) = L * ByteBits - more * ByteBits + Start(j)
    BY <1>1, <1>2, ByteBitsAssumption, SMTT(60) DEF Start
  <2> QED BY <2>2, <2>3
<1> HIDE DEF more, p, L, s, skipped
<1>7. ASSUME NEW j \in 0 .. more
      PROVE  ChunkFits(u, n, "Right", chunks, skipped, pos, j)
  <2> DEFINE k == skipped + j + 1
             size == ChunkSize(n, "Right", j)
             w == WordBits(chunks)
             a == L * ByteBits - n
  <2>1. j \in Nat /\ k \in 1 .. L /\ chunks[k] \in Byte
    BY <1>2, <1>5 DEF L
  <2>2. a \in Int
    BY <1>1, ByteBitsAssumption
  <2>3. size = IF j = 0 THEN p + 1 ELSE ByteBits
    <3>1. s = more * ByteBits
      BY <1>2, ByteBitsAssumption DEF Start, s
    <3>2. n - s = p + 1
      BY <1>1, <1>2, <1>3 DEF BitPos
    <3>3. size = IF j = 0 THEN n - more * ByteBits ELSE ByteBits
      BY DEF ChunkSize, more
    <3> HIDE DEF size
    <3> QED BY <3>1, <3>2, <3>3
  <2>4. pos[j + 1] = m + p + 1 + Start(j + 1)
    <3>1. j + 1 \in 0 .. more + 1 /\ j + 1 # 0
      BY <1>2, <2>1
    <3> QED BY <3>1
  <2>5. j + 1 \in Int /\ Start(j) \in Int /\ Start(j + 1) = Start(j) + ByteBits /\ Start(1) = 0
    BY <2>1, Starts
  <2>6. \A i \in BitPos : w[Start(k) + i + 1] = chunks[k][i]
    BY <2>1, WordBit DEF L
  <2>7. a + p + 1 + Start(j) = Start(k)
    BY <1>6, <2>1
  <2>8. Continues(u, m, n, w, a)
    BY DEF L
  <2>9. CASE j = 0
    <3>1. pos[j] = m
      <4>1. 0 \in 0 .. more + 1
        BY <1>2
      <4> QED BY <2>9, <4>1
    <3> HIDE DEF pos, size, w, a, k
    <3>2. size = p + 1 /\ pos[j + 1] = pos[j] + size
      <4>1. Start(j + 1) = 0
        BY <2>5, <2>9
      <4> QED BY <1>2, <2>3, <2>4, <2>9, <3>1, <4>1 DEF BitPos
    <3>3. size \in 1 .. ByteBits
      BY <1>2, <3>2, ByteBitsAssumption DEF BitPos
    <3>4. Taken(u, m, chunks[k], size, "Right")
      <4> SUFFICES ASSUME NEW i \in 0 .. size - 1 PROVE u[m + i + 1] = chunks[k][ByteBits - size + i]
        BY DEF Taken
      <4>1. ByteBits - size + i \in BitPos
        BY <3>3, ByteBitsAssumption DEF BitPos
      <4>2. Start(k) = a + p + 1 - ByteBits
        <5>1. Start(j) = 0 - ByteBits
          BY <2>5, <2>9, ByteBitsAssumption
        <5>2. p \in Int
          BY <1>2 DEF BitPos
        <5> QED BY <2>2, <2>7, <5>1, <5>2, ByteBitsAssumption
      <4>3. Start(k) + (ByteBits - size + i) + 1 = a + (i + 1)
        BY <1>2, <2>2, <3>2, <4>2, ByteBitsAssumption DEF BitPos
      <4>4. i + 1 \in 1 .. n /\ m + (i + 1) = m + i + 1
        BY <1>1, <1>2, <1>3, <3>2, <3>3 DEF BitPos
      <4> QED BY <2>6, <2>8, <4>1, <4>3, <4>4 DEF Continues
    <3> QED BY <2>1, <3>1, <3>2, <3>3, <3>4 DEF ChunkFits, size, k
  <2>10. CASE j # 0
    <3>1. pos[j] = m + p + 1 + Start(j)
      <4>1. j \in 0 .. more + 1
        BY <1>2, <2>1
      <4> QED BY <2>10, <4>1
    <3>2. Start(j) \in Nat /\ Start(j) + ByteBits <= s
      <4>1. j \in 1 .. more
        BY <1>2, <2>1, <2>10
      <4> QED BY <1>2, <4>1, ByteBounds DEF s
    <3> HIDE DEF pos, size, w, a, k
    <3>3. size = ByteBits /\ size \in 1 .. ByteBits
      BY <2>3, <2>10, ByteBitsAssumption
    <3>4. pos[j] \in Nat /\ pos[j + 1] = pos[j] + size
      BY <1>2, <2>4, <2>5, <3>1, <3>2, <3>3, ByteBitsAssumption DEF BitPos
    <3>5. Taken(u, pos[j], chunks[k], size, "Right")
      <4> SUFFICES ASSUME NEW i \in 0 .. ByteBits - 1
                   PROVE  u[pos[j] + i + 1] = chunks[k][ByteBits - ByteBits + i]
        BY <3>3 DEF Taken
      <4>1. ByteBits - ByteBits + i = i /\ i \in BitPos
        BY ByteBitsAssumption DEF BitPos
      <4>2. Start(k) + i + 1 = a + (p + 1 + Start(j) + i + 1)
        BY SMTT(60), <1>2, <2>2, <2>7, <3>2, <4>1 DEF BitPos
      <4>3. p + 1 + Start(j) + i + 1 \in 1 .. n
        BY SMTT(60), <1>1, <1>2, <1>3, <3>2, ByteBitsAssumption DEF BitPos
      <4>4. m + (p + 1 + Start(j) + i + 1) = pos[j] + i + 1
        BY <1>2, <3>1, <3>2 DEF BitPos
      <4> QED BY SMTT(60), <2>6, <2>8, <4>1, <4>2, <4>3, <4>4 DEF Continues
    <3> QED BY <2>1, <3>3, <3>4, <3>5 DEF ChunkFits, size, k
  <2> QED BY <2>9, <2>10
<1>8. pos[0] = m /\ pos[more + 1] = m + n
  <2>1. 0 \in 0 .. more + 1 /\ more + 1 \in 0 .. more + 1 /\ more + 1 # 0
    BY <1>2
  <2>2. pos[more + 1] = m + p + 1 + s
    BY <2>1 DEF s
  <2>3. m + p + 1 + s = m + n
    BY <1>1, <1>2, <1>3 DEF BitPos
  <2> QED BY <2>1, <2>2, <2>3
<1> HIDE DEF pos
<1>9. Holds(v, u, pos[0]) /\ "Right" \in {"Left", "Right"}
  BY <1>8
<1>10. skipped = IF "Right" = "Right" THEN Len(chunks) - 1 - more ELSE 0
  BY DEF skipped, L
<1>11. Holds(AppendChunks(v, n, "Right", chunks), u, pos[more + 1])
  BY <1>1, <1>7, <1>9, <1>10, ChunksHold DEF more
<1> QED BY <1>8, <1>11

\* A run of one bit, at the end of a vector that ends on a byte boundary or that
\* gets less than a byte.
LEMMA AppendBitsHolds ==
  ASSUME NEW u, NEW m \in Nat, NEW v, Holds(v, u, m), NEW bit \in Bit, NEW n \in Nat,
         n < ByteBits \/ m % ByteBits = 0, \A k \in 1 .. n : u[m + k] = bit
  PROVE  Holds(AppendBits(v, bit, n), u, m + n)
<1> DEFINE q == n \div ByteBits
           r == n % ByteBits
           s == Start(q + 1)
           d == v.data
           e == d \o Repeat(Fill(bit), q)
           most == With(v, e, m + s)
<1>1. q \in Nat /\ r \in BitPos /\ q + 1 \in Int
  BY BytesSplit
<1>2. n = s + r /\ s \in Nat
  <2>1. n = s + r
    BY BytesSplit
  <2>2. q + 1 \in 1 .. q + 1
    BY <1>1
  <2>3. s \in Nat
    BY <1>1, <2>2, ByteBounds
  <2> QED BY <2>1, <2>3
<1>3. d \in Seq(Byte) /\ v \in Vectors /\ v.used = m /\ Len(d) = BytesCountFromBitsCount(m)
  BY HoldsFields
<1>4. AppendBits(v, bit, n) = IF r = 0 THEN most ELSE AppendByte(most, Fill(bit), r, "Right")
  <2>1. q * ByteBits = s
    BY <1>1, ByteBitsAssumption DEF Start
  <2> QED BY <1>3, <2>1 DEF AppendBits
<1>5. Fill(bit) \in Byte /\ \A i \in BitPos : Fill(bit)[i] = bit
  BY FillIs
<1> HIDE DEF q, r, d
<1>6. Repeat(Fill(bit), q) \in Seq(Byte) /\ Len(Repeat(Fill(bit), q)) = q
      /\ \A k \in 1 .. q : Repeat(Fill(bit), q)[k] = Fill(bit)
  <2>1. Repeat(Fill(bit), q) = [k \in 1 .. q |-> Fill(bit)]
    BY DEF Repeat
  <2> QED BY <1>1, <1>5, <2>1
<1>7. e \in Seq(Byte) /\ Len(e) = Len(d) + q /\ (\A j \in 1 .. Len(d) : e[j] = d[j])
      /\ \A k \in 1 .. q : e[Len(d) + k] = Fill(bit)
  BY SMTT(60), <1>1, <1>3, <1>6
<1>8. Holds(most, u, m + s)
  <2>1. ASSUME NEW j \in 1 .. Len(d), NEW i \in BitPos
        PROVE  d[j][i] = IF Start(j) + i < m THEN u[Start(j) + i + 1] ELSE 0
    BY DEF Holds, d
  <2>2. CASE m % ByteBits = 0
    <3> DEFINE p == m \div ByteBits
    <3>1. p \in Nat /\ Len(d) = p /\ m = Start(p + 1)
      <4>1. p \in Nat /\ Len(d) = p /\ m = Start(p + 1) + 0
        BY <1>3, <2>2, BytesSplit
      <4>2. Start(p + 1) \in Int
        BY <4>1, Starts
      <4> HIDE DEF p
      <4> QED BY <4>1, <4>2
    <3> HIDE DEF p, s, e
    <3>2. \A k \in Int : Start(p + k) = m + Start(k)
      BY <3>1, ByteBitsAssumption, SMTT(60) DEF Start
    <3>3. BytesCountFromBitsCount(m + s) = p + q
      <4>1. Start(p + q) = m + Start(q) /\ Start(p + (q + 1)) = m + Start(q + 1)
        BY <1>1, <3>2
      <4>2. p + (q + 1) = (p + q) + 1 /\ q \in Int /\ p + q \in Int
        BY <1>1, <3>1
      <4>3. s = Start(q) + ByteBits /\ Start(q) \in Int
        BY <4>2, Starts DEF s
      <4>4. Start(p + q) < m + s /\ m + s <= Start((p + q) + 1)
        BY <1>2, <4>1, <4>2, <4>3, ByteBitsAssumption DEF s
      <4> QED BY <1>2, <4>2, <4>4, BytesUnique
    <3>4. ASSUME NEW j \in 1 .. p + q, NEW i \in BitPos
          PROVE  e[j][i] = IF Start(j) + i < m + s THEN u[Start(j) + i + 1] ELSE 0
      <4>1. CASE j <= p
        <5>1. j \in 1 .. p /\ j \in 1 .. Len(d)
          BY <1>1, <3>1, <4>1
        <5>2. Start(j) \in Nat /\ Start(j) + ByteBits <= m
          BY <3>1, <5>1, ByteBounds
        <5>3. Start(j) + i < m /\ Start(j) + i < m + s
          BY <1>2, <5>2, ByteBitsAssumption DEF BitPos
        <5> QED BY <1>7, <2>1, <5>1, <5>3
      <4>2. CASE ~(j <= p)
        <5>1. j - p \in 1 .. q /\ p + (j - p) = j
          BY <1>1, <3>1, <4>2
        <5>2. Start(j) = m + Start(j - p)
          BY <3>2, <5>1
        <5>3. Start(j - p) \in Nat /\ Start(j - p) + ByteBits <= s
          BY <1>1, <5>1, ByteBounds DEF s
        <5>4. e[j] = Fill(bit)
          BY <1>7, <3>1, <5>1
        <5>5. Start(j) + i < m + s /\ Start(j) + i + 1 = m + (Start(j - p) + i + 1)
          BY <1>2, <5>2, <5>3, ByteBitsAssumption DEF BitPos
        <5>6. Start(j - p) + i + 1 \in 1 .. n
          BY <1>1, <1>2, <5>3, ByteBitsAssumption DEF BitPos
        <5> QED BY <1>5, <5>4, <5>5, <5>6
      <4> QED BY <4>1, <4>2
    <3>5. m + s \in Nat /\ Len(e) = p + q
      BY <1>2, <1>7, <3>1
    <3> QED BY <1>3, <1>7, <3>3, <3>4, <3>5, HoldsIf
  <2>3. CASE n < ByteBits
    <3>1. q = 0
      <4>1. n \in BitPos
        BY <2>3, ByteBitsAssumption DEF BitPos
      <4>2. n = Start(0 + 1) + n
        BY Starts
      <4> QED BY <4>1, <4>2, DivModUnique DEF q
    <3>2. s = 0 /\ m + s = m
      BY <3>1, Starts
    <3> HIDE DEF s
    <3>3. Len(e) = Len(d) /\ \A j \in 1 .. Len(d) : e[j] = d[j]
      BY <1>3, <1>7, <3>1
    <3> HIDE DEF e
    <3>4. Len(e) = BytesCountFromBitsCount(m)
      BY <1>3, <3>3
    <3>5. \A j \in 1 .. Len(e), i \in BitPos :
            e[j][i] = IF Start(j) + i < m THEN u[Start(j) + i + 1] ELSE 0
      BY <2>1, <3>3
    <3>6. Holds(With(v, e, m), u, m)
      BY <1>3, <1>7, <3>4, <3>5, HoldsIf
    <3> QED BY <3>2, <3>6
  <2> QED BY <2>2, <2>3
<1> HIDE DEF most, s
<1>9. CASE r = 0
  <2>1. m + s = m + n
    BY <1>2, <1>9
  <2> QED BY <1>4, <1>8, <1>9, <2>1
<1>10. CASE r # 0
  <2>1. r \in 1 .. ByteBits /\ m + s \in Nat
    BY <1>1, <1>2, <1>10, ByteBitsAssumption DEF BitPos
  <2>2. Taken(u, m + s, Fill(bit), r, "Right")
    <3> SUFFICES ASSUME NEW i \in 0 .. r - 1
                 PROVE  u[m + s + i + 1] = Fill(bit)[ByteBits - r + i]
      BY DEF Taken
    <3>1. ByteBits - r + i \in BitPos
      BY <2>1, ByteBitsAssumption DEF BitPos
    <3>2. s + i + 1 \in 1 .. n /\ m + (s + i + 1) = m + s + i + 1
      BY <1>2, <2>1, ByteBitsAssumption
    <3> QED BY <1>5, <3>1, <3>2
  <2>3. Holds(AppendByte(most, Fill(bit), r, "Right"), u, (m + s) + r)
    BY <1>5, <1>8, <2>1, <2>2, AppendByteHolds
  <2>4. (m + s) + r = m + n
    BY <1>2, <2>1, ByteBitsAssumption
  <2> QED BY <1>4, <1>10, <2>3, <2>4
<1> QED BY <1>9, <1>10

\* A run of one bit before a vector.
LEMMA PrependBitsHolds ==
  ASSUME NEW u, NEW n \in Nat, NEW b \in Bit, \A k \in 1 .. n : u[k] = b,
         NEW t, NEW m \in Nat, NEW v, Holds(v, t, m), \A k \in 1 .. m : u[n + k] = t[k]
  PROVE  Holds(PrependBits(v, n, Fill(b)), u, n + m)
<1>1. Holds(NewVector(n, Fill(b), FALSE), u, n)
  BY NewVectorHolds
<1>2. Holds(AppendVector(NewVector(n, Fill(b), FALSE), v), u, n + m)
  BY <1>1, AppendVectorHolds
<1> QED BY <1>2, HoldsFields, AssignHolds DEF PrependBits

-------------------------------------------------------------------------------
(* Single bits and bitwise operations *)

\* A byte that begins before the last bit is one of the vector.
LEMMA ByteOfBit ==
  ASSUME NEW m \in Nat, NEW j \in Int, Start(j) < m
  PROVE  j <= BytesCountFromBitsCount(m)
<1> DEFINE b == BytesCountFromBitsCount(m)
<1>1. b \in Nat /\ m <= Start(b + 1) /\ b + 1 \in Int
  BY BytesBounds
<1> HIDE DEF b
<1>2. Start(j) < Start(b + 1)
  <2>1. Start(j) \in Int /\ Start(b + 1) \in Int
    BY <1>1, Starts
  <2> QED BY <1>1, <2>1
<1>3. j < b + 1
  BY <1>1, <1>2, StartLess
<1> QED BY <1>1, <1>3 DEF b

\* Where the bit at an offset is.
LEMMA BitPlace ==
  ASSUME NEW u, NEW m, NEW v, Holds(v, u, m), NEW o \in 0 .. m - 1
  PROVE  /\ o \div ByteBits + 1 \in 1 .. Len(v.data) /\ o % ByteBits \in BitPos
         /\ o = Start(o \div ByteBits + 1) + (o % ByteBits)
         /\ BitAt(v, o) = u[o + 1]
<1> DEFINE q == o \div ByteBits
           r == o % ByteBits
<1>1. m \in Nat /\ Len(v.data) = BytesCountFromBitsCount(m) /\ BitsAre(v.data, u, m)
  BY HoldsFields
<1>2. o \in Nat /\ o < m
  BY <1>1
<1>3. q \in Nat /\ r \in BitPos /\ o = Start(q + 1) + r
  BY <1>2, DivMod, DivNat
<1> HIDE DEF q, r
<1>4. Start(q + 1) \in Int /\ q + 1 \in Int
  BY <1>3, Starts
<1>5. q + 1 <= Len(v.data)
  <2>1. Start(q + 1) < m
    BY <1>1, <1>2, <1>3, <1>4 DEF BitPos
  <2> QED BY <1>1, <1>4, <2>1, ByteOfBit
<1>6. q + 1 \in 1 .. Len(v.data)
  BY <1>1, <1>3, <1>5, BytesBounds
<1>7. v.data[q + 1][r] = u[o + 1]
  BY <1>1, <1>2, <1>3, <1>6 DEF BitsAre
<1> QED BY <1>3, <1>6, <1>7 DEF BitAt, q, r

\* Setting the bit at an offset sets that bit of the sequence.
LEMMA SetBitHolds ==
  ASSUME NEW u, NEW m, NEW v, Holds(v, u, m), NEW o \in 0 .. m - 1, NEW b \in Bit,
         NEW t, \A k \in 1 .. m : t[k] = IF k = o + 1 THEN b ELSE u[k]
  PROVE  Holds(SetBitAt(v, o, b), t, m)
<1> DEFINE p == o \div ByteBits + 1
           r == o % ByteBits
           d == v.data
           e == [d EXCEPT ![p] = [@ EXCEPT ![r] = b]]
<1>1. v \in Vectors /\ d \in Seq(Byte) /\ m \in Nat /\ v.used = m
      /\ Len(d) = BytesCountFromBitsCount(m)
  BY HoldsFields
<1>2. p \in 1 .. Len(d) /\ r \in BitPos /\ o = Start(p) + r
  BY BitPlace
<1>3. SetBitAt(v, o, b) = With(v, e, m)
  BY <1>1 DEF SetBitAt
<1>4. ASSUME NEW j \in 1 .. Len(d), NEW i \in BitPos
      PROVE  d[j][i] = IF Start(j) + i < m THEN u[Start(j) + i + 1] ELSE 0
  BY DEF Holds
<1> HIDE DEF d, p, r
<1>5. d[p] \in Byte /\ Len(d) \in Nat /\ Len(d) \in Int
  BY <1>1, <1>2
<1>6. [d[p] EXCEPT ![r] = b] \in Byte
      /\ \A i \in BitPos : [d[p] EXCEPT ![r] = b][i] = IF i = r THEN b ELSE d[p][i]
  BY <1>2, <1>5 DEF Byte
<1>7. e \in Seq(Byte) /\ Len(e) = Len(d)
      /\ \A j \in 1 .. Len(d) : e[j] = IF j = p THEN [d[p] EXCEPT ![r] = b] ELSE d[j]
  BY <1>1, <1>2, <1>6
<1> HIDE DEF e
<1>8. ASSUME NEW j \in 1 .. Len(d), NEW i \in BitPos
      PROVE  e[j][i] = IF Start(j) + i < m THEN t[Start(j) + i + 1] ELSE 0
  <2>1. Start(j) \in Nat
    BY <1>5, ByteBounds
  <2>2. CASE j = p /\ i = r
    <3>1. Start(j) + i = o /\ o + 1 \in 1 .. m /\ o < m
      BY <1>1, <1>2, <2>2
    <3> QED BY <1>6, <1>7, <2>2, <3>1
  <2>3. CASE ~(j = p /\ i = r)
    <3>1. e[j][i] = d[j][i]
      BY <1>6, <1>7, <2>3
    <3>2. Start(j) + i # o
      <4>1. ASSUME Start(j) + i = o PROVE FALSE
        <5>1. o = Start((j - 1) + 1) + i /\ o = Start((p - 1) + 1) + r /\ j - 1 \in Int /\ p - 1 \in Int
              /\ (j - 1) + 1 = j /\ (p - 1) + 1 = p /\ o \in Int
          <6>1. j \in Int /\ p \in Int /\ o \in Int
            BY <1>1, <1>2, <1>5
          <6>2. (j - 1) + 1 = j /\ (p - 1) + 1 = p /\ j - 1 \in Int /\ p - 1 \in Int
            BY <6>1
          <6> QED BY <1>2, <4>1, <6>1, <6>2
        <5>2. o \div ByteBits = j - 1 /\ o % ByteBits = i
          BY <5>1, DivModUnique
        <5>3. p = o \div ByteBits + 1 /\ r = o % ByteBits
          BY DEF p, r
        <5> QED BY <2>3, <5>1, <5>2, <5>3
      <4> QED BY <4>1
    <3>3. Start(j) + i < m => Start(j) + i + 1 \in 1 .. m /\ Start(j) + i + 1 # o + 1
      BY <1>1, <2>1, <3>2 DEF BitPos
    <3> QED BY <1>4, <3>1, <3>3
  <2> QED BY <2>2, <2>3
<1>9. Len(e) = BytesCountFromBitsCount(m)
  BY <1>1, <1>7
<1>10. \A j \in 1 .. Len(e), i \in BitPos :
         e[j][i] = IF Start(j) + i < m THEN t[Start(j) + i + 1] ELSE 0
  BY <1>7, <1>8
<1>11. Holds(With(v, e, m), t, m)
  BY <1>1, <1>7, <1>9, <1>10, HoldsIf
<1> QED BY <1>3, <1>11

\* New bytes under the mask of the last byte.
LEMMA NewBytesHold ==
  ASSUME NEW v \in Vectors, Len(v.data) = BytesCountFromBitsCount(v.used),
         NEW e, e = [j \in DOMAIN v.data |-> e[j]],
         \A j \in DOMAIN v.data : e[j] \in Byte,
         NEW u, \A j \in 1 .. Len(v.data), i \in BitPos :
                  Start(j) + i < v.used => e[j][i] = u[Start(j) + i + 1]
  PROVE  Holds(MaskLastByte(With(v, e, v.used)), u, v.used)
<1>1. v.data \in Seq(Byte) /\ v.used \in Nat /\ DOMAIN v.data = 1 .. Len(v.data) /\ Len(v.data) \in Nat
  BY DEF Vectors
<1>2. e \in Seq(Byte) /\ Len(e) = Len(v.data)
  BY <1>1
<1> DEFINE w == With(v, e, v.used)
<1>3. w \in Vectors /\ w.data = e /\ w.used = v.used
  BY <1>1, <1>2 DEF With, Vectors
<1>4. BitsAre(e, u, v.used)
  BY <1>2 DEF BitsAre
<1> HIDE DEF w
<1>5. Holds(MaskLastByte(w), u, w.used)
  BY <1>2, <1>3, <1>4, MaskHolds
<1> QED BY <1>3, <1>5 DEF w

\* The position of a bit in a sequence as long as the vector.
LEMMA PosInSeq ==
  ASSUME NEW m \in Nat, NEW k \in Int, NEW j \in 1 .. k, NEW i \in BitPos, Start(j) + i < m
  PROVE  Start(j) + i + 1 \in 1 .. m
<1>1. Start(j) \in Nat
  BY ByteBounds
<1> QED BY <1>1 DEF BitPos

\* ToggleBits flips the bits.
LEMMA ToggleHolds ==
  ASSUME NEW u \in Seq(Bit), NEW v, Holds(v, u, Len(u))
  PROVE  Holds(ToggleBits(v), Flip(u), Len(u))
<1> DEFINE e == [j \in DOMAIN v.data |-> Flip(v.data[j])]
<1>1. v \in Vectors /\ v.data \in Seq(Byte) /\ v.used = Len(u) /\ BitsAre(v.data, u, Len(u))
      /\ Len(v.data) = BytesCountFromBitsCount(v.used) /\ Len(u) \in Nat
  BY HoldsFields
<1>2. ASSUME NEW j \in DOMAIN v.data
      PROVE  e[j] \in Byte /\ \A i \in BitPos : e[j][i] = 1 - v.data[j][i]
  <2>1. v.data[j] \in Byte
    BY <1>1
  <2> QED BY <2>1 DEF Flip, Byte, Bit
<1>3. ToggleBits(v) = MaskLastByte(With(v, e, v.used))
  BY DEF ToggleBits
<1>4. e = [j \in DOMAIN v.data |-> e[j]]
  OBVIOUS
<1>5. ASSUME NEW j \in 1 .. Len(v.data), NEW i \in BitPos, Start(j) + i < v.used
      PROVE  e[j][i] = Flip(u)[Start(j) + i + 1]
  <2>1. Start(j) + i + 1 \in 1 .. Len(u) /\ j \in DOMAIN v.data
    BY <1>1, <1>5, PosInSeq
  <2>2. Flip(u)[Start(j) + i + 1] = 1 - u[Start(j) + i + 1]
    BY <2>1 DEF Flip
  <2>3. v.data[j][i] = u[Start(j) + i + 1]
    BY <1>1, <1>5 DEF BitsAre
  <2> HIDE DEF e
  <2> QED BY <1>2, <2>1, <2>2, <2>3
<1> HIDE DEF e
<1>6. Holds(MaskLastByte(With(v, e, v.used)), Flip(u), v.used)
  BY <1>1, <1>2, <1>4, <1>5, NewBytesHold
<1> QED BY <1>1, <1>3, <1>6

\* The operations on bits give bits.
LEMMA BitOps ==
  \A a, b \in Bit : /\ a * b \in Bit /\ (a + b) % 2 \in Bit
                    /\ (IF a + b = 0 THEN 0 ELSE 1) \in Bit
BY DEF Bit

\* Bytewise AndBits of two vectors.
LEMMA AndHolds ==
  ASSUME NEW u \in Seq(Bit), NEW v, Holds(v, u, Len(u)),
         NEW t \in Seq(Bit), Len(t) = Len(u), NEW rhs, Holds(rhs, t, Len(u))
  PROVE  Holds(Bytewise(v, rhs, AndBits), AndBits(u, t), Len(u))
<1> DEFINE e == [j \in DOMAIN v.data |-> AndBits(v.data[j], rhs.data[j])]
<1>1. v \in Vectors /\ v.data \in Seq(Byte) /\ v.used = Len(u) /\ BitsAre(v.data, u, Len(u))
      /\ Len(v.data) = BytesCountFromBitsCount(v.used) /\ Len(u) \in Nat
  BY HoldsFields
<1>2. rhs.data \in Seq(Byte) /\ BitsAre(rhs.data, t, Len(u)) /\ Len(rhs.data) = Len(v.data)
  BY <1>1, HoldsFields
<1>3. ASSUME NEW j \in DOMAIN v.data
      PROVE  e[j] \in Byte /\ \A i \in BitPos : e[j][i] = v.data[j][i] * rhs.data[j][i]
  <2>1. v.data[j] \in Byte /\ rhs.data[j] \in Byte
    BY <1>1, <1>2
  <2>2. \A i \in BitPos : v.data[j][i] \in Bit /\ rhs.data[j][i] \in Bit
    BY <2>1 DEF Byte
  <2>3. e[j] = [i \in BitPos |-> v.data[j][i] * rhs.data[j][i]]
    BY <2>1 DEF AndBits, Byte
  <2> HIDE DEF e
  <2> QED BY <2>2, <2>3, BitOps DEF Byte
<1>4. Bytewise(v, rhs, AndBits) = MaskLastByte(With(v, e, v.used))
  BY DEF Bytewise
<1>5. e = [j \in DOMAIN v.data |-> e[j]]
  OBVIOUS
<1>6. ASSUME NEW j \in 1 .. Len(v.data), NEW i \in BitPos, Start(j) + i < v.used
      PROVE  e[j][i] = AndBits(u, t)[Start(j) + i + 1]
  <2>1. Start(j) + i + 1 \in 1 .. Len(u) /\ j \in DOMAIN v.data /\ j \in 1 .. Len(rhs.data)
    BY SMTT(60), <1>1, <1>2, <1>6, PosInSeq
  <2>2. AndBits(u, t)[Start(j) + i + 1] = u[Start(j) + i + 1] * t[Start(j) + i + 1]
    BY <2>1 DEF AndBits
  <2>3. v.data[j][i] = u[Start(j) + i + 1] /\ rhs.data[j][i] = t[Start(j) + i + 1]
    BY <1>1, <1>2, <1>6, <2>1 DEF BitsAre
  <2> HIDE DEF e
  <2> QED BY <1>3, <2>1, <2>2, <2>3
<1> HIDE DEF e
<1>7. Holds(MaskLastByte(With(v, e, v.used)), AndBits(u, t), v.used)
  BY <1>1, <1>3, <1>5, <1>6, NewBytesHold
<1> QED BY <1>1, <1>4, <1>7

\* Bytewise OrBits of two vectors.
LEMMA OrHolds ==
  ASSUME NEW u \in Seq(Bit), NEW v, Holds(v, u, Len(u)),
         NEW t \in Seq(Bit), Len(t) = Len(u), NEW rhs, Holds(rhs, t, Len(u))
  PROVE  Holds(Bytewise(v, rhs, OrBits), OrBits(u, t), Len(u))
<1> DEFINE e == [j \in DOMAIN v.data |-> OrBits(v.data[j], rhs.data[j])]
<1>1. v \in Vectors /\ v.data \in Seq(Byte) /\ v.used = Len(u) /\ BitsAre(v.data, u, Len(u))
      /\ Len(v.data) = BytesCountFromBitsCount(v.used) /\ Len(u) \in Nat
  BY HoldsFields
<1>2. rhs.data \in Seq(Byte) /\ BitsAre(rhs.data, t, Len(u)) /\ Len(rhs.data) = Len(v.data)
  BY <1>1, HoldsFields
<1>3. ASSUME NEW j \in DOMAIN v.data
      PROVE  e[j] \in Byte /\ \A i \in BitPos : e[j][i] = IF v.data[j][i] + rhs.data[j][i] = 0 THEN 0 ELSE 1
  <2>1. v.data[j] \in Byte /\ rhs.data[j] \in Byte
    BY <1>1, <1>2
  <2>2. \A i \in BitPos : v.data[j][i] \in Bit /\ rhs.data[j][i] \in Bit
    BY <2>1 DEF Byte
  <2>3. e[j] = [i \in BitPos |-> IF v.data[j][i] + rhs.data[j][i] = 0 THEN 0 ELSE 1]
    BY <2>1 DEF OrBits, Byte
  <2> HIDE DEF e
  <2> QED BY <2>2, <2>3, BitOps DEF Byte
<1>4. Bytewise(v, rhs, OrBits) = MaskLastByte(With(v, e, v.used))
  BY DEF Bytewise
<1>5. e = [j \in DOMAIN v.data |-> e[j]]
  OBVIOUS
<1>6. ASSUME NEW j \in 1 .. Len(v.data), NEW i \in BitPos, Start(j) + i < v.used
      PROVE  e[j][i] = OrBits(u, t)[Start(j) + i + 1]
  <2>1. Start(j) + i + 1 \in 1 .. Len(u) /\ j \in DOMAIN v.data /\ j \in 1 .. Len(rhs.data)
    BY SMTT(60), <1>1, <1>2, <1>6, PosInSeq
  <2>2. OrBits(u, t)[Start(j) + i + 1] = IF u[Start(j) + i + 1] + t[Start(j) + i + 1] = 0 THEN 0 ELSE 1
    BY <2>1 DEF OrBits
  <2>3. v.data[j][i] = u[Start(j) + i + 1] /\ rhs.data[j][i] = t[Start(j) + i + 1]
    BY <1>1, <1>2, <1>6, <2>1 DEF BitsAre
  <2> HIDE DEF e
  <2> QED BY <1>3, <2>1, <2>2, <2>3
<1> HIDE DEF e
<1>7. Holds(MaskLastByte(With(v, e, v.used)), OrBits(u, t), v.used)
  BY <1>1, <1>3, <1>5, <1>6, NewBytesHold
<1> QED BY <1>1, <1>4, <1>7

\* Bytewise XorBits of two vectors.
LEMMA XorHolds ==
  ASSUME NEW u \in Seq(Bit), NEW v, Holds(v, u, Len(u)),
         NEW t \in Seq(Bit), Len(t) = Len(u), NEW rhs, Holds(rhs, t, Len(u))
  PROVE  Holds(Bytewise(v, rhs, XorBits), XorBits(u, t), Len(u))
<1> DEFINE e == [j \in DOMAIN v.data |-> XorBits(v.data[j], rhs.data[j])]
<1>1. v \in Vectors /\ v.data \in Seq(Byte) /\ v.used = Len(u) /\ BitsAre(v.data, u, Len(u))
      /\ Len(v.data) = BytesCountFromBitsCount(v.used) /\ Len(u) \in Nat
  BY HoldsFields
<1>2. rhs.data \in Seq(Byte) /\ BitsAre(rhs.data, t, Len(u)) /\ Len(rhs.data) = Len(v.data)
  BY <1>1, HoldsFields
<1>3. ASSUME NEW j \in DOMAIN v.data
      PROVE  e[j] \in Byte /\ \A i \in BitPos : e[j][i] = (v.data[j][i] + rhs.data[j][i]) % 2
  <2>1. v.data[j] \in Byte /\ rhs.data[j] \in Byte
    BY <1>1, <1>2
  <2>2. \A i \in BitPos : v.data[j][i] \in Bit /\ rhs.data[j][i] \in Bit
    BY <2>1 DEF Byte
  <2>3. e[j] = [i \in BitPos |-> (v.data[j][i] + rhs.data[j][i]) % 2]
    BY <2>1 DEF XorBits, Byte
  <2> HIDE DEF e
  <2> QED BY <2>2, <2>3, BitOps DEF Byte
<1>4. Bytewise(v, rhs, XorBits) = MaskLastByte(With(v, e, v.used))
  BY DEF Bytewise
<1>5. e = [j \in DOMAIN v.data |-> e[j]]
  OBVIOUS
<1>6. ASSUME NEW j \in 1 .. Len(v.data), NEW i \in BitPos, Start(j) + i < v.used
      PROVE  e[j][i] = XorBits(u, t)[Start(j) + i + 1]
  <2>1. Start(j) + i + 1 \in 1 .. Len(u) /\ j \in DOMAIN v.data /\ j \in 1 .. Len(rhs.data)
    BY <1>1, <1>2, <1>6, PosInSeq
  <2>2. XorBits(u, t)[Start(j) + i + 1] = (u[Start(j) + i + 1] + t[Start(j) + i + 1]) % 2
    BY <2>1 DEF XorBits
  <2>3. v.data[j][i] = u[Start(j) + i + 1] /\ rhs.data[j][i] = t[Start(j) + i + 1]
    BY <1>1, <1>2, <1>6, <2>1 DEF BitsAre
  <2> HIDE DEF e
  <2> QED BY <1>3, <2>1, <2>2, <2>3
<1> HIDE DEF e
<1>7. Holds(MaskLastByte(With(v, e, v.used)), XorBits(u, t), v.used)
  BY <1>1, <1>3, <1>5, <1>6, NewBytesHold
<1> QED BY <1>1, <1>4, <1>7

-------------------------------------------------------------------------------
(* Slices *)

\* The bits from offset o on, as a vector of their own.
LEMMA SliceHolds ==
  ASSUME NEW s, NEW m, NEW v, Holds(v, s, m), NEW o \in Nat, NEW n \in Nat, o + n <= m,
         NEW t, Continues(t, 0, n, s, o)
  PROVE  Holds(Slice(v, o, n), t, n)
<1> DEFINE off == o % ByteBits
           at == o \div ByteBits + 1
           d == v.data
           first == IF n < ByteBits - off THEN n ELSE ByteBits - off
           byte == Shl(d[at], off)
           head == AppendByte(EmptyVector, byte, first, "Left")
           full == (n - first) \div ByteBits
           rest == (n - first) % ByteBits
           middle == SubSeq(d, at + 1, at + full)
           most == AppendBytes(head, middle)
<1>1. d \in Seq(Byte) /\ m \in Nat /\ v.used = m /\ BitsAre(d, s, m)
      /\ Len(d) = BytesCountFromBitsCount(m) /\ Len(d) \in Nat
  BY HoldsFields
<1>2. at \in Nat /\ at \in Int /\ off \in BitPos
  BY DivMod, DivNat
<1>3. o = Start(at) + off /\ Start(at) \in Nat
  <2>1. o = Start(at) + off
    BY DivMod
  <2>2. at \in 1 .. at
    BY DivNat
  <2> HIDE DEF at
  <2>3. Start(at) \in Nat
    BY <1>2, <2>2, ByteBounds
  <2> QED BY <2>1, <2>3
<1>4. Slice(v, o, n) = IF n = 0 THEN EmptyVector
                       ELSE IF rest = 0 THEN most ELSE AppendByte(most, d[at + full + 1], rest, "Left")
  BY DEF Slice
<1>5. CASE n = 0
  BY <1>4, <1>5, EmptyHolds
<1>6. CASE n # 0
  <2> HIDE DEF at, off, d
  <2>1. first \in 1 .. ByteBits /\ first <= n /\ first <= ByteBits - off
        /\ (first = n \/ first = ByteBits - off)
    BY <1>2, <1>6, ByteBitsAssumption DEF BitPos
  <2> HIDE DEF first
  <2>2. full \in Nat /\ rest \in BitPos /\ n - first = Start(full + 1) + rest /\ full + 1 \in Int
    <3>1. n - first \in Nat
      BY <2>1
    <3> QED BY <3>1, BytesSplit
  <2> HIDE DEF full, rest
  <2> DEFINE a == Start(full + 1)
  <2>3. a \in Nat /\ n = first + a + rest
    <3>1. full + 1 \in 1 .. full + 1
      BY <2>2
    <3>2. a \in Nat
      BY <2>2, <3>1, ByteBounds
    <3> HIDE DEF a
    <3>3. n - first = a + rest
      BY <2>2 DEF a
    <3> QED BY <2>1, <2>2, <3>2, <3>3 DEF BitPos
  <2>4. ASSUME NEW k \in Int, Start(at) <= Start(k), k >= 1, NEW i \in BitPos, Start(k) + i < m
        PROVE  k \in 1 .. Len(d) /\ d[k][i] = s[Start(k) + i + 1] /\ d[k] \in Byte
    <3>1. Start(k) \in Int
      BY Starts
    <3>2. Start(k) < m
      BY <2>4, <3>1, <1>1 DEF BitPos
    <3>3. k \in 1 .. Len(d)
      BY <1>1, <2>4, <3>2, ByteOfBit
    <3> QED BY <1>1, <2>4, <3>3 DEF BitsAre
  <2>5. at >= 1
    <3>1. o \div ByteBits \in Nat
      BY DivNat
    <3> QED BY <3>1 DEF at
  <2> HIDE DEF a
  \* the first byte
  <2>6. Holds(head, t, first)
    <3>1. d[at] \in Byte
      <4>1. Start(at) + off < m /\ Start(at) <= Start(at)
        BY <1>1, <1>3, <1>6, <2>1
      <4> QED BY <1>2, <2>4, <2>5, <4>1
    <3>2. byte \in Byte /\ \A i \in BitPos : byte[i] = IF i + off < ByteBits THEN d[at][i + off] ELSE 0
      <4>1. off \in 0 .. ByteBits
        BY <1>2, ByteBitsAssumption DEF BitPos
      <4> QED BY <3>1, <4>1, ShiftsAre
    <3> HIDE DEF byte
    <3>3. Taken(t, 0, byte, first, "Left")
      <4> SUFFICES ASSUME NEW i \in 0 .. first - 1 PROVE t[0 + i + 1] = byte[i]
        BY DEF Taken
      <4>1. i \in BitPos /\ i + off \in BitPos /\ i + off < ByteBits /\ 0 + i + 1 = 0 + (i + 1)
        BY <1>2, <2>1, ByteBitsAssumption DEF BitPos
      <4>2. i + 1 \in 1 .. n
        BY <2>1, ByteBitsAssumption
      <4>3. t[0 + (i + 1)] = s[o + (i + 1)]
        BY <4>2 DEF Continues
      <4>4. Start(at) + (i + off) < m /\ Start(at) <= Start(at)
        BY SMTT(60), <1>1, <1>2, <1>3, <2>1, ByteBitsAssumption DEF BitPos
      <4>5. d[at][i + off] = s[Start(at) + (i + off) + 1]
        BY <1>2, <2>4, <2>5, <4>1, <4>4
      <4>6. Start(at) + (i + off) + 1 = o + (i + 1)
        BY <1>2, <1>3 DEF BitPos
      <4> QED BY <3>2, <4>1, <4>3, <4>5, <4>6
    <3>4. Holds(EmptyVector, t, 0) /\ 0 \in Nat /\ 0 + first = first
      BY <2>1, EmptyHolds, ByteBitsAssumption
    <3> QED BY <2>1, <3>2, <3>3, <3>4, AppendByteHolds
  <2> HIDE DEF head
  \* the bytes after it begin where the first one ends
  <2>7. \A k \in Int : Start(at + k) = Start(at) + ByteBits + Start(k)
    BY <1>2, ByteBitsAssumption, SMTT(60) DEF Start
  <2>8. ASSUME NEW k \in 1 .. full + 1, NEW i \in BitPos, first + Start(k) + i < n
        PROVE  /\ at + k \in 1 .. Len(d) /\ d[at + k] \in Byte
               /\ t[first + Start(k) + i + 1] = d[at + k][i]
    <3>1. Start(k) \in Nat
      BY <2>2, ByteBounds
    <3>2. first = ByteBits - off
      BY <2>1, <2>8, <3>1 DEF BitPos
    <3>3. Start(at + k) = Start(at) + ByteBits + Start(k)
      BY <2>2, <2>7
    <3>4. Start(at + k) + i + 1 = o + (first + Start(k) + i + 1)
      BY <1>2, <1>3, <2>1, <3>1, <3>2, <3>3, ByteBitsAssumption DEF BitPos
    <3>5. first + Start(k) + i + 1 \in 1 .. n /\ 0 + (first + Start(k) + i + 1) = first + Start(k) + i + 1
      BY <2>1, <2>8, <3>1 DEF BitPos
    <3>6. t[first + Start(k) + i + 1] = s[o + (first + Start(k) + i + 1)]
      BY <3>5 DEF Continues
    <3>7. Start(at + k) + i < m /\ Start(at) <= Start(at + k) /\ at + k \in Int /\ at + k >= 1
      <4>1. at + k \in Int /\ at + k >= 1
        BY <1>2, <2>2, <2>5
      <4>2. Start(at) <= Start(at + k)
        BY <1>3, <3>1, <3>3, ByteBitsAssumption
      <4>3. Start(at + k) + i = o + (first + Start(k) + i)
        BY <1>2, <1>3, <3>1, <3>2, <3>3, ByteBitsAssumption DEF BitPos
      <4>4. o + (first + Start(k) + i) < m
        BY <1>1, <2>1, <2>8, <3>1 DEF BitPos
      <4> QED BY <4>1, <4>2, <4>3, <4>4
    <3>8. d[at + k][i] = s[Start(at + k) + i + 1] /\ d[at + k] \in Byte /\ at + k \in 1 .. Len(d)
      BY <2>4, <3>7
    <3> QED BY <3>4, <3>6, <3>8
  <2>9. ASSUME NEW k \in 1 .. full, NEW i \in BitPos
        PROVE  k \in 1 .. full + 1 /\ first + Start(k) + i < n
    <3>1. Start(k) \in Nat /\ Start(k) + ByteBits <= a
      BY <2>2, ByteBounds DEF a
    <3> QED BY <2>1, <2>2, <2>3, <3>1, ByteBitsAssumption DEF BitPos
  <2>10. at + full <= Len(d)
    <3>1. CASE full = 0
      <4>1. Start(at) + off < m /\ Start(at) <= Start(at)
        BY <1>1, <1>3, <1>6, <2>1
      <4>2. at \in 1 .. Len(d)
        BY <1>2, <2>4, <2>5, <4>1
      <4> QED BY <1>1, <1>2, <3>1, <4>2
    <3>2. CASE full # 0
      <4>1. full \in 1 .. full /\ 0 \in BitPos
        BY <2>2, <3>2, ByteBitsAssumption DEF BitPos
      <4> QED BY <1>1, <2>8, <2>9, <4>1
    <3> QED BY <3>1, <3>2
  <2>11. middle \in Seq(Byte) /\ Len(middle) = full /\ \A k \in 1 .. full : middle[k] = d[at + k]
    <3>1. middle = [k \in 1 .. full |-> d[at + k]]
      <4>1. (at + full) - (at + 1) + 1 = full
        BY <1>2, <2>2
      <4> QED BY <1>1, <1>2, <2>2, <2>5, <2>10, <4>1
    <3>2. \A k \in 1 .. full : d[at + k] \in Byte
      BY <1>1, <1>2, <2>2, <2>5, <2>10
    <3> HIDE DEF middle
    <3> QED BY <2>2, <3>1, <3>2
  <2> HIDE DEF middle
  <2>12. BytesAre(t, first, middle)
    BY <2>8, <2>9, <2>11 DEF BytesAre
  <2>13. Holds(most, t, first + a)
    BY <2>1, <2>6, <2>11, <2>12, AppendBytesHolds, ByteBitsAssumption DEF a
  <2> HIDE DEF most
  <2>14. CASE rest = 0
    <3>1. first + a = n
      BY <2>1, <2>3, <2>14
    <3> QED BY <1>4, <1>6, <2>13, <2>14, <3>1
  <2>15. CASE rest # 0
    <3>1. rest \in 1 .. ByteBits /\ first + a \in Nat /\ full + 1 \in 1 .. full + 1 /\ at + full + 1 = at + (full + 1)
      BY <1>2, <2>1, <2>2, <2>3, <2>15, ByteBitsAssumption DEF BitPos
    <3>2. ASSUME NEW i \in 0 .. rest - 1 PROVE i \in BitPos /\ first + Start(full + 1) + i < n
      <4>1. i \in BitPos /\ first + a + i < n
        BY <2>1, <2>3, <3>1, ByteBitsAssumption DEF BitPos
      <4> QED BY <4>1 DEF a
    <3>3. d[at + full + 1] \in Byte
      <4>1. 0 \in 0 .. rest - 1
        BY <3>1
      <4> QED BY <2>8, <3>1, <3>2, <4>1
    <3>4. Taken(t, first + a, d[at + full + 1], rest, "Left")
      <4> SUFFICES ASSUME NEW i \in 0 .. rest - 1 PROVE t[first + a + i + 1] = d[at + full + 1][i]
        BY DEF Taken
      <4> QED BY <2>8, <3>1, <3>2 DEF a
    <3>5. Holds(AppendByte(most, d[at + full + 1], rest, "Left"), t, (first + a) + rest)
      BY <2>13, <3>1, <3>3, <3>4, AppendByteHolds
    <3>6. (first + a) + rest = n
      BY <2>3
    <3> QED BY <1>4, <1>6, <2>15, <3>5, <3>6
  <2> QED BY <2>14, <2>15
<1> QED BY <1>5, <1>6

\* The part of a byte after its n leftmost bits.
LEMMA ClearLeftIs ==
  ASSUME NEW b \in Byte, NEW n \in Int
  PROVE  ClearLeft(b, n) \in Byte /\ \A i \in BitPos : ClearLeft(b, n)[i] = IF i < n THEN 0 ELSE b[i]
BY DEF ClearLeft, Byte, Bit

\* The n rightmost bits of a byte.
LEMMA KeepRightIs ==
  ASSUME NEW b \in Byte, NEW n \in Int
  PROVE  KeepRight(b, n) \in Byte
         /\ \A i \in BitPos : KeepRight(b, n)[i] = IF i >= ByteBits - n THEN b[i] ELSE 0
BY DEF KeepRight, Byte, Bit

\* The left part of one byte and the right part of another.
LEMMA JoinIs ==
  ASSUME NEW a \in Byte, NEW b \in Byte, NEW n \in Int
  PROVE  LET c == Merge(ClearLeft(a, n), KeepLeft(b, n))
         IN  c \in Byte /\ \A i \in BitPos : c[i] = IF i < n THEN b[i] ELSE a[i]
<1> DEFINE x == ClearLeft(a, n)
           y == KeepLeft(b, n)
<1>1. x \in Byte /\ \A i \in BitPos : x[i] = IF i < n THEN 0 ELSE a[i]
  BY ClearLeftIs
<1>2. y \in Byte /\ \A i \in BitPos : y[i] = IF i < n THEN b[i] ELSE 0
  BY KeepLeftIs
<1> HIDE DEF x, y
<1>3. Merge(x, y) \in Byte /\ \A i \in BitPos : (x[i] = 0 => Merge(x, y)[i] = y[i])
                                               /\ (y[i] = 0 => Merge(x, y)[i] = x[i])
  BY <1>1, <1>2, MergeIs
<1> QED BY <1>1, <1>2, <1>3 DEF x, y

\* The end of one byte and the beginning of the next.
LEMMA CrossingIs ==
  ASSUME NEW a \in Byte, NEW b \in Byte, NEW off \in 1 .. ByteBits - 1
  PROVE  LET c == Merge(Shl(KeepRight(a, off), ByteBits - off), Shr(KeepLeft(b, ByteBits - off), off))
         IN  c \in Byte /\ \A i \in BitPos : c[i] = IF i < off THEN a[i + (ByteBits - off)] ELSE b[i - off]
<1> DEFINE head == ByteBits - off
           x == KeepRight(a, off)
           y == KeepLeft(b, head)
           xs == Shl(x, head)
           ys == Shr(y, off)
<1>1. head \in 0 .. ByteBits /\ off \in 0 .. ByteBits /\ off \in Int /\ head \in Int
  BY ByteBitsAssumption
<1>2. x \in Byte /\ \A i \in BitPos : x[i] = IF i >= ByteBits - off THEN a[i] ELSE 0
  BY <1>1, KeepRightIs
<1>3. y \in Byte /\ \A i \in BitPos : y[i] = IF i < head THEN b[i] ELSE 0
  BY <1>1, KeepLeftIs
<1> HIDE DEF x, y
<1>4. xs \in Byte /\ \A i \in BitPos : xs[i] = IF i + head < ByteBits THEN x[i + head] ELSE 0
  BY <1>1, <1>2, ShiftsAre
<1>5. ys \in Byte /\ \A i \in BitPos : ys[i] = IF i >= off THEN y[i - off] ELSE 0
  BY <1>1, <1>3, ShiftsAre
<1> HIDE DEF xs, ys
<1>6. Merge(xs, ys) \in Byte /\ \A i \in BitPos : (xs[i] = 0 => Merge(xs, ys)[i] = ys[i])
                                                 /\ (ys[i] = 0 => Merge(xs, ys)[i] = xs[i])
  BY <1>4, <1>5, MergeIs
<1>7. ASSUME NEW i \in BitPos
      PROVE  Merge(xs, ys)[i] = IF i < off THEN a[i + head] ELSE b[i - off]
  <2>1. CASE i < off
    <3>1. i + head \in BitPos /\ i + head >= ByteBits - off /\ i + head < ByteBits /\ ~(i >= off)
      BY <2>1, ByteBitsAssumption DEF BitPos
    <3>2. xs[i] = a[i + head] /\ ys[i] = 0
      BY <1>2, <1>4, <1>5, <3>1
    <3> QED BY <1>6, <2>1, <3>2
  <2>2. CASE ~(i < off)
    <3>1. i - off \in BitPos /\ i - off < head /\ ~(i + head < ByteBits) /\ i >= off
      BY <2>2, ByteBitsAssumption DEF BitPos
    <3>2. ys[i] = b[i - off] /\ xs[i] = 0
      BY <1>3, <1>4, <1>5, <3>1
    <3> QED BY <1>6, <2>2, <3>2
  <2> QED BY <2>1, <2>2
<1> QED BY <1>6, <1>7 DEF xs, ys, x, y

\* A byte from bit off on taken from the left of another one.
LEMMA SplitIs ==
  ASSUME NEW a \in Byte, NEW b \in Byte, NEW off \in 1 .. ByteBits - 1
  PROVE  LET c == Merge(KeepLeft(a, off), Shr(KeepLeft(b, ByteBits - off), off))
         IN  c \in Byte /\ \A i \in BitPos : c[i] = IF i < off THEN a[i] ELSE b[i - off]
<1> DEFINE head == ByteBits - off
           x == KeepLeft(a, off)
           y == KeepLeft(b, head)
           ys == Shr(y, off)
<1>1. off \in 0 .. ByteBits /\ off \in Int /\ head \in Int
  BY ByteBitsAssumption
<1>2. x \in Byte /\ \A i \in BitPos : x[i] = IF i < off THEN a[i] ELSE 0
  BY <1>1, KeepLeftIs
<1>3. y \in Byte /\ \A i \in BitPos : y[i] = IF i < head THEN b[i] ELSE 0
  BY <1>1, KeepLeftIs
<1> HIDE DEF x, y
<1>4. ys \in Byte /\ \A i \in BitPos : ys[i] = IF i >= off THEN y[i - off] ELSE 0
  BY <1>1, <1>3, ShiftsAre
<1> HIDE DEF ys
<1>5. Merge(x, ys) \in Byte /\ \A i \in BitPos : (x[i] = 0 => Merge(x, ys)[i] = ys[i])
                                                /\ (ys[i] = 0 => Merge(x, ys)[i] = x[i])
  BY <1>2, <1>4, MergeIs
<1>6. ASSUME NEW i \in BitPos
      PROVE  Merge(x, ys)[i] = IF i < off THEN a[i] ELSE b[i - off]
  <2>1. CASE i < off
    <3>1. ~(i >= off)
      BY <2>1, ByteBitsAssumption DEF BitPos
    <3> QED BY <1>2, <1>4, <1>5, <2>1, <3>1
  <2>2. CASE ~(i < off)
    <3>1. i - off \in BitPos /\ i - off < head /\ i >= off
      BY <2>2, ByteBitsAssumption DEF BitPos
    <3>2. ys[i] = b[i - off] /\ x[i] = 0
      BY <1>2, <1>3, <1>4, <2>2, <3>1
    <3> QED BY <1>5, <2>2, <3>2
  <2> QED BY <2>1, <2>2
<1> QED BY <1>5, <1>6 DEF ys, x, y

\* Byte a with n bits from bit off on taken from the left of byte b.
ByteWithin(c, a, off, n, b) ==
  /\ c \in Byte
  /\ \A i \in BitPos : off <= i /\ i < off + n => c[i] = b[i - off]
  /\ \A i \in BitPos : ~(off <= i /\ i < off + n) => c[i] = a[i]

\* What SetSlice_Impl makes of a byte that holds both ends of the slice.
LEMMA WithinIs ==
  ASSUME NEW a \in Byte, NEW b \in Byte, NEW off \in 1 .. ByteBits - 1, NEW n \in Nat, off + n < ByteBits,
         NEW c, c = Merge(Merge(KeepLeft(a, off), ClearLeft(a, off + n)), Shr(KeepLeft(b, n), off))
  PROVE  ByteWithin(c, a, off, n, b)
<1> DEFINE x == KeepLeft(a, off)
           z == ClearLeft(a, off + n)
           xz == Merge(x, z)
           y == KeepLeft(b, n)
           ys == Shr(y, off)
<1>1. off \in 0 .. ByteBits /\ off \in Int /\ n \in Int /\ off + n \in Int
  BY ByteBitsAssumption
<1>2. x \in Byte /\ \A i \in BitPos : x[i] = IF i < off THEN a[i] ELSE 0
  BY <1>1, KeepLeftIs
<1>3. y \in Byte /\ \A i \in BitPos : y[i] = IF i < n THEN b[i] ELSE 0
  BY <1>1, KeepLeftIs
<1>4. z \in Byte /\ \A i \in BitPos : z[i] = IF i < off + n THEN 0 ELSE a[i]
  BY <1>1, ClearLeftIs
<1> HIDE DEF x, y, z
<1>5. ys \in Byte /\ \A i \in BitPos : ys[i] = IF i >= off THEN y[i - off] ELSE 0
  BY <1>1, <1>3, ShiftsAre
<1>6. xz \in Byte /\ \A i \in BitPos : (x[i] = 0 => xz[i] = z[i]) /\ (z[i] = 0 => xz[i] = x[i])
  BY <1>2, <1>4, MergeIs
<1> HIDE DEF ys, xz
<1>7. Merge(xz, ys) \in Byte /\ \A i \in BitPos : (xz[i] = 0 => Merge(xz, ys)[i] = ys[i])
                                                 /\ (ys[i] = 0 => Merge(xz, ys)[i] = xz[i])
  BY <1>5, <1>6, MergeIs
<1>8. ASSUME NEW i \in BitPos
      PROVE  Merge(xz, ys)[i] = IF off <= i /\ i < off + n THEN b[i - off] ELSE a[i]
  <2>1. CASE i < off
    <3>1. ~(i >= off) /\ i < off + n /\ ~(off <= i)
      BY <1>1, <2>1 DEF BitPos
    <3>2. z[i] = 0 /\ ys[i] = 0 /\ x[i] = a[i]
      BY <1>2, <1>4, <1>5, <2>1, <3>1
    <3> QED BY <1>6, <1>7, <3>1, <3>2
  <2>2. CASE ~(i < off) /\ i < off + n
    <3>1. i - off \in BitPos /\ i - off < n /\ i >= off /\ off <= i
      BY <2>2, ByteBitsAssumption DEF BitPos
    <3>2. ys[i] = b[i - off] /\ x[i] = 0 /\ z[i] = 0
      BY <1>2, <1>3, <1>4, <1>5, <2>2, <3>1
    <3> QED BY <1>6, <1>7, <2>2, <3>1, <3>2
  <2>3. CASE ~(i < off + n)
    <3>1. i - off \in BitPos /\ ~(i - off < n) /\ i >= off /\ ~(i < off)
      BY <2>3, ByteBitsAssumption DEF BitPos
    <3>2. ys[i] = 0 /\ x[i] = 0 /\ z[i] = a[i]
      BY <1>2, <1>3, <1>4, <1>5, <2>3, <3>1
    <3> QED BY <1>6, <1>7, <2>3, <3>2
  <2> QED BY <2>1, <2>2, <2>3
<1>9. c = Merge(xz, ys)
  BY DEF xz, ys, x, y, z
<1> QED BY <1>7, <1>8, <1>9 DEF ByteWithin

\* The source of SetSlice_Impl and the byte after it.
SourceByte(source, past, k) == IF k <= Len(source) THEN source[k] ELSE past

\* What SetSlice_Impl makes of byte j.
SetSliceByte(old, j, o, n, source, past) ==
  LET off  == o % ByteBits
      fst  == o \div ByteBits + 1
      src(k) == SourceByte(source, past, k)
      full == n \div ByteBits
      rest == n % ByteBits
      head == ByteBits - off
      crossing(k) == Merge(Shl(KeepRight(src(k), off), head), Shr(KeepLeft(src(k + 1), head), off))
      left(k) == n - head - (k - 1) * ByteBits
  IN  IF j < fst THEN old
      ELSE IF off = 0
        THEN IF j < fst + full THEN src(j - fst + 1)
             ELSE IF j = fst + full /\ rest # 0
               THEN Merge(ClearLeft(old, rest), KeepLeft(src(full + 1), rest)) ELSE old
      ELSE IF off + n < ByteBits
        THEN IF j = fst THEN Merge(Merge(KeepLeft(old, off), ClearLeft(old, off + n)),
                                   Shr(KeepLeft(src(1), n), off)) ELSE old
      ELSE IF j = fst THEN Merge(KeepLeft(old, off), Shr(KeepLeft(src(1), head), off))
      ELSE IF left(j - fst) >= ByteBits THEN crossing(j - fst)
      ELSE IF left(j - fst) > 0
        THEN Merge(ClearLeft(old, left(j - fst)), KeepLeft(crossing(j - fst), left(j - fst)))
        ELSE old

\* SetSlice_Impl works byte by byte.
LEMMA SetSliceBytes ==
  ASSUME NEW v, NEW o, NEW n, NEW source, NEW past
  PROVE  SetSlice_Impl(v, o, n, source, past) =
           With(v, [j \in DOMAIN v.data |-> SetSliceByte(v.data[j], j, o, n, source, past)], v.used)
BY DEF SetSlice_Impl, SetSliceByte, SourceByte

\* Byte j of a vector whose n bits at offset o became those of t, old being the
\* byte before.
ByteOverwritten(b, old, j, o, n, t) ==
  /\ b \in Byte
  /\ \A i \in BitPos : o <= Start(j) + i /\ Start(j) + i < o + n => b[i] = t[Start(j) + i - o + 1]
  /\ \A i \in BitPos : ~(o <= Start(j) + i /\ Start(j) + i < o + n) => b[i] = old[i]

\* Bit i of byte j becomes the one of the source when it lies in the slice, and
\* stays as it is otherwise.
LEMMA SetSliceByteIs ==
  ASSUME NEW o \in Nat, NEW n \in Nat \ {0}, NEW source \in Seq(Byte), NEW past \in Byte, NEW t,
         BytesCountFromBitsCount(n) <= Len(source), BitsAre(source, t, n),
         NEW old \in Byte, NEW j \in Nat \ {0}
  PROVE  ByteOverwritten(SetSliceByte(old, j, o, n, source, past), old, j, o, n, t)
<1> DEFINE off == o % ByteBits
           fst == o \div ByteBits + 1
           src(k) == SourceByte(source, past, k)
           full == n \div ByteBits
           rest == n % ByteBits
           head == ByteBits - off
           crossing(k) == Merge(Shl(KeepRight(src(k), off), head), Shr(KeepLeft(src(k + 1), head), off))
           left(k) == n - head - (k - 1) * ByteBits
           b == SetSliceByte(old, j, o, n, source, past)
           f == Start(fst)
           k == j - fst
<1>1. off \in BitPos /\ fst \in Nat /\ fst >= 1 /\ fst \in Int /\ off \in Int
  <2>1. o \div ByteBits \in Nat /\ off \in BitPos
    BY BytesSplit
  <2> QED BY <2>1 DEF BitPos
<1>2. o = f + off /\ f \in Nat
  <2>1. o = f + off
    BY BytesSplit
  <2>2. fst \in 1 .. fst
    BY <1>1
  <2> HIDE DEF fst
  <2>3. f \in Nat
    BY <1>1, <2>2, ByteBounds
  <2> QED BY <2>1, <2>3
<1>3. Start(j) \in Nat
  <2>1. j \in 1 .. j
    OBVIOUS
  <2> QED BY <2>1, ByteBounds
\* the bytes of the source
<1>4. ASSUME NEW x \in Nat \ {0} PROVE src(x) \in Byte
  BY DEF SourceByte
<1>5. ASSUME NEW x \in Nat \ {0}, NEW i \in BitPos, Start(x) + i < n
      PROVE  src(x)[i] = t[Start(x) + i + 1]
  <2>1. Start(x) < n
    <3>1. Start(x) \in Int
      BY Starts
    <3> QED BY <1>5, <3>1 DEF BitPos
  <2>2. x <= BytesCountFromBitsCount(n)
    BY <2>1, ByteOfBit
  <2>3. x \in 1 .. Len(source)
    BY <2>2, BytesBounds
  <2> QED BY <1>5, <2>3 DEF SourceByte, BitsAre
<1>6. b = IF j < fst THEN old
          ELSE IF off = 0
            THEN IF j < fst + full THEN src(j - fst + 1)
                 ELSE IF j = fst + full /\ rest # 0
                   THEN Merge(ClearLeft(old, rest), KeepLeft(src(full + 1), rest)) ELSE old
          ELSE IF off + n < ByteBits
            THEN IF j = fst THEN Merge(Merge(KeepLeft(old, off), ClearLeft(old, off + n)),
                                       Shr(KeepLeft(src(1), n), off)) ELSE old
          ELSE IF j = fst THEN Merge(KeepLeft(old, off), Shr(KeepLeft(src(1), head), off))
          ELSE IF left(k) >= ByteBits THEN crossing(k)
          ELSE IF left(k) > 0
            THEN Merge(ClearLeft(old, left(k)), KeepLeft(crossing(k), left(k)))
            ELSE old
  BY DEF SetSliceByte
<1>7. ASSUME j >= fst PROVE Start(j) = f + Start(k + 1) /\ k \in Nat /\ Start(k + 1) \in Nat /\ k + 1 \in Int
  <2>1. k \in Nat
    BY <1>1, <1>7
  <2> HIDE DEF fst
  <2>2. Start(j) = f + Start(k + 1)
    BY <1>1, ByteBitsAssumption, SMTT(60) DEF Start
  <2>3. k + 1 \in 1 .. k + 1 /\ k + 1 \in Int
    BY <2>1
  <2>4. Start(k + 1) \in Nat
    BY <2>3, ByteBounds
  <2> QED BY <2>1, <2>2, <2>3, <2>4
<1> HIDE DEF off, fst, src, full, rest, b
<1> SUFFICES b \in Byte /\ \A i \in BitPos : b[i] = IF o <= Start(j) + i /\ Start(j) + i < o + n
                                                      THEN t[Start(j) + i - o + 1] ELSE old[i]
  BY DEF ByteOverwritten, b
<1>8. CASE j < fst
  <2>1. b = old
    BY <1>6, <1>8
  <2>2. Start(j) + ByteBits <= f
    BY <1>1, <1>8, StartOrder
  <2> HIDE DEF f
  <2>3. \A i \in BitPos : ~(o <= Start(j) + i)
    BY <1>1, <1>2, <1>3, <2>2, ByteBitsAssumption DEF BitPos
  <2> QED BY <2>1, <2>3
<1>9. CASE j >= fst /\ off = 0
  <2> DEFINE g == Start(k + 1)
             a == Start(full + 1)
  <2>1. full \in Nat /\ rest \in BitPos /\ n = a + rest /\ full + 1 \in Int
    BY BytesSplit DEF full, rest
  <2>2. a \in Nat
    <3>1. full + 1 \in 1 .. full + 1
      BY <2>1
    <3> QED BY <2>1, <3>1, ByteBounds
  <2>3. k \in Nat /\ g \in Nat /\ k + 1 \in Int /\ Start(j) = f + g /\ k + 1 \in Nat \ {0}
    BY <1>7, <1>9
  <2>4. b = IF k < full THEN src(k + 1)
            ELSE IF k = full /\ rest # 0
                   THEN Merge(ClearLeft(old, rest), KeepLeft(src(full + 1), rest)) ELSE old
    <3>1. ~(j < fst) /\ (j < fst + full <=> k < full) /\ (j = fst + full <=> k = full)
      BY <1>1, <1>9, <2>1
    <3> QED BY <1>6, <1>9, <3>1
  <2>5. \A i \in BitPos : /\ Start(j) + i = o + (g + i) /\ o <= Start(j) + i
                          /\ (Start(j) + i < o + n <=> g + i < n) /\ Start(j) + i - o = g + i
    <3> HIDE DEF f, g
    <3> QED BY <1>2, <1>3, <1>9, <2>3 DEF BitPos
  <2> SUFFICES b \in Byte /\ \A i \in BitPos : b[i] = IF g + i < n THEN t[g + i + 1] ELSE old[i]
    <3> HIDE DEF g, k, f
    <3> QED BY <2>5
  <2>6. CASE k < full
    <3>1. g + ByteBits <= a
      BY <2>1, <2>3, <2>6, StartOrder
    <3>2. \A i \in BitPos : g + i < n
      <4> HIDE DEF g, a
      <4> QED BY <2>1, <2>2, <2>3, <3>1, ByteBitsAssumption DEF BitPos
    <3> QED BY <1>4, <1>5, <2>3, <2>4, <2>6, <3>2
  <2>7. CASE k = full
    <3>1. g = a
      BY <2>7
    <3>2. \A i \in BitPos : g + i < n <=> i < rest
      <4> HIDE DEF g, a
      <4> QED BY <2>1, <2>2, <3>1, ByteBitsAssumption DEF BitPos
    <3>3. CASE rest = 0
      <4>1. \A i \in BitPos : ~(i < rest)
        BY <3>3 DEF BitPos
      <4> QED BY <2>1, <2>3, <2>4, <2>7, <3>2, <3>3, <4>1
    <3>4. CASE rest # 0
      <4>1. b = Merge(ClearLeft(old, rest), KeepLeft(src(full + 1), rest)) /\ src(full + 1) \in Byte /\ rest \in Int
        BY <1>4, <2>1, <2>3, <2>4, <2>7, <3>4 DEF BitPos
      <4>2. b \in Byte /\ \A i \in BitPos : b[i] = IF i < rest THEN src(full + 1)[i] ELSE old[i]
        BY <4>1, JoinIs
      <4>3. \A i \in BitPos : g + i < n => src(full + 1)[i] = t[g + i + 1]
        BY <1>5, <2>3, <2>7
      <4> QED BY <3>2, <4>2, <4>3
    <3> QED BY <3>3, <3>4
  <2>8. CASE k > full
    <3>1. a + ByteBits <= g
      BY <2>1, <2>3, <2>8, StartOrder
    <3>2. \A i \in BitPos : ~(g + i < n)
      <4> HIDE DEF g, a
      <4> QED BY <2>1, <2>2, <2>3, <3>1, ByteBitsAssumption DEF BitPos
    <3>3. ~(k < full) /\ k # full
      BY <2>1, <2>3, <2>8
    <3> QED BY <2>4, <3>2, <3>3
  <2> QED BY <2>1, <2>3, <2>6, <2>7, <2>8
<1>10. CASE j >= fst /\ off # 0 /\ off + n < ByteBits
  <2>1. off \in 1 .. ByteBits - 1 /\ 1 \in Nat \ {0} /\ src(1) \in Byte /\ n \in Nat
    BY <1>1, <1>4, <1>10 DEF BitPos
  <2>2. CASE j = fst
    <3>1. b = Merge(Merge(KeepLeft(old, off), ClearLeft(old, off + n)), Shr(KeepLeft(src(1), n), off))
      <4>1. ~(j < fst)
        BY <1>1, <1>10
      <4> QED BY <1>6, <1>10, <2>2, <4>1
    <3>2. b \in Byte /\ \A i \in BitPos : b[i] = IF off <= i /\ i < off + n THEN src(1)[i - off] ELSE old[i]
      <4> DEFINE x == src(1)
      <4>1. off + n < ByteBits /\ x \in Byte
        BY <1>10, <2>1
      <4>2. b = Merge(Merge(KeepLeft(old, off), ClearLeft(old, off + n)), Shr(KeepLeft(x, n), off))
        BY <3>1
      <4> HIDE DEF x
      <4>3. b \in Byte /\ \A i \in BitPos : b[i] = IF off <= i /\ i < off + n THEN x[i - off] ELSE old[i]
        <5>1. off \in 1 .. ByteBits - 1
          BY <2>1
        <5>2. n \in Nat
          BY <2>1
        <5>3. x \in Byte
          BY <4>1
        <5>4. off + n < ByteBits
          BY <4>1
        <5>5. ByteWithin(b, old, off, n, x)
          BY <4>2, <5>1, <5>2, <5>3, <5>4, WithinIs
        <5> QED BY <5>5 DEF ByteWithin
      <4> QED BY <4>3 DEF x
    <3>3. Start(j) = f
      BY <2>2
    <3>4. Start(1) = 0
      BY Starts
    <3> HIDE DEF f
    <3>5. ASSUME NEW i \in BitPos
          PROVE  b[i] = IF o <= Start(j) + i /\ Start(j) + i < o + n
                          THEN t[Start(j) + i - o + 1] ELSE old[i]
      <4>1. (o <= Start(j) + i <=> off <= i) /\ (Start(j) + i < o + n <=> i < off + n)
            /\ Start(j) + i - o = i - off
        BY <1>1, <1>2, <3>3 DEF BitPos
      <4>2. ASSUME off <= i, i < off + n PROVE src(1)[i - off] = t[(i - off) + 1]
        <5>1. i - off \in BitPos /\ 0 + (i - off) < n /\ 0 + (i - off) = i - off
          BY <2>1, <4>2, ByteBitsAssumption DEF BitPos
        <5> QED BY <1>5, <2>1, <3>4, <5>1
      <4> QED BY <3>2, <4>1, <4>2
    <3> QED BY <3>2, <3>5
  <2>3. CASE j # fst
    <3>1. b = old
      <4>1. ~(j < fst)
        BY <1>1, <1>10
      <4> QED BY <1>6, <1>10, <2>3, <4>1
    <3>2. fst < j
      BY <1>1, <1>10, <2>3
    <3>3. f + ByteBits <= Start(j)
      BY <1>1, <3>2, StartOrder
    <3> HIDE DEF f
    <3>4. \A i \in BitPos : ~(Start(j) + i < o + n)
      BY <1>1, <1>2, <1>3, <1>10, <3>3, ByteBitsAssumption DEF BitPos
    <3> QED BY <3>1, <3>4
  <2> QED BY <2>2, <2>3
<1>11. CASE j >= fst /\ off # 0 /\ ~(off + n < ByteBits)
  <2>1. off \in 1 .. ByteBits - 1 /\ 1 \in Nat \ {0} /\ src(1) \in Byte
        /\ head \in 1 .. ByteBits - 1 /\ head <= n /\ off + head = ByteBits
    BY <1>1, <1>4, <1>11, ByteBitsAssumption DEF BitPos
  <2>2. CASE j = fst
    <3>1. b = Merge(KeepLeft(old, off), Shr(KeepLeft(src(1), ByteBits - off), off))
      <4>1. ~(j < fst)
        BY <1>1, <1>11
      <4> QED BY <1>6, <1>11, <2>2, <4>1
    <3>2. b \in Byte /\ \A i \in BitPos : b[i] = IF i < off THEN old[i] ELSE src(1)[i - off]
      BY <2>1, <3>1, SplitIs
    <3>3. Start(j) = f
      BY <2>2
    <3>4. Start(1) = 0
      BY Starts
    <3> HIDE DEF f, head
    <3>5. ASSUME NEW i \in BitPos
          PROVE  b[i] = IF o <= Start(j) + i /\ Start(j) + i < o + n
                          THEN t[Start(j) + i - o + 1] ELSE old[i]
      <4>1. (o <= Start(j) + i <=> ~(i < off)) /\ Start(j) + i < o + n
            /\ Start(j) + i - o = i - off
        BY <1>1, <1>2, <2>1, <3>3, ByteBitsAssumption DEF BitPos
      <4>2. ASSUME ~(i < off) PROVE src(1)[i - off] = t[(i - off) + 1]
        <5>1. i - off \in BitPos /\ 0 + (i - off) < n /\ 0 + (i - off) = i - off
          BY <2>1, <4>2, ByteBitsAssumption DEF BitPos
        <5> QED BY <1>5, <2>1, <3>4, <5>1
      <4> QED BY <3>2, <4>1, <4>2
    <3> QED BY <3>2, <3>5
  <2>3. CASE j # fst
    <3> DEFINE g == Start(k)
               l == left(k)
               c == crossing(k)
    <3>1. k \in Nat \ {0} /\ k + 1 \in Nat \ {0} /\ k \in Int
      BY <1>1, <1>11, <2>3
    <3>2. g \in Nat /\ Start(k + 1) = g + ByteBits
      <4>1. k \in 1 .. k
        BY <3>1
      <4> QED BY <3>1, <4>1, ByteBounds, Starts
    <3>3. l = n - head - g
      BY DEF Start
    <3>4. b = IF l >= ByteBits THEN c ELSE IF l > 0 THEN Merge(ClearLeft(old, l), KeepLeft(c, l)) ELSE old
      <4>1. ~(j < fst)
        BY <1>1, <1>11
      <4> QED BY <1>6, <1>11, <2>3, <4>1
    <3>5. Start(j) = f + g + ByteBits
      <4>1. Start(j) = f + Start(k + 1)
        BY <1>7, <1>11
      <4> HIDE DEF f, g, k
      <4> QED BY <1>2, <3>2, <4>1, ByteBitsAssumption
    <3>6. c \in Byte /\ \A i \in BitPos : c[i] = IF i < off THEN src(k)[i + head] ELSE src(k + 1)[i - off]
      <4>1. src(k) \in Byte /\ src(k + 1) \in Byte
        BY <1>4, <3>1
      <4> QED BY <2>1, <4>1, CrossingIs
    <3> HIDE DEF f, g, k, l, c, head
    <3>7. l \in Int
      BY <2>1, <3>2, <3>3
    <3>8. \A i \in BitPos : /\ o <= Start(j) + i /\ (Start(j) + i < o + n <=> i < l)
                            /\ Start(j) + i - o = g + head + i
      BY <1>1, <1>2, <2>1, <3>2, <3>3, <3>5, ByteBitsAssumption DEF BitPos
    <3>9. ASSUME NEW i \in BitPos, i < l PROVE c[i] = t[g + head + i + 1]
      <4>1. CASE i < off
        <5>1. i + head \in BitPos /\ g + (i + head) < n /\ g + (i + head) + 1 = g + head + i + 1
          BY <2>1, <3>2, <3>3, <3>9, <4>1, ByteBitsAssumption DEF BitPos
        <5>2. src(k)[i + head] = t[g + (i + head) + 1]
          BY <1>5, <3>1, <5>1 DEF g
        <5> QED BY <3>6, <4>1, <5>1, <5>2
      <4>2. CASE ~(i < off)
        <5>1. i - off \in BitPos /\ g + ByteBits + (i - off) < n /\ g + ByteBits + (i - off) + 1 = g + head + i + 1
          BY <1>1, <2>1, <3>2, <3>3, <3>9, <4>2, ByteBitsAssumption DEF BitPos
        <5>2. src(k + 1)[i - off] = t[g + ByteBits + (i - off) + 1]
          BY <1>5, <3>1, <3>2, <5>1
        <5> QED BY <3>6, <4>2, <5>1, <5>2
      <4> QED BY <4>1, <4>2
    <3>10. b \in Byte /\ \A i \in BitPos : b[i] = IF i < l THEN c[i] ELSE old[i]
      <4>1. CASE l >= ByteBits
        <5>1. \A i \in BitPos : i < l
          BY <3>7, <4>1, ByteBitsAssumption DEF BitPos
        <5> QED BY <3>4, <3>6, <4>1, <5>1
      <4>2. CASE ~(l >= ByteBits) /\ l > 0
        <5>1. b = Merge(ClearLeft(old, l), KeepLeft(c, l))
          BY <3>4, <4>2
        <5> QED BY <3>6, <3>7, <5>1, JoinIs
      <4>3. CASE ~(l > 0)
        <5>1. (\A i \in BitPos : ~(i < l)) /\ ~(l >= ByteBits)
          BY <3>7, <4>3, ByteBitsAssumption DEF BitPos
        <5> QED BY <3>4, <4>3, <5>1
      <4> QED BY <4>1, <4>2, <4>3
    <3> QED BY <3>8, <3>9, <3>10
  <2> QED BY <2>2, <2>3
<1>12. j < fst \/ j >= fst
  BY <1>1
<1> QED BY <1>8, <1>9, <1>10, <1>11, <1>12

\* The first m bits of u are those of s with n of them, at offset o, from t.
Overwritten(u, m, s, o, n, t) ==
  \A k \in 1 .. m : u[k] = IF k \in o + 1 .. o + n THEN t[k - o] ELSE s[k]

\* Writing bits over those of a vector.
LEMMA SetSliceHolds ==
  ASSUME NEW s, NEW m, NEW v, Holds(v, s, m), NEW o \in Nat, NEW n \in Nat \ {0}, o + n <= m,
         NEW source \in Seq(Byte), NEW past \in Byte, NEW t,
         BytesCountFromBitsCount(n) <= Len(source), BitsAre(source, t, n),
         NEW u, Overwritten(u, m, s, o, n, t)
  PROVE  Holds(SetSlice_Impl(v, o, n, source, past), u, m)
<1> DEFINE d == v.data
           new(j) == SetSliceByte(d[j], j, o, n, source, past)
           e == [j \in DOMAIN d |-> new(j)]
<1>1. v \in Vectors /\ d \in Seq(Byte) /\ m \in Nat /\ v.used = m
      /\ Len(d) = BytesCountFromBitsCount(m) /\ Len(d) \in Nat /\ Len(d) \in Int /\ DOMAIN d = 1 .. Len(d)
  BY HoldsFields
<1>2. SetSlice_Impl(v, o, n, source, past) = With(v, e, m)
  BY <1>1, SetSliceBytes
<1>3. ASSUME NEW j \in 1 .. Len(d), NEW i \in BitPos
      PROVE  d[j][i] = IF Start(j) + i < m THEN s[Start(j) + i + 1] ELSE 0
  BY DEF Holds
<1> HIDE DEF d
<1>4. ASSUME NEW j \in 1 .. Len(d)
      PROVE  ByteOverwritten(new(j), d[j], j, o, n, t) /\ new(j) \in Byte
  <2>1. d[j] \in Byte /\ j \in Nat \ {0}
    BY <1>1
  <2>2. ByteOverwritten(new(j), d[j], j, o, n, t)
    BY <2>1, SetSliceByteIs
  <2> QED BY <2>2 DEF ByteOverwritten
<1> HIDE DEF new
<1>5. e \in Seq(Byte) /\ Len(e) = Len(d) /\ \A j \in 1 .. Len(d) : e[j] = new(j)
  BY <1>1, <1>4
<1> HIDE DEF e
<1>6. ASSUME NEW j \in 1 .. Len(d), NEW i \in BitPos
      PROVE  e[j][i] = IF Start(j) + i < m THEN u[Start(j) + i + 1] ELSE 0
  <2> DEFINE p == Start(j) + i
  <2>1. p \in Nat /\ Start(j) \in Int /\ i \in Int
    <3>1. Start(j) \in Nat
      BY <1>1, ByteBounds
    <3> QED BY <3>1 DEF BitPos
  <2>2. e[j][i] = IF o <= p /\ p < o + n THEN t[p - o + 1] ELSE d[j][i]
    <3>1. ByteOverwritten(e[j], d[j], j, o, n, t)
      BY <1>4, <1>5
    <3>2. o <= p /\ p < o + n => e[j][i] = t[p - o + 1]
      BY SMTT(60), <2>1, <3>1 DEF ByteOverwritten
    <3>3. ~(o <= p /\ p < o + n) => e[j][i] = d[j][i]
      BY <3>1 DEF ByteOverwritten
    <3> QED BY <3>2, <3>3
  <2>3. d[j][i] = IF p < m THEN s[p + 1] ELSE 0
    BY <1>3
  <2> HIDE DEF p
  <2>4. o <= p /\ p < o + n => p < m
    BY <1>1, <2>1
  <2>5. (p + 1 \in o + 1 .. o + n <=> o <= p /\ p < o + n) /\ (p + 1) - o = p - o + 1
    BY <2>1
  <2>6. p < m => p + 1 \in 1 .. m
    BY <1>1, <2>1
  <2>7. e[j][i] = IF p < m THEN u[p + 1] ELSE 0
    <3>1. p < m => u[p + 1] = IF o <= p /\ p < o + n THEN t[p - o + 1] ELSE s[p + 1]
      BY <2>5, <2>6 DEF Overwritten
    <3> QED BY <2>2, <2>3, <2>4, <3>1
  <2> QED BY <2>7 DEF p
<1>7. Len(e) = BytesCountFromBitsCount(m)
  BY <1>1, <1>5
<1>8. \A j \in 1 .. Len(e), i \in BitPos :
        e[j][i] = IF Start(j) + i < m THEN u[Start(j) + i + 1] ELSE 0
  BY <1>5, <1>6
<1>9. Holds(With(v, e, m), u, m)
  BY <1>1, <1>5, <1>7, <1>8, HoldsIf
<1> QED BY <1>2, <1>9

\* The bits of an integer.
LEMMA WordBitsAre ==
  ASSUME NEW value \in Seq(Byte)
  PROVE  WordBits(value) \in Seq(Bit) /\ Len(WordBits(value)) = Len(value) * ByteBits
         /\ Len(value) * ByteBits \in Nat
<1> DEFINE e == Len(value) * ByteBits
<1>1. e \in Nat /\ Start(Len(value) + 1) = e /\ Len(value) \in Nat
  BY ByteBitsAssumption DEF Start
<1>2. ASSUME NEW i \in 1 .. e
      PROVE  value[(i - 1) \div ByteBits + 1][(i - 1) % ByteBits] \in Bit
  <2> DEFINE q == (i - 1) \div ByteBits
             r == (i - 1) % ByteBits
  <2>1. i - 1 \in Nat /\ i - 1 < e
    BY <1>1
  <2>2. q \in Nat /\ r \in BitPos /\ i - 1 = Start(q + 1) + r /\ q + 1 \in Int
    <3> DEFINE h == i - 1
    <3>1. h \in Nat
      BY <2>1
    <3> HIDE DEF h
    <3>2. h \div ByteBits \in Nat /\ h % ByteBits \in BitPos
          /\ h = Start(h \div ByteBits + 1) + (h % ByteBits)
      BY <3>1, BytesSplit
    <3> QED BY <3>2 DEF h
  <2> HIDE DEF q, r, e
  <2>3. q < Len(value)
    <3>1. Start(q + 1) < Start(Len(value) + 1) /\ Len(value) + 1 \in Int
      <4>1. Start(q + 1) \in Int
        BY <2>2, Starts
      <4> QED BY <1>1, <2>1, <2>2, <4>1 DEF BitPos
    <3>2. q + 1 < Len(value) + 1
      BY <2>2, <3>1, StartLess
    <3> QED BY <1>1, <2>2, <3>2
  <2>4. value[q + 1] \in Byte
    BY <1>1, <2>2, <2>3
  <2> QED BY <2>2, <2>4 DEF Byte, q, r
<1> HIDE DEF e
<1>3. WordBits(value) = [i \in 1 .. e |-> value[(i - 1) \div ByteBits + 1][(i - 1) % ByteBits]]
  BY DEF WordBits, e
<1>4. WordBits(value) \in Seq(Bit) /\ Len(WordBits(value)) = e
  BY <1>1, <1>2, <1>3
<1> QED BY <1>1, <1>4 DEF e

\* The n least significant bits of an integer as a vector: fill and then the
\* integer where it is shorter, the end of the integer where it is longer.
LEMMA LowBitsHold ==
  ASSUME NEW value \in Seq(Byte), NEW n \in Nat \ {0}, NEW fill \in Bit, NEW empty, NEW u,
         Holds(empty, u, 0), \A i \in 1 .. n : u[i] = LowBits(WordBits(value), n, fill)[i],
         Len(value) # 0
  PROVE  LET width == Len(value) * ByteBits
         IN  /\ n > width => Holds(AppendChunks(AppendBits(empty, fill, n - width), width, "Right", value), u, n)
             /\ n <= width => Holds(AppendChunks(empty, n, "Right", value), u, n)
<1> DEFINE width == Len(value) * ByteBits
           w == WordBits(value)
<1>1. w \in Seq(Bit) /\ Len(w) = width /\ width \in Nat
  BY WordBitsAre
<1>2. width # 0
  <2>1. Len(value) \in Nat \ {0}
    OBVIOUS
  <2> QED BY <2>1, ByteBitsAssumption
<1> HIDE DEF width
<1>3. \A i \in 1 .. n : u[i] = IF i + width > n THEN w[i + width - n] ELSE fill
  <2> HIDE DEF w
  <2>1. \A i \in 1 .. n : LowBits(w, n, fill)[i] = IF i + width > n THEN w[i + width - n] ELSE fill
    BY <1>1 DEF LowBits
  <2>2. \A i \in 1 .. n : u[i] = LowBits(w, n, fill)[i]
    BY DEF w
  <2> QED BY <2>1, <2>2
<1>4. CASE n > width
  <2> DEFINE pad == n - width
  <2>1. pad \in Nat /\ 0 + pad = pad /\ pad + width = n
    BY <1>1, <1>4
  <2>2. \A k \in 1 .. pad : u[0 + k] = fill
    <3>1. ASSUME NEW k \in 1 .. pad PROVE 0 + k = k /\ k \in 1 .. n /\ ~(k + width > n)
      BY <1>1, <1>4
    <3> QED BY <1>3, <3>1
  <2> HIDE DEF pad
  <2>3. 0 % ByteBits = 0 /\ 0 \in Nat
    <3>1. 0 \in BitPos /\ 0 = Start(0 + 1) + 0
      BY Starts, ByteBitsAssumption DEF BitPos
    <3> QED BY <3>1, DivModUnique
  <2>4. Holds(AppendBits(empty, fill, pad), u, pad)
    BY <2>1, <2>2, <2>3, AppendBitsHolds
  <2>5. Continues(u, pad, width, w, width - width)
    <3> SUFFICES ASSUME NEW k \in 1 .. width PROVE u[pad + k] = w[(width - width) + k]
      BY DEF Continues
    <3>1. pad + k \in 1 .. n /\ (pad + k) + width > n /\ (pad + k) + width - n = (width - width) + k
      BY <1>1, <2>1
    <3> QED BY <1>3, <3>1
  <2>6. width \in 1 .. width
    BY <1>1, <1>2
  <2>7. Holds(AppendChunks(AppendBits(empty, fill, pad), width, "Right", value), u, pad + width)
    BY <2>1, <2>4, <2>5, <2>6, AppendChunksRight DEF width, w
  <2> QED BY <1>1, <1>4, <2>1, <2>7 DEF pad, width
<1>5. CASE n <= width
  <2>1. Continues(u, 0, n, w, width - n)
    <3> SUFFICES ASSUME NEW k \in 1 .. n PROVE u[0 + k] = w[(width - n) + k]
      BY DEF Continues
    <3>1. 0 + k = k /\ k + width > n /\ k + width - n = (width - n) + k
      BY <1>1, <1>5
    <3> QED BY <1>3, <3>1
  <2>2. n \in 1 .. width /\ 0 \in Nat /\ 0 + n = n
    BY <1>1, <1>5
  <2>3. Holds(AppendChunks(empty, n, "Right", value), u, 0 + n)
    BY <2>1, <2>2, AppendChunksRight DEF width, w
  <2> QED BY <1>1, <1>5, <2>2, <2>3 DEF width
<1>6. n > width \/ n <= width
  BY <1>1
<1>7. (n > width => ~(n <= width)) /\ (n <= width => ~(n > width))
  BY <1>1
<1> QED BY <1>4, <1>5, <1>6, <1>7 DEF width

-------------------------------------------------------------------------------
(* Leading zeroes *)

\* The first one bit of a byte that is not zero.
LEMMA FirstOne ==
  ASSUME NEW b \in Byte, b # Fill(0),
         NEW z, z = CHOOSE i \in BitPos : b[i] = 1 /\ KeepLeft(b, i) = Fill(0)
  PROVE  z \in BitPos /\ b[z] = 1 /\ \A i \in BitPos : i < z => b[i] = 0
<1> DEFINE T == {i \in BitPos : b[i] # 0}
<1>1. PICK x \in BitPos : b[x] # 0
  BY DEF Byte, Fill
<1>2. T \in SUBSET Nat /\ T # {}
  BY <1>1 DEF BitPos
<1>3. PICK f \in T : \A k \in T : f <= k
  <2> HIDE DEF T
  <2> QED BY <1>2, ByByte!NatLeast
<1>4. b[f] = 1 /\ f \in BitPos
  <2>1. b[f] \in Bit /\ b[f] # 0 /\ f \in BitPos
    BY <1>3 DEF Byte
  <2> QED BY <2>1 DEF Bit
<1>5. \A i \in BitPos : i < f => b[i] = 0
  BY <1>3, <1>4 DEF BitPos
<1>6. KeepLeft(b, f) = Fill(0)
  BY <1>5 DEF KeepLeft, Fill
<1>7. z \in BitPos /\ b[z] = 1 /\ KeepLeft(b, z) = Fill(0)
  <2> HIDE DEF T
  <2> QED BY <1>4, <1>6
<1>8. ASSUME NEW i \in BitPos, i < z PROVE b[i] = 0
  <2>1. KeepLeft(b, z)[i] = b[i] /\ Fill(0)[i] = 0
    BY <1>8 DEF KeepLeft, Fill
  <2> QED BY <1>7, <2>1
<1> QED BY <1>7, <1>8

\* The first byte of some that is not zero.
LEMMA FirstByte ==
  ASSUME NEW d \in Seq(Byte), \E p \in DOMAIN d : d[p] # Fill(0),
         NEW j, j = CHOOSE p \in DOMAIN d : d[p] # Fill(0) /\ \A k \in 1 .. p - 1 : d[k] = Fill(0)
  PROVE  j \in 1 .. Len(d) /\ d[j] # Fill(0) /\ \A k \in 1 .. j - 1 : d[k] = Fill(0)
<1> DEFINE T == {x \in 1 .. Len(d) : d[x] # Fill(0)}
<1>1. T \in SUBSET Nat /\ T # {} /\ DOMAIN d = 1 .. Len(d) /\ Len(d) \in Nat
  OBVIOUS
<1>2. PICK f \in T : \A k \in T : f <= k
  <2> HIDE DEF T
  <2> QED BY <1>1, ByByte!NatLeast
<1>3. f \in 1 .. Len(d) /\ d[f] # Fill(0)
  BY <1>2
<1>4. \A k \in 1 .. f - 1 : d[k] = Fill(0)
  BY <1>1, <1>2, <1>3
<1> HIDE DEF T
<1> QED BY <1>1, <1>3, <1>4

\* The leading zeroes of a vector are those of its bits.
LEMMA LeadingZeroesAre ==
  ASSUME NEW u, NEW m, NEW v, Holds(v, u, m), NEW z, z = LeadingZeroesCount(v)
  PROVE  z \in 0 .. m /\ (\A i \in 1 .. z : u[i] = 0) /\ (z < m => u[z + 1] = 1)
<1> DEFINE d == v.data
<1>1. d \in Seq(Byte) /\ m \in Nat /\ v.used = m /\ Len(d) = BytesCountFromBitsCount(m)
      /\ Len(d) \in Nat /\ Len(d) \in Int /\ DOMAIN d = 1 .. Len(d)
  BY HoldsFields
<1>2. ASSUME NEW j \in 1 .. Len(d), NEW i \in BitPos
      PROVE  d[j][i] = IF Start(j) + i < m THEN u[Start(j) + i + 1] ELSE 0
  BY DEF Holds
<1>3. \A i \in BitPos : Fill(0)[i] = 0
  BY DEF Fill
\* where bit i is
<1>4. ASSUME NEW i \in 1 .. m
      PROVE  \E p \in 1 .. Len(d) : \E r \in BitPos : i - 1 = Start(p) + r /\ d[p][r] = u[i]
  <2> DEFINE o == i - 1
             p == o \div ByteBits + 1
             r == o % ByteBits
  <2>1. o \in 0 .. m - 1 /\ o + 1 = i
    BY <1>1
  <2> HIDE DEF o
  <2>2. p \in 1 .. Len(d) /\ r \in BitPos /\ o = Start(p) + r /\ BitAt(v, o) = u[o + 1]
    BY <2>1, BitPlace
  <2>3. BitAt(v, o) = d[p][r]
    BY DEF BitAt
  <2> HIDE DEF p, r
  <2>4. i - 1 = Start(p) + r /\ d[p][r] = u[i]
    BY <2>1, <2>2, <2>3 DEF o
  <2> QED BY <2>2, <2>4
<1>5. CASE \A j \in DOMAIN d : d[j] = Fill(0)
  <2>1. z = m
    BY <1>1, <1>5 DEF LeadingZeroesCount
  <2>2. ASSUME NEW i \in 1 .. m PROVE u[i] = 0
    BY <1>1, <1>3, <1>4, <1>5
  <2> QED BY <1>1, <2>1, <2>2
<1>6. CASE ~\A j \in DOMAIN d : d[j] = Fill(0)
  <2> DEFINE j == CHOOSE j \in DOMAIN d : d[j] # Fill(0) /\ \A k \in 1 .. j - 1 : d[k] = Fill(0)
             y == CHOOSE i \in BitPos : d[j][i] = 1 /\ KeepLeft(d[j], i) = Fill(0)
             s == Start(j)
  <2>1. j \in 1 .. Len(d) /\ d[j] # Fill(0) /\ \A k \in 1 .. j - 1 : d[k] = Fill(0)
    <3>1. \E x \in DOMAIN d : d[x] # Fill(0)
      BY <1>6
    <3> HIDE DEF d
    <3> QED BY <1>1, <3>1, FirstByte
  <2>2. z = s + (IF y < m - s THEN y ELSE m - s)
    BY <1>1, <1>6 DEF LeadingZeroesCount, Start
  <2> HIDE DEF d, j
  <2>3. y \in BitPos /\ d[j][y] = 1 /\ \A i \in BitPos : i < y => d[j][i] = 0
    <3>1. d[j] \in Byte
      BY <1>1, <2>1
    <3> QED BY <2>1, <3>1, FirstOne
  <2> HIDE DEF y
  <2>4. s \in Nat /\ j \in Int
    <3>1. Len(d) \in Int /\ j \in 1 .. Len(d)
      BY <1>1, <2>1
    <3>2. s \in Nat
      BY <3>1, ByteBounds
    <3> QED BY <3>1, <3>2
  <2>5. s + y < m /\ u[s + y + 1] = 1
    <3>1. d[j][y] = IF s + y < m THEN u[s + y + 1] ELSE 0
      BY <1>2, <2>1, <2>3
    <3> HIDE DEF s
    <3> QED BY <2>3, <3>1
  <2>6. z = s + y /\ z \in 0 .. m /\ z < m
    <3> HIDE DEF s
    <3> QED BY <1>1, <2>2, <2>3, <2>4, <2>5 DEF BitPos
  <2>7. ASSUME NEW i \in 1 .. z PROVE u[i] = 0
    <3>1. i \in 1 .. m
      BY <1>1, <2>6
    <3>2. PICK p \in 1 .. Len(d) : \E r \in BitPos : i - 1 = Start(p) + r /\ d[p][r] = u[i]
      BY <1>4, <3>1
    <3>3. PICK r \in BitPos : i - 1 = Start(p) + r /\ d[p][r] = u[i]
      BY <3>2
    <3>4. Start(p) \in Nat /\ p \in Int
      <4>1. Len(d) \in Int /\ p \in Int
        BY <1>1
      <4>2. Start(p) \in Nat
        BY <4>1, ByteBounds
      <4> QED BY <4>1, <4>2
    <3>5. CASE p < j
      <4>1. p \in 1 .. j - 1
        BY <2>4, <3>4, <3>5
      <4> QED BY <1>3, <2>1, <3>3, <4>1
    <3>6. CASE p = j
      <4>1. r < y
        <5>1. i - 1 = s + r
          BY <3>3, <3>6
        <5> HIDE DEF s
        <5> QED BY <2>3, <2>4, <2>6, <5>1 DEF BitPos
      <4> QED BY <2>3, <3>3, <3>6, <4>1
    <3>7. CASE p > j
      <4>1. s + ByteBits <= Start(p)
        BY <2>4, <3>4, <3>7, StartOrder
      <4> HIDE DEF s
      <4> QED BY <2>3, <2>4, <2>6, <3>3, <3>4, <4>1, ByteBitsAssumption DEF BitPos
    <3> QED BY <2>4, <3>4, <3>5, <3>6, <3>7
  <2> QED BY <2>5, <2>6, <2>7
<1> QED BY <1>5, <1>6

\* Truncation of leading bits.
LEMMA TruncateHolds ==
  ASSUME NEW s \in Seq(Bit), NEW v, Holds(v, s, Len(s)), NEW n \in 0 .. Len(s)
  PROVE  BitsAt(s, n, Len(s) - n) \in Seq(Bit) /\ Len(BitsAt(s, n, Len(s) - n)) = Len(s) - n
         /\ Holds(TruncateLeadingZeroes(v, n), BitsAt(s, n, Len(s) - n), Len(s) - n)
<1> DEFINE m == Len(s)
           k == m - n
           t == BitsAt(s, n, k)
<1>1. m \in Nat /\ k \in Nat /\ n + k = m /\ n \in Nat /\ v.used = m /\ v \in Vectors
  BY HoldsFields
<1>2. t = [i \in 1 .. k |-> s[n + i]]
  BY <1>1 DEF BitsAt
<1> HIDE DEF k
<1>3. t \in Seq(Bit) /\ Len(t) = k /\ \A i \in 1 .. k : t[i] = s[n + i]
  BY <1>1, <1>2
<1> HIDE DEF t
<1>4. Continues(t, 0, k, s, n)
  BY <1>1, <1>3 DEF Continues
<1>5. Holds(Slice(v, n, k), t, k)
  BY <1>1, <1>4, SliceHolds
<1>6. Holds(Assign(v, Slice(v, n, k)), t, k)
  BY <1>1, <1>5, AssignHolds
<1>7. TruncateLeadingZeroes(v, n) = Assign(v, Slice(v, n, k))
  BY <1>1 DEF TruncateLeadingZeroes, k
<1> QED BY <1>3, <1>6, <1>7 DEF k, t

-------------------------------------------------------------------------------
(* Integers written to a vector *)

\* The low bits of a sequence of bits.
LEMMA LowBitsAre ==
  ASSUME NEW w \in Seq(Bit), NEW n \in Nat, NEW fill \in Bit
  PROVE  LowBits(w, n, fill) \in Seq(Bit) /\ Len(LowBits(w, n, fill)) = n
<1>1. ASSUME NEW i \in 1 .. n
      PROVE  (IF i + Len(w) > n THEN w[i + Len(w) - n] ELSE fill) \in Bit
  <2>1. i + Len(w) > n => i + Len(w) - n \in 1 .. Len(w)
    OBVIOUS
  <2> QED BY <2>1
<1> QED BY <1>1 DEF LowBits

\* An integer written into a range.
LEMMA SetSliceIntegerHolds ==
  ASSUME NEW s, NEW m, NEW v, Holds(v, s, m), NEW o \in Nat, NEW n \in Nat \ {0}, o + n <= m,
         NEW value \in Seq(Byte), Len(value) # 0, NEW past \in Byte,
         NEW u, Overwritten(u, m, s, o, n, LowBits(WordBits(value), n, 0))
  PROVE  Holds(SetSlice_T(v, o, n, value, past), u, m)
<1> DEFINE width == Len(value) * ByteBits
           t == LowBits(WordBits(value), n, 0)
           w == IF n > width THEN AppendChunks(AppendBits(EmptyVector, 0, n - width), width, "Right", value)
                ELSE AppendChunks(EmptyVector, n, "Right", value)
<1>1. width \in Nat /\ (n > width \/ n <= width) /\ (n > width => ~(n <= width))
  <2>1. width \in Nat
    BY WordBitsAre
  <2> QED BY <2>1
<1>2. Holds(EmptyVector, t, 0) /\ 0 \in Bit
  BY EmptyHolds DEF Bit
<1>3. \A i \in 1 .. n : t[i] = LowBits(WordBits(value), n, 0)[i]
  OBVIOUS
<1> HIDE DEF t
<1>4. Holds(w, t, n)
  BY <1>1, <1>2, <1>3, LowBitsHold
<1>5. SetSlice_T(v, o, n, value, past) = SetSlice_Impl(v, o, n, w.data, past)
  BY DEF SetSlice_T
<1> HIDE DEF w
<1>6. w.data \in Seq(Byte) /\ Len(w.data) = BytesCountFromBitsCount(n) /\ BitsAre(w.data, t, n)
  BY <1>4, HoldsFields
<1>7. BytesCountFromBitsCount(n) <= Len(w.data)
  BY <1>6, BytesBounds
<1>8. Overwritten(u, m, s, o, n, t)
  BY DEF t
<1>9. Holds(SetSlice_Impl(v, o, n, w.data, past), u, m)
  BY <1>6, <1>7, <1>8, SetSliceHolds
<1> QED BY <1>5, <1>9

\* An integer as the whole contents of a vector.
LEMMA SetIntegerHolds ==
  ASSUME NEW v \in Vectors, NEW value \in Seq(Byte), Len(value) # 0, NEW asSigned \in BOOLEAN,
         v.fixed => v.used # 0,
         NEW sign \in Bit, sign = IF asSigned THEN value[1][0] ELSE 0,
         NEW n, n = IF v.fixed THEN v.used ELSE Len(value) * ByteBits,
         NEW u, u = LowBits(WordBits(value), n, sign)
  PROVE  Holds(SetInteger(v, value, asSigned), u, n)
<1> DEFINE width == Len(value) * ByteBits
           empty == Clear(FixSize(v, FALSE))
<1>1. width \in Nat /\ width # 0
  <2>1. width \in Nat
    BY WordBitsAre
  <2>2. Len(value) \in Nat \ {0}
    OBVIOUS
  <2> QED BY <2>1, <2>2, ByteBitsAssumption
<1>2. \A i \in 1 .. n : u[i] = LowBits(WordBits(value), n, sign)[i]
  OBVIOUS
<1>3. v.fixed \in BOOLEAN /\ v.used \in Nat /\ FixSize(v, FALSE) \in Vectors
  BY DEF Vectors, FixSize
<1>4. CASE v.fixed = FALSE
  <2>1. n = width /\ n \in Nat \ {0} /\ n <= width
    BY <1>1, <1>4
  <2>2. Holds(Clear(v), u, 0)
    BY ClearHolds
  <2>3. SetInteger(v, value, asSigned) = AppendChunks(Clear(v), width, "Right", value)
    BY <1>4 DEF SetInteger
  <2>4. Holds(AppendChunks(Clear(v), n, "Right", value), u, n)
    BY <1>2, <2>1, <2>2, LowBitsHold
  <2> QED BY <2>1, <2>3, <2>4
<1>5. CASE v.fixed = TRUE
  <2> DEFINE w == IF v.used > width THEN AppendChunks(AppendBits(empty, sign, v.used - width), width, "Right", value)
                  ELSE AppendChunks(empty, v.used, "Right", value)
  <2>1. n = v.used /\ n \in Nat \ {0} /\ (n > width \/ n <= width) /\ (n > width => ~(n <= width))
    BY <1>1, <1>3, <1>5
  <2>2. Holds(empty, u, 0)
    BY <1>3, ClearHolds
  <2>3. SetInteger(v, value, asSigned) = FixSize(w, TRUE)
    BY <1>5 DEF SetInteger
  <2> HIDE DEF empty
  <2>4. Holds(w, u, n)
    BY <1>1, <1>2, <2>1, <2>2, LowBitsHold
  <2> HIDE DEF w
  <2>5. Holds(FixSize(w, TRUE), u, n)
    BY <2>4, AssignHolds
  <2> QED BY <2>3, <2>5
<1> QED BY <1>3, <1>4, <1>5

\* Only the first m bits matter.
LEMMA HoldsSame ==
  ASSUME NEW s, NEW m \in Nat, NEW v, Holds(v, s, m), NEW u, \A k \in 1 .. m : u[k] = s[k]
  PROVE  Holds(v, u, m)
<1> DEFINE d == v.data
<1>1. v \in Vectors /\ v.used = m /\ Len(d) = BytesCountFromBitsCount(m) /\ Len(d) \in Int
  BY HoldsFields, BytesBounds
<1>2. ASSUME NEW j \in 1 .. Len(d), NEW i \in BitPos
      PROVE  d[j][i] = IF Start(j) + i < m THEN u[Start(j) + i + 1] ELSE 0
  <2>1. d[j][i] = IF Start(j) + i < m THEN s[Start(j) + i + 1] ELSE 0
    BY DEF Holds
  <2>2. Start(j) + i < m => Start(j) + i + 1 \in 1 .. m
    BY <1>1, PosInSeq
  <2> QED BY <2>1, <2>2
<1> HIDE DEF d
<1> QED BY <1>1, <1>2 DEF Holds, d

-------------------------------------------------------------------------------
(* The specification *)

\* The vector holds the bits its callers take it for.
Inv == bits \in Seq(Bit) /\ Holds(vec, bits, Len(bits))

\* A call whose results agree keeps the invariant.
LEMMA CallKeeps ==
  ASSUME NEW v, NEW s \in Seq(Bit), NEW n, n = Len(s), Holds(v, s, n), Becomes(v, s)
  PROVE  Inv'
<1>1. vec' = v /\ bits' = s
  BY DEF Becomes
<1>2. bits' \in Seq(Bit) /\ Holds(vec', bits', Len(bits'))
  BY <1>1
<1> QED BY <1>2 DEF Inv, Holds

\* What the invariant says of the two variables.
LEMMA InvFacts ==
  ASSUME Inv
  PROVE  /\ bits \in Seq(Bit) /\ Len(bits) \in Nat /\ vec \in Vectors
         /\ vec.used = Len(bits) /\ vec.fixed \in BOOLEAN
         /\ Holds(vec, bits, Len(bits))
BY HoldsFields DEF Inv

\* Members of Args are sequences of bits.
LEMMA ArgsAre ==
  /\ \A n \in Nat : \A s \in BitSeqs(n) : s \in Seq(Bit) /\ Len(s) = n
  /\ \A s \in Args : s \in Seq(Bit)
<1>1. ASSUME NEW n \in Nat, NEW s \in BitSeqs(n) PROVE s \in Seq(Bit) /\ Len(s) = n
  BY DEF BitSeqs
<1>2. ASSUME NEW s \in Args PROVE s \in Seq(Bit)
  <2>1. PICK k \in 0 .. MaxArgBits : s \in BitSeqs(k)
    BY DEF Args, BitSeqsTo
  <2>2. k \in Nat
    BY <2>1
  <2> QED BY <1>1, <2>1, <2>2
<1> QED BY <1>1, <1>2

\* Integers are sequences of bytes.
LEMMA WordsAre ==
  ASSUME NEW value \in Words
  PROVE  value \in Seq(Byte) /\ Len(value) # 0 /\ Len(value) \in Nat
<1>1. Fill(1) \in Byte
  BY FillIs DEF Bit
<1>2. [i \in BitPos |-> i % 2] \in Byte
  <2>1. \A i \in BitPos : i % 2 \in Bit
    BY DEF BitPos, Bit
  <2> QED BY <2>1 DEF Byte
<1>a. ASSUME NEW k \in Nat \ {0}, value \in [1 .. k -> Byte]
      PROVE  value \in Seq(Byte) /\ Len(value) # 0 /\ Len(value) \in Nat
  <2>1. Len(value) = k
    BY <1>a
  <2> QED BY <1>a, <2>1
<1>3. CASE value \in [1 .. 1 -> Byte]
  <2>1. 1 \in Nat \ {0}
    OBVIOUS
  <2> QED BY <1>a, <1>3, <2>1
<1>4. CASE value \in [1 .. 2 -> {Fill(1), [i \in BitPos |-> i % 2]}]
  <2>1. value \in [1 .. 2 -> Byte]
    BY <1>1, <1>2, <1>4
  <2>2. 2 \in Nat \ {0}
    OBVIOUS
  <2> QED BY <1>a, <2>1, <2>2
<1> QED BY <1>3, <1>4 DEF Words

\* Init: the vector is built from its bits.
LEMMA InitHolds == Init => Inv
<1> SUFFICES ASSUME Init PROVE Inv
  OBVIOUS
<1>1. PICK s \in Args : \E fixed \in BOOLEAN : vec = FixSize(VectorOf(s), fixed) /\ bits = s
  BY DEF Init
<1>2. PICK fixed \in BOOLEAN : vec = FixSize(VectorOf(s), fixed) /\ bits = s
  BY <1>1
<1>3. s \in Seq(Bit)
  BY ArgsAre
<1>4. Holds(VectorOf(s), s, Len(s))
  BY <1>3, VectorOfHolds
<1>5. Holds(FixSize(VectorOf(s), fixed), s, Len(s))
  <2>1. VectorOf(s) \in Vectors
    BY <1>4, HoldsFields
  <2> QED BY <1>4, <2>1, AssignHolds
<1> QED BY <1>2, <1>3, <1>5 DEF Inv

\* FixSize leaves the bits alone.
LEMMA FixSizeKeeps == Inv /\ CallFixSize => Inv'
<1> SUFFICES ASSUME Inv, CallFixSize PROVE Inv'
  OBVIOUS
<1>1. PICK fixed \in BOOLEAN : Becomes(FixSize(vec, fixed), bits)
  BY DEF CallFixSize
<1>2. Holds(FixSize(vec, fixed), bits, Len(bits)) /\ bits \in Seq(Bit)
  BY InvFacts, AssignHolds
<1> QED BY <1>1, <1>2, CallKeeps

\* Clear removes all of them.
LEMMA ClearKeeps == Inv /\ CallClear => Inv'
<1> SUFFICES ASSUME Inv, CallClear PROVE Inv'
  OBVIOUS
<1>1. Becomes(Clear(vec), <<>>)
  BY DEF CallClear
<1>2. Holds(Clear(vec), <<>>, 0) /\ <<>> \in Seq(Bit) /\ Len(<<>>) = 0
  BY InvFacts, ClearHolds
<1> QED BY <1>1, <1>2, CallKeeps

\* Assignment takes those of the argument.
LEMMA AssignKeeps == Inv /\ CallAssign => Inv'
<1> SUFFICES ASSUME Inv, CallAssign PROVE Inv'
  OBVIOUS
<1>1. PICK s \in Args : Becomes(Assign(vec, VectorOf(s)), s)
  BY DEF CallAssign
<1>2. s \in Seq(Bit)
  BY ArgsAre
<1>3. Holds(Assign(vec, VectorOf(s)), s, Len(s))
  BY <1>2, InvFacts, VectorOfHolds, AssignHolds
<1> QED BY <1>1, <1>2, <1>3, CallKeeps

\* Append adds those of the argument.
LEMMA AppendKeeps == Inv /\ CallAppend => Inv'
<1> SUFFICES ASSUME Inv, CallAppend PROVE Inv'
  OBVIOUS
<1>1. PICK s \in Args : Becomes(AppendVector(vec, VectorOf(s)), bits \o s)
  BY DEF CallAppend
<1> DEFINE u == bits \o s
           m == Len(bits)
           n == Len(s)
<1>2. s \in Seq(Bit) /\ n \in Nat
  BY ArgsAre
<1>3. bits \in Seq(Bit) /\ m \in Nat /\ Holds(vec, bits, m)
  BY InvFacts
<1>4. u \in Seq(Bit) /\ Len(u) = m + n /\ (\A k \in 1 .. m : u[k] = bits[k]) /\ \A k \in 1 .. n : u[m + k] = s[k]
  BY <1>2, <1>3
<1> HIDE DEF u, m, n
<1>5. Holds(vec, u, m)
  BY <1>3, <1>4, HoldsSame
<1>6. Holds(VectorOf(s), s, n)
  BY <1>2, VectorOfHolds DEF n
<1>7. Holds(AppendVector(vec, VectorOf(s)), u, m + n)
  BY <1>2, <1>3, <1>4, <1>5, <1>6, AppendVectorHolds
<1> QED BY <1>1, <1>4, <1>7, CallKeeps DEF u

\* Append of an integer adds the bits taken from its left or its right end.
LEMMA AppendIntegerKeeps == Inv /\ CallAppendInteger => Inv'
<1> SUFFICES ASSUME Inv, CallAppendInteger PROVE Inv'
  OBVIOUS
<1>1. PICK value \in Words : \E alignment \in {"Left", "Right"} :
        \E n \in 1 .. Len(value) * ByteBits :
          Becomes(AppendChunks(vec, n, alignment, value),
                  bits \o (IF alignment = "Left" THEN BitsAt(WordBits(value), 0, n)
                           ELSE LowBits(WordBits(value), n, 0)))
  BY DEF CallAppendInteger
<1>2. PICK alignment \in {"Left", "Right"} : \E n \in 1 .. Len(value) * ByteBits :
        Becomes(AppendChunks(vec, n, alignment, value),
                bits \o (IF alignment = "Left" THEN BitsAt(WordBits(value), 0, n)
                         ELSE LowBits(WordBits(value), n, 0)))
  BY <1>1
<1>3. PICK n \in 1 .. Len(value) * ByteBits :
        Becomes(AppendChunks(vec, n, alignment, value),
                bits \o (IF alignment = "Left" THEN BitsAt(WordBits(value), 0, n)
                         ELSE LowBits(WordBits(value), n, 0)))
  BY <1>2
<1> DEFINE w == WordBits(value)
           width == Len(value) * ByteBits
           t == IF alignment = "Left" THEN BitsAt(w, 0, n) ELSE LowBits(w, n, 0)
           o == IF alignment = "Left" THEN 0 ELSE width - n
           u == bits \o t
           m == Len(bits)
<1>4. value \in Seq(Byte)
  BY WordsAre
<1>5. w \in Seq(Bit) /\ Len(w) = width /\ width \in Nat
  BY <1>4, WordBitsAre
<1>6. n \in Nat /\ n <= width /\ n \in 1 .. width
  BY <1>5
<1>7. bits \in Seq(Bit) /\ m \in Nat /\ Holds(vec, bits, m)
  BY InvFacts
<1> HIDE DEF w, width
<1>8. t \in Seq(Bit) /\ Len(t) = n /\ \A k \in 1 .. n : t[k] = w[o + k]
  <2>1. CASE alignment = "Left"
    <3>1. t = SubSeq(w, 1, n)
      BY <1>6, <2>1 DEF BitsAt
    <3>2. t = [k \in 1 .. n |-> w[k]]
      BY <1>5, <1>6, <3>1
    <3>3. \A k \in 1 .. n : w[k] \in Bit /\ o + k = k
      BY <1>5, <1>6, <2>1
    <3> HIDE DEF t
    <3> QED BY <1>6, <3>2, <3>3
  <2>2. CASE alignment = "Right"
    <3>1. t = [i \in 1 .. n |-> IF i + width > n THEN w[i + width - n] ELSE 0]
      BY <1>5, <2>2 DEF LowBits
    <3>2. ASSUME NEW i \in 1 .. n
          PROVE  i + width > n /\ i + width - n = (width - n) + i /\ i + width - n \in 1 .. width
      BY <1>5, <1>6
    <3>3. \A i \in 1 .. n : w[i + width - n] \in Bit
      BY <1>5, <3>2
    <3> QED BY <1>6, <2>2, <3>1, <3>2, <3>3
  <2> QED BY <2>1, <2>2
<1> HIDE DEF t
<1>9. u \in Seq(Bit) /\ Len(u) = m + n /\ (\A k \in 1 .. m : u[k] = bits[k]) /\ \A k \in 1 .. n : u[m + k] = t[k]
  BY <1>6, <1>7, <1>8
<1> HIDE DEF u, m
<1>10. Holds(vec, u, m)
  BY <1>7, <1>9, HoldsSame
<1>11. Continues(u, m, n, w, o)
  BY <1>8, <1>9 DEF Continues
<1>12. Holds(AppendChunks(vec, n, alignment, value), u, m + n)
  <2>1. CASE alignment = "Left"
    BY <1>4, <1>6, <1>7, <1>10, <1>11, <2>1, AppendChunksLeft DEF w, width
  <2>2. CASE alignment = "Right"
    BY <1>4, <1>6, <1>7, <1>10, <1>11, <2>2, AppendChunksRight DEF w, width
  <2> QED BY <2>1, <2>2
<1>13. Becomes(AppendChunks(vec, n, alignment, value), u)
  BY <1>3 DEF u, t, w
<1> QED BY <1>9, <1>12, <1>13, CallKeeps

\* AppendBits, where it is called as the code calls it, adds equal bits.
LEMMA AppendBitsKeeps ==
  ASSUME AppendBitsAnywhere = FALSE
  PROVE  Inv /\ CallAppendBits => Inv'
<1> SUFFICES ASSUME Inv, CallAppendBits PROVE Inv'
  OBVIOUS
<1> DEFINE added(n) == IF vec.fixed THEN n - (n % ByteBits) ELSE n
<1>0. PICK bit \in Bit, k \in 1 .. MaxBits :
        /\ added(k) < ByteBits \/ vec.used % ByteBits = 0
        /\ Becomes(AppendBits(vec, bit, added(k)), bits \o Repeat(bit, added(k)))
  BY DEF CallAppendBits
<1> DEFINE n == added(k)
<1>1. /\ n < ByteBits \/ vec.used % ByteBits = 0
      /\ Becomes(AppendBits(vec, bit, n), bits \o Repeat(bit, n))
  BY <1>0
<1> DEFINE t == Repeat(bit, n)
           u == bits \o t
           m == Len(bits)
<1>2. n \in Nat
  <2> DEFINE q == k \div ByteBits
             r == k % ByteBits
  <2>1. k \in Nat
    OBVIOUS
  <2>2. q \in Nat /\ r \in BitPos /\ k = Start(q + 1) + r
    BY <2>1, BytesSplit
  <2>3. n = k \/ n = k - r
    OBVIOUS
  <2> HIDE DEF q, r, n, added
  <2>4. r \in Nat
    BY <2>2 DEF BitPos
  <2>5. q + 1 \in Int /\ q + 1 \in 1 .. q + 1
    BY <2>2
  <2>6. Start(q + 1) \in Nat
    BY <2>5, ByteBounds
  <2> QED BY <2>1, <2>2, <2>3, <2>4, <2>6
<1> HIDE DEF added, n
<1>3. t \in Seq(Bit) /\ Len(t) = n /\ \A i \in 1 .. n : t[i] = bit
  BY <1>2 DEF Repeat
<1>4. bits \in Seq(Bit) /\ m \in Nat /\ Holds(vec, bits, m) /\ vec.used = m
  BY InvFacts
<1> HIDE DEF t
<1>5. u \in Seq(Bit) /\ Len(u) = m + n /\ (\A i \in 1 .. m : u[i] = bits[i]) /\ \A i \in 1 .. n : u[m + i] = bit
  BY <1>2, <1>3, <1>4
<1> HIDE DEF u, m
<1>6. Holds(vec, u, m)
  BY <1>4, <1>5, HoldsSame
<1>7. Holds(AppendBits(vec, bit, n), u, m + n)
  BY <1>1, <1>2, <1>4, <1>5, <1>6, AppendBitsHolds
<1> QED BY <1>1, <1>5, <1>7, CallKeeps DEF u, t

\* PrependBits puts them in front.
LEMMA PrependBitsKeeps == Inv /\ CallPrependBits => Inv'
<1> SUFFICES ASSUME Inv, CallPrependBits PROVE Inv'
  OBVIOUS
<1>1. PICK n \in 1 .. MaxArgBits, b \in Bit : Becomes(PrependBits(vec, n, Fill(b)), Repeat(b, n) \o bits)
  BY DEF CallPrependBits
<1> DEFINE t == Repeat(b, n)
           u == t \o bits
           m == Len(bits)
<1>2. n \in Nat
  OBVIOUS
<1>3. t \in Seq(Bit) /\ Len(t) = n /\ \A k \in 1 .. n : t[k] = b
  BY <1>2 DEF Repeat
<1>4. bits \in Seq(Bit) /\ m \in Nat /\ Holds(vec, bits, m)
  BY InvFacts
<1> HIDE DEF t
<1>5. u \in Seq(Bit) /\ Len(u) = n + m /\ (\A k \in 1 .. n : u[k] = b) /\ \A k \in 1 .. m : u[n + k] = bits[k]
  BY <1>2, <1>3, <1>4
<1> HIDE DEF u, m
<1>6. Holds(PrependBits(vec, n, Fill(b)), u, n + m)
  BY <1>2, <1>4, <1>5, PrependBitsHolds
<1> QED BY <1>1, <1>5, <1>6, CallKeeps DEF u, t

\* The calls on one bit.
LEMMA SetBitKeeps == Inv /\ CallSetBit => Inv'
<1> SUFFICES ASSUME Inv, CallSetBit PROVE Inv'
  OBVIOUS
<1> DEFINE m == Len(bits)
<1>1. bits \in Seq(Bit) /\ m \in Nat /\ Holds(vec, bits, m) /\ vec.used = m
  BY InvFacts
<1>2. PICK o \in 0 .. m - 1 : \/ Becomes(SetBit(vec, o),    Overwrite(bits, o, <<1>>))
                              \/ Becomes(ClearBit(vec, o),  Overwrite(bits, o, <<0>>))
                              \/ Becomes(ToggleBit(vec, o), Overwrite(bits, o, <<1 - bits[o + 1]>>))
  BY <1>1 DEF CallSetBit
<1>3. ASSUME NEW b \in Bit, Becomes(SetBitAt(vec, o, b), Overwrite(bits, o, <<b>>)) PROVE Inv'
  <2> DEFINE u == Overwrite(bits, o, <<b>>)
  <2>1. u = [i \in 1 .. m |-> IF i = o + 1 THEN b ELSE bits[i]]
    <3>1. \A i : i \in o + 1 .. o + 1 <=> i = o + 1
      BY <1>1
    <3>2. <<b>>[(o + 1) - o] = b /\ Len(<<b>>) = 1 /\ DOMAIN bits = 1 .. m
      <4>1. (o + 1) - o = 1
        BY <1>1
      <4> QED BY <1>1, <4>1
    <3> QED BY <3>1, <3>2 DEF Overwrite
  <2> HIDE DEF u
  <2>2. u \in Seq(Bit) /\ Len(u) = m /\ \A k \in 1 .. m : u[k] = IF k = o + 1 THEN b ELSE bits[k]
    BY <1>1, <2>1
  <2> HIDE DEF m
  <2>3. Holds(SetBitAt(vec, o, b), u, m)
    BY <1>1, <2>2, SetBitHolds
  <2> QED BY <1>3, <2>2, <2>3, CallKeeps DEF u
<1>4. BitAt(vec, o) = bits[o + 1] /\ bits[o + 1] \in Bit
  <2>1. o + 1 \in 1 .. m
    BY <1>1
  <2> QED BY <1>1, <2>1, BitPlace
<1>5. 0 \in Bit /\ 1 \in Bit /\ 1 - bits[o + 1] \in Bit
  BY <1>4 DEF Bit
<1>6. CASE Becomes(SetBit(vec, o), Overwrite(bits, o, <<1>>))
  BY <1>3, <1>5, <1>6 DEF SetBit
<1>7. CASE Becomes(ClearBit(vec, o), Overwrite(bits, o, <<0>>))
  BY <1>3, <1>5, <1>7 DEF ClearBit
<1>8. CASE Becomes(ToggleBit(vec, o), Overwrite(bits, o, <<1 - bits[o + 1]>>))
  BY <1>3, <1>4, <1>5, <1>8 DEF ToggleBit
<1> QED BY <1>2, <1>6, <1>7, <1>8

\* ToggleBits.
LEMMA ToggleKeeps == Inv /\ CallToggleBits => Inv'
<1> SUFFICES ASSUME Inv, CallToggleBits PROVE Inv'
  OBVIOUS
<1>1. Becomes(ToggleBits(vec), Flip(bits))
  BY DEF CallToggleBits
<1>2. bits \in Seq(Bit) /\ Holds(vec, bits, Len(bits))
  BY InvFacts
<1>3. Flip(bits) \in Seq(Bit) /\ Len(Flip(bits)) = Len(bits)
  <2>1. \A b \in Bit : 1 - b \in Bit
    BY DEF Bit
  <2> QED BY <1>2, <2>1 DEF Flip
<1>4. Holds(ToggleBits(vec), Flip(bits), Len(bits))
  BY <1>2, ToggleHolds
<1> QED BY <1>1, <1>3, <1>4, CallKeeps

\* The bitwise operators.
LEMMA BitwiseKeeps == Inv /\ CallBitwise => Inv'
<1> SUFFICES ASSUME Inv, CallBitwise PROVE Inv'
  OBVIOUS
<1> DEFINE m == Len(bits)
<1>1. bits \in Seq(Bit) /\ m \in Nat /\ Holds(vec, bits, m) /\ vec.used = m
  BY InvFacts
<1>2. PICK s \in BitSeqs(m) : \/ Becomes(Bytewise(vec, VectorOf(s), AndBits), AndBits(bits, s))
                              \/ Becomes(Bytewise(vec, VectorOf(s), OrBits),  OrBits(bits, s))
                              \/ Becomes(Bytewise(vec, VectorOf(s), XorBits), XorBits(bits, s))
  BY <1>1 DEF CallBitwise
<1>3. s \in Seq(Bit) /\ Len(s) = m
  BY <1>1, ArgsAre
<1>4. Holds(VectorOf(s), s, m)
  BY <1>3, VectorOfHolds
<1>5. /\ AndBits(bits, s) \in Seq(Bit) /\ Len(AndBits(bits, s)) = m
      /\ OrBits(bits, s)  \in Seq(Bit) /\ Len(OrBits(bits, s))  = m
      /\ XorBits(bits, s) \in Seq(Bit) /\ Len(XorBits(bits, s)) = m
  <2>1. ASSUME NEW i \in 1 .. m PROVE bits[i] \in Bit /\ s[i] \in Bit
    BY <1>1, <1>3
  <2>2. DOMAIN bits = 1 .. m
    BY <1>1
  <2> HIDE DEF m
  <2>3. AndBits(bits, s) \in Seq(Bit) /\ Len(AndBits(bits, s)) = m
    BY <1>1, <2>1, <2>2, BitOps DEF AndBits
  <2>4. OrBits(bits, s) \in Seq(Bit) /\ Len(OrBits(bits, s)) = m
    BY <1>1, <2>1, <2>2, BitOps DEF OrBits
  <2>5. XorBits(bits, s) \in Seq(Bit) /\ Len(XorBits(bits, s)) = m
    BY <1>1, <2>1, <2>2, BitOps DEF XorBits
  <2> QED BY <2>3, <2>4, <2>5
<1>6. CASE Becomes(Bytewise(vec, VectorOf(s), AndBits), AndBits(bits, s))
  <2>1. Holds(Bytewise(vec, VectorOf(s), AndBits), AndBits(bits, s), m)
    BY <1>1, <1>3, <1>4, AndHolds
  <2> QED BY <1>5, <1>6, <2>1, CallKeeps
<1>7. CASE Becomes(Bytewise(vec, VectorOf(s), OrBits), OrBits(bits, s))
  <2>1. Holds(Bytewise(vec, VectorOf(s), OrBits), OrBits(bits, s), m)
    BY <1>1, <1>3, <1>4, OrHolds
  <2> QED BY <1>5, <1>7, <2>1, CallKeeps
<1>8. CASE Becomes(Bytewise(vec, VectorOf(s), XorBits), XorBits(bits, s))
  <2>1. Holds(Bytewise(vec, VectorOf(s), XorBits), XorBits(bits, s), m)
    BY <1>1, <1>3, <1>4, XorHolds
  <2> QED BY <1>5, <1>8, <2>1, CallKeeps
<1> QED BY <1>2, <1>6, <1>7, <1>8

\* Overwritten bits are bits.
LEMMA OverwriteIs ==
  ASSUME NEW s \in Seq(Bit), NEW t \in Seq(Bit), NEW o \in Nat, NEW n, n = Len(t)
  PROVE  /\ Overwrite(s, o, t) \in Seq(Bit) /\ Len(Overwrite(s, o, t)) = Len(s)
         /\ Overwritten(Overwrite(s, o, t), Len(s), s, o, n, t)
<1>1. ASSUME NEW i \in 1 .. Len(s)
      PROVE  (IF i \in o + 1 .. o + n THEN t[i - o] ELSE s[i]) \in Bit
  <2>1. i \in o + 1 .. o + n => i - o \in 1 .. Len(t)
    OBVIOUS
  <2> QED BY <2>1
<1>2. Overwrite(s, o, t) = [i \in 1 .. Len(s) |-> IF i \in o + 1 .. o + n THEN t[i - o] ELSE s[i]]
  BY DEF Overwrite
<1> QED BY <1>1, <1>2 DEF Overwritten

\* SetSlice_Impl.
LEMMA SetSliceKeeps == Inv /\ CallSetSlice => Inv'
<1> SUFFICES ASSUME Inv, CallSetSlice PROVE Inv'
  OBVIOUS
<1> DEFINE m == Len(bits)
<1>1. bits \in Seq(Bit) /\ m \in Nat /\ Holds(vec, bits, m) /\ vec.used = m
  BY InvFacts
<1>2. PICK s \in Args : \E past \in {Fill(0), Fill(1)}, o \in 0 .. m - Len(s) :
        s # <<>> /\ Becomes(SetSlice_Impl(vec, o, Len(s), VectorOf(s).data, past), Overwrite(bits, o, s))
  BY <1>1 DEF CallSetSlice
<1> DEFINE n == Len(s)
           source == VectorOf(s).data
<1>3. PICK past \in {Fill(0), Fill(1)}, o \in 0 .. m - n :
        s # <<>> /\ Becomes(SetSlice_Impl(vec, o, n, source, past), Overwrite(bits, o, s))
  BY <1>2
<1>4. s \in Seq(Bit)
  BY ArgsAre
<1>5. n \in Nat \ {0} /\ o \in Nat /\ o + n <= m
  BY <1>1, <1>3, <1>4
<1>6. past \in Byte
  BY FillIs DEF Bit
<1>7. source \in Seq(Byte) /\ Len(source) = BytesCountFromBitsCount(n) /\ BitsAre(source, s, n)
  BY <1>4, VectorOfHolds, HoldsFields
<1>8. BytesCountFromBitsCount(n) <= Len(source)
  BY <1>5, <1>7, BytesBounds
<1> DEFINE u == Overwrite(bits, o, s)
<1>9. u \in Seq(Bit) /\ Len(u) = m /\ Overwritten(u, m, bits, o, n, s)
  BY <1>1, <1>4, <1>5, OverwriteIs
<1> HIDE DEF u, m, n, source
<1>10. Holds(SetSlice_Impl(vec, o, n, source, past), u, m)
  BY <1>1, <1>5, <1>6, <1>7, <1>8, <1>9, SetSliceHolds
<1> QED BY <1>3, <1>9, <1>10, CallKeeps DEF u

\* SetSlice with an integer.
LEMMA SetSliceIntegerKeeps == Inv /\ CallSetSliceInteger => Inv'
<1> SUFFICES ASSUME Inv, CallSetSliceInteger PROVE Inv'
  OBVIOUS
<1> DEFINE m == Len(bits)
<1>1. bits \in Seq(Bit) /\ m \in Nat /\ Holds(vec, bits, m) /\ vec.used = m
  BY InvFacts
<1>2. PICK value \in Words, n \in 1 .. m, past \in {Fill(0), Fill(1)} : \E o \in 0 .. m - n :
        Becomes(SetSlice_T(vec, o, n, value, past), Overwrite(bits, o, LowBits(WordBits(value), n, 0)))
  BY <1>1 DEF CallSetSliceInteger
<1>3. PICK o \in 0 .. m - n :
        Becomes(SetSlice_T(vec, o, n, value, past), Overwrite(bits, o, LowBits(WordBits(value), n, 0)))
  BY <1>2
<1> DEFINE t == LowBits(WordBits(value), n, 0)
           u == Overwrite(bits, o, t)
<1>4. value \in Seq(Byte) /\ Len(value) # 0
  BY WordsAre
<1>5. n \in Nat \ {0} /\ n \in Nat /\ o \in Nat /\ o + n <= m
  BY <1>1
<1>6. past \in Byte /\ 0 \in Bit
  BY FillIs DEF Bit
<1>7. t \in Seq(Bit) /\ Len(t) = n
  BY <1>4, <1>5, <1>6, WordBitsAre, LowBitsAre
<1> HIDE DEF t
<1>8. u \in Seq(Bit) /\ Len(u) = m /\ Overwritten(u, m, bits, o, n, t)
  BY <1>1, <1>5, <1>7, OverwriteIs
<1> HIDE DEF u, m
<1>9. Overwritten(u, m, bits, o, n, LowBits(WordBits(value), n, 0))
  BY <1>8 DEF t
<1>10. Holds(SetSlice_T(vec, o, n, value, past), u, m)
  BY <1>1, <1>4, <1>5, <1>6, <1>9, SetSliceIntegerHolds
<1> QED BY <1>3, <1>8, <1>10, CallKeeps DEF u, t

\* Set with an integer.
LEMMA SetKeeps == Inv /\ CallSet => Inv'
<1> SUFFICES ASSUME Inv, CallSet PROVE Inv'
  OBVIOUS
<1>1. vec \in Vectors /\ vec.used \in Nat /\ vec.fixed \in BOOLEAN
  BY InvFacts DEF Vectors
<1>2. PICK value \in Words, asSigned \in BOOLEAN :
        /\ vec.fixed => vec.used # 0
        /\ LET word == WordBits(value)
               sign == IF asSigned THEN word[1] ELSE 0
           IN  Becomes(SetInteger(vec, value, asSigned),
                       LowBits(word, IF vec.fixed THEN vec.used ELSE Len(word), sign))
  BY DEF CallSet
<1> DEFINE w == WordBits(value)
           sign == IF asSigned THEN w[1] ELSE 0
           n == IF vec.fixed THEN vec.used ELSE Len(w)
           u == LowBits(w, n, sign)
<1>3. value \in Seq(Byte) /\ Len(value) # 0 /\ Len(value) \in Nat
  BY WordsAre
<1>4. w \in Seq(Bit) /\ Len(w) = Len(value) * ByteBits /\ Len(w) \in Nat
  BY <1>3, WordBitsAre
<1>5. w[1] = value[1][0] /\ w[1] \in Bit
  <2>1. 1 \in 1 .. Len(value) /\ 0 \in BitPos
    BY <1>3, ByteBitsAssumption DEF BitPos
  <2>2. Start(1) + 0 + 1 = 1
    BY Starts
  <2>3. w[1] = value[1][0] /\ 1 \in 1 .. Len(value) * ByteBits
    BY <1>3, <2>1, <2>2, WordBit
  <2> QED BY <1>4, <2>3
<1>6. sign \in Bit /\ sign = IF asSigned THEN value[1][0] ELSE 0
  BY <1>5 DEF Bit
<1> HIDE DEF w
<1>7. n \in Nat /\ n = IF vec.fixed THEN vec.used ELSE Len(value) * ByteBits
  BY <1>1, <1>4
<1>8. Becomes(SetInteger(vec, value, asSigned), u)
  BY <1>2 DEF w
<1> HIDE DEF sign, n
<1>9. u \in Seq(Bit) /\ Len(u) = n
  BY <1>4, <1>6, <1>7, LowBitsAre
<1>10. Holds(SetInteger(vec, value, asSigned), u, n)
  <2>1. u = LowBits(WordBits(value), n, sign)
    BY DEF w
  <2>2. vec.fixed => vec.used # 0
    BY <1>2
  <2> HIDE DEF u
  <2> QED BY <1>1, <1>3, <1>6, <1>7, <2>1, <2>2, SetIntegerHolds
<1> HIDE DEF u
<1> QED BY <1>8, <1>9, <1>10, CallKeeps

\* TruncateLeadingZeroes.
LEMMA TruncateKeeps == Inv /\ CallTruncate => Inv'
<1> SUFFICES ASSUME Inv, CallTruncate PROVE Inv'
  OBVIOUS
<1> DEFINE m == Len(bits)
<1>1. bits \in Seq(Bit) /\ m \in Nat /\ Holds(vec, bits, m)
  BY InvFacts
<1>2. PICK n \in 1 .. LeadingZeroesCount(vec) :
        Becomes(TruncateLeadingZeroes(vec, n), BitsAt(bits, n, m - n))
  BY DEF CallTruncate
<1>3. LeadingZeroesCount(vec) \in 0 .. m
  BY <1>1, LeadingZeroesAre
<1>4. n \in 0 .. m
  BY <1>1, <1>3
<1> DEFINE u == BitsAt(bits, n, m - n)
<1>5. u \in Seq(Bit) /\ Len(u) = m - n /\ Holds(TruncateLeadingZeroes(vec, n), u, m - n)
  BY <1>1, <1>4, TruncateHolds
<1> HIDE DEF u
<1> QED BY <1>2, <1>5, CallKeeps DEF u

\* Every call keeps the invariant.
LEMMA NextKeeps ==
  ASSUME AppendBitsAnywhere = FALSE
  PROVE  Inv /\ [Next]_vars => Inv'
<1> SUFFICES ASSUME Inv, [Next]_vars PROVE Inv'
  OBVIOUS
<1>1. CASE UNCHANGED vars
  BY <1>1 DEF Inv, Holds, vars
<1>2. CASE Next
  BY <1>2, FixSizeKeeps, ClearKeeps, AssignKeeps, AppendKeeps, AppendIntegerKeeps, AppendBitsKeeps,
     PrependBitsKeeps, SetBitKeeps, ToggleKeeps, BitwiseKeeps, SetSliceKeeps, SetSliceIntegerKeeps,
     SetKeeps, TruncateKeeps DEF Next
<1> QED BY <1>1, <1>2

\* In every state the vector holds its bits.
LEMMA SpecInv ==
  ASSUME AppendBitsAnywhere = FALSE
  PROVE  Spec => []Inv
<1>1. Inv /\ [Next]_vars => Inv'
  BY NextKeeps
<1> QED BY InitHolds, <1>1, PTL DEF Spec

\* The bits of a vector that holds u.
LEMMA BitsIs ==
  ASSUME NEW u \in Seq(Bit), NEW v, Holds(v, u, Len(u))
  PROVE  Bits(v) = u
<1> DEFINE m == Len(u)
<1>1. m \in Nat /\ v.used = m
  BY HoldsFields
<1>2. ASSUME NEW i \in 1 .. m PROVE BitAt(v, i - 1) = u[i]
  <2> DEFINE o == i - 1
  <2>1. o \in 0 .. m - 1 /\ o + 1 = i
    BY <1>1
  <2> HIDE DEF o
  <2>2. BitAt(v, o) = u[o + 1]
    BY <2>1, BitPlace
  <2> QED BY <2>1, <2>2 DEF o
<1>3. u = [i \in 1 .. m |-> u[i]]
  OBVIOUS
<1> HIDE DEF m
<1> QED BY <1>1, <1>2, <1>3 DEF Bits

\* The bits after them are zero.
LEMMA TailIsZero ==
  ASSUME NEW u, NEW m, NEW v, Holds(v, u, m), NEW o \in m .. Len(v.data) * ByteBits - 1
  PROVE  BitAt(v, o) = 0
<1> DEFINE k == Len(v.data)
           q == o \div ByteBits
           r == o % ByteBits
<1>1. m \in Nat /\ k \in Nat /\ Start(k + 1) = k * ByteBits /\ k * ByteBits \in Nat
  <2>1. m \in Nat /\ k \in Nat
    BY HoldsFields
  <2> HIDE DEF k
  <2> QED BY <2>1, ByteBitsAssumption DEF Start
<1>2. o \in Nat /\ o < k * ByteBits /\ ~(o < m)
  BY <1>1
<1>3. q \in Nat /\ r \in BitPos /\ o = Start(q + 1) + r
  BY <1>2, DivMod, DivNat
<1> HIDE DEF q, r, k
<1>4. q + 1 \in 1 .. k
  <2>1. Start(q + 1) \in Int /\ q + 1 \in Int /\ k + 1 \in Int
    BY <1>1, <1>3, Starts
  <2>2. Start(q + 1) < Start(k + 1)
    BY <1>1, <1>2, <1>3, <2>1 DEF BitPos
  <2>3. q + 1 < k + 1
    BY <2>1, <2>2, StartLess
  <2> QED BY <1>1, <1>3, <2>3
<1>5. v.data[q + 1][r] = IF Start(q + 1) + r < m THEN u[Start(q + 1) + r + 1] ELSE 0
  BY <1>3, <1>4 DEF Holds, k
<1>6. v.data[q + 1][r] = 0
  BY <1>2, <1>3, <1>5
<1> QED BY <1>6 DEF BitAt, q, r

\* After any sequence of calls the vector stands for the bits that the same calls
\* leave in a sequence of bits, counted from the left, in as many bytes as they
\* need, and the unused bits of the last byte are zero: for bytes and vectors of
\* any size, AppendBits of whole bytes being called at byte boundaries only, as
\* SetInteger and SetSlice_T call it.
THEOREM VectorsRepresentBits ==
  ASSUME AppendBitsAnywhere = FALSE
  PROVE  Spec => []RepresentsBits
<1>1. Inv => RepresentsBits
  <2> SUFFICES ASSUME Inv PROVE RepresentsBits
    OBVIOUS
  <2>1. bits \in Seq(Bit) /\ Holds(vec, bits, Len(bits)) /\ vec.used = Len(bits)
    BY InvFacts
  <2>2. Bits(vec) = bits
    BY <2>1, BitsIs
  <2>3. Len(vec.data) = BytesCountFromBitsCount(vec.used)
    BY <2>1, HoldsFields
  <2>4. \A o \in vec.used .. Len(vec.data) * ByteBits - 1 : BitAt(vec, o) = 0
    BY <2>1, TailIsZero
  <2> QED BY <2>1, <2>2, <2>3, <2>4 DEF RepresentsBits
<1> QED BY <1>1, SpecInv, PTL

-------------------------------------------------------------------------------
(* Comparisons *)

\* Vectors that hold the same bits have the same bytes, and the other way
\* round.
LEMMA SameBytes ==
  ASSUME NEW u \in Seq(Bit), NEW v, Holds(v, u, Len(u)),
         NEW t \in Seq(Bit), Len(t) = Len(u), NEW w, Holds(w, t, Len(u))
  PROVE  v.data = w.data <=> u = t
<1> DEFINE m == Len(u)
           d == v.data
           e == w.data
<1>1. d \in Seq(Byte) /\ e \in Seq(Byte) /\ Len(d) = Len(e) /\ v.used = m /\ w.used = m /\ Len(d) \in Nat
  BY HoldsFields
<1>2. ASSUME d = e PROVE u = t
  <2>1. Bits(v) = Bits(w)
    <3>1. \A o : BitAt(v, o) = BitAt(w, o)
      BY <1>2 DEF BitAt
    <3> QED BY <1>1, <3>1 DEF Bits
  <2>2. Holds(w, t, Len(t))
    OBVIOUS
  <2>3. Bits(v) = u /\ Bits(w) = t
    BY <2>2, BitsIs
  <2> QED BY <2>1, <2>3
<1>3. ASSUME u = t PROVE d = e
  <2>1. ASSUME NEW j \in 1 .. Len(d) PROVE d[j] = e[j]
    <3>1. d[j] \in Byte /\ e[j] \in Byte
      BY <1>1
    <3>2. \A i \in BitPos : d[j][i] = e[j][i]
      BY <1>1, <1>3 DEF Holds
    <3> QED BY <3>1, <3>2 DEF Byte
  <2> HIDE DEF d, e
  <2> QED BY <1>1, <2>1
<1> QED BY <1>2, <1>3

\* The last byte of a vector ends with zeroes.
LEMMA LastIsMasked ==
  ASSUME NEW u, NEW m, NEW v, Holds(v, u, m), m % ByteBits # 0
  PROVE  Len(v.data) # 0 /\ KeepLeft(v.data[Len(v.data)], m % ByteBits) = v.data[Len(v.data)]
<1> DEFINE d == v.data
           q == m \div ByteBits
           r == m % ByteBits
<1>1. d \in Seq(Byte) /\ m \in Nat /\ Len(d) = BytesCountFromBitsCount(m)
  BY HoldsFields
<1>2. q \in Nat /\ r \in BitPos /\ m = Start(q + 1) + r /\ Len(d) = q + 1
  BY <1>1, BytesSplit
<1>3. ASSUME NEW i \in BitPos
      PROVE  d[q + 1][i] = IF Start(q + 1) + i < m THEN u[Start(q + 1) + i + 1] ELSE 0
  <2>1. q + 1 \in 1 .. Len(d)
    BY <1>2
  <2> QED BY <2>1 DEF Holds
<1>4. d[q + 1] \in Byte
  BY <1>1, <1>2
<1> HIDE DEF d, q, r
<1>5. \A i \in BitPos : i < r \/ d[q + 1][i] = 0
  <2>1. Start(q + 1) \in Int
    BY <1>2, Starts
  <2>2. \A i \in BitPos : i < r \/ ~(Start(q + 1) + i < m)
    BY <1>2, <2>1 DEF BitPos
  <2> QED BY <1>3, <2>2
<1>6. KeepLeft(d[q + 1], r) = d[q + 1]
  BY <1>4, <1>5 DEF KeepLeft, Byte
<1> QED BY <1>2, <1>6 DEF d, r

\* CompareEqualTo compares the bits.
LEMMA CompareIs ==
  ASSUME NEW u \in Seq(Bit), NEW v, Holds(v, u, Len(u)),
         NEW t \in Seq(Bit), Len(t) = Len(u), NEW w, Holds(w, t, Len(u))
  PROVE  CompareEqualTo(v, w) <=> u = t
<1> DEFINE m == Len(u)
           d == v.data
           e == w.data
           k == Len(d)
           r == m % ByteBits
<1>1. d \in Seq(Byte) /\ e \in Seq(Byte) /\ k = Len(e) /\ v.used = m /\ w.used = m /\ k \in Nat /\ m \in Nat
  BY HoldsFields
<1>2. d = e <=> u = t
  BY SameBytes
<1>3. CASE m = 0
  <2>1. u = <<>> /\ t = <<>>
    BY <1>3
  <2> QED BY <1>1, <1>3, <2>1 DEF CompareEqualTo
<1>4. CASE m # 0 /\ r = 0
  BY <1>1, <1>2, <1>4 DEF CompareEqualTo
<1>5. CASE m # 0 /\ r # 0
  <2>1. k # 0 /\ KeepLeft(d[k], r) = d[k] /\ KeepLeft(e[k], r) = e[k]
    BY <1>1, <1>5, LastIsMasked
  <2>2. CompareEqualTo(v, w) <=> Front(d) = Front(e) /\ Last(d) = Last(e)
    <3>1. Last(d) = d[k] /\ Last(e) = e[k]
      BY <1>1 DEF Last
    <3> QED BY <1>1, <1>5, <2>1, <3>1 DEF CompareEqualTo
  <2> HIDE DEF d, e
  <2>3. Front(d) = Front(e) /\ Last(d) = Last(e) => d = e
    <3> HIDE DEF k
    <3>1. Len(d) = k /\ Len(e) = k /\ k - 1 \in Nat /\ k - 1 <= k
      BY <1>1, <2>1 DEF k
    <3>2. Front(d) = [j \in 1 .. k - 1 |-> d[j]] /\ Front(e) = [j \in 1 .. k - 1 |-> e[j]]
      <4>1. (k - 1) - 1 + 1 = k - 1
        BY <3>1
      <4>2. Front(d) = [j \in 1 .. k - 1 |-> d[j]]
        BY <1>1, <3>1, <4>1 DEF Front
      <4>3. Front(e) = [j \in 1 .. k - 1 |-> e[j]]
        BY <1>1, <3>1, <4>1 DEF Front
      <4> QED BY <4>2, <4>3
    <3>3. ASSUME Front(d) = Front(e), Last(d) = Last(e), NEW j \in 1 .. k PROVE d[j] = e[j]
      <4>1. j = k \/ j \in 1 .. k - 1
        BY <3>1
      <4>2. d[k] = e[k]
        BY <3>1, <3>3 DEF Last
      <4>3. \A y \in 1 .. k - 1 : d[y] = e[y]
        BY <3>2, <3>3
      <4> QED BY <4>1, <4>2, <4>3
    <3> QED BY <1>1, <3>1, <3>3
  <2> QED BY <1>2, <2>2, <2>3
<1> QED BY <1>3, <1>4, <1>5

\* The masked comparison of two bits.
LEMMA MaskedBit ==
  \A a, b, c \in Bit : ((a + b) % 2) * c = 0 <=> (c = 1 => a = b)
BY DEF Bit

\* The masked CompareEqualTo compares the bits under the mask.
LEMMA CompareMaskedIs ==
  ASSUME NEW u \in Seq(Bit), NEW v, Holds(v, u, Len(u)),
         NEW t \in Seq(Bit), Len(t) = Len(u), NEW w, Holds(w, t, Len(u)),
         NEW mask \in Seq(Bit), Len(mask) = Len(u), NEW x, Holds(x, mask, Len(u))
  PROVE  CompareEqualToMasked(v, w, x) <=> AgreeUnder(u, t, mask)
<1> DEFINE m == Len(u)
           d == v.data
           e == w.data
           f == x.data
           k == Len(d)
           byte(j) == AndBits(XorBits(d[j], e[j]), f[j])
<1>1. /\ d \in Seq(Byte) /\ e \in Seq(Byte) /\ f \in Seq(Byte) /\ k = Len(e) /\ k = Len(f)
      /\ v.used = m /\ w.used = m /\ k \in Nat /\ m \in Nat /\ k = BytesCountFromBitsCount(m) /\ k \in Int
  BY HoldsFields
<1>2. DOMAIN u = 1 .. m /\ DOMAIN d = 1 .. k
  BY <1>1
<1>3. ASSUME NEW j \in 1 .. k, NEW i \in BitPos
      PROVE  /\ byte(j)[i] = 0 <=> (f[j][i] = 1 => d[j][i] = e[j][i])
             /\ DOMAIN byte(j) = BitPos
  <2>1. d[j] \in Byte /\ e[j] \in Byte /\ f[j] \in Byte
    <3> HIDE DEF d, e, f, k
    <3>1. d[j] \in Byte
      BY <1>1 DEF k
    <3>2. e[j] \in Byte
      <4>1. e \in Seq(Byte) /\ k = Len(e)
        BY <1>1
      <4>2. j \in 1 .. Len(e)
        BY <4>1
      <4> QED BY <4>1, <4>2
    <3>3. f[j] \in Byte
      <4>1. f \in Seq(Byte) /\ k = Len(f)
        BY <1>1
      <4>2. j \in 1 .. Len(f)
        BY <4>1
      <4> QED BY <4>1, <4>2
    <3> QED BY <3>1, <3>2, <3>3
  <2>2. d[j][i] \in Bit /\ e[j][i] \in Bit /\ f[j][i] \in Bit /\ DOMAIN d[j] = BitPos
    BY <2>1 DEF Byte
  <2> DEFINE y == XorBits(d[j], e[j])
  <2>3. DOMAIN y = BitPos /\ y[i] = (d[j][i] + e[j][i]) % 2
    BY <2>2 DEF XorBits
  <2> HIDE DEF y
  <2>4. AndBits(y, f[j])[i] = y[i] * f[j][i] /\ DOMAIN AndBits(y, f[j]) = BitPos
    BY <2>3 DEF AndBits
  <2>5. byte(j)[i] = ((d[j][i] + e[j][i]) % 2) * f[j][i] /\ DOMAIN byte(j) = BitPos
    BY <2>3, <2>4 DEF y
  <2> HIDE DEF byte
  <2> QED BY <2>2, <2>5, MaskedBit
<1>4. ASSUME NEW j \in 1 .. k, NEW i \in BitPos
      PROVE  /\ d[j][i] = IF Start(j) + i < m THEN u[Start(j) + i + 1] ELSE 0
             /\ e[j][i] = IF Start(j) + i < m THEN t[Start(j) + i + 1] ELSE 0
             /\ f[j][i] = IF Start(j) + i < m THEN mask[Start(j) + i + 1] ELSE 0
  BY <1>1 DEF Holds
<1>5. ASSUME NEW j \in 1 .. k PROVE byte(j) = Fill(0) <=> \A i \in BitPos : byte(j)[i] = 0
  <2>1. 0 \in BitPos
    BY ByteBitsAssumption DEF BitPos
  <2>2. DOMAIN byte(j) = BitPos /\ byte(j) = [i \in BitPos |-> byte(j)[i]]
    <3>1. DOMAIN byte(j) = BitPos
      BY <1>3, <2>1
    <3>2. byte(j) = [i \in DOMAIN byte(j) |-> byte(j)[i]]
      BY DEF AndBits
    <3> QED BY <3>1, <3>2
  <2> HIDE DEF byte
  <2> QED BY <2>2 DEF Fill
<1>6. AgreeUnder(u, t, mask) <=> \A i \in 1 .. m : mask[i] = 1 => u[i] = t[i]
  BY <1>2 DEF AgreeUnder
<1>7. CASE f = <<>>
  <2>1. m = 0
    <3>1. k = 0
      BY <1>1, <1>7
    <3>2. m <= Start(k + 1) /\ Start(1) = 0
      BY <1>1, BytesBounds, Starts
    <3> QED BY <1>1, <3>1, <3>2
  <2>2. u = t
    BY <2>1
  <2>3. CompareEqualTo(v, w)
    BY <2>2, CompareIs
  <2>4. AgreeUnder(u, t, mask)
    BY <1>6, <2>1
  <2> QED BY <1>7, <2>3, <2>4 DEF CompareEqualToMasked
<1>8. CASE f # <<>>
  <2>1. CompareEqualToMasked(v, w, x) <=> \A j \in 1 .. k : byte(j) = Fill(0)
    BY <1>1, <1>2, <1>8 DEF CompareEqualToMasked
  <2> HIDE DEF byte
  <2>2. ASSUME \A j \in 1 .. k : byte(j) = Fill(0), NEW i \in 1 .. m, mask[i] = 1
        PROVE  u[i] = t[i]
    <3> DEFINE o == i - 1
               p == o \div ByteBits + 1
               r == o % ByteBits
    <3>1. o \in 0 .. m - 1 /\ o + 1 = i /\ o < m
      BY <1>1
    <3> HIDE DEF o
    <3>2. p \in 1 .. k /\ r \in BitPos /\ o = Start(p) + r
      BY <3>1, BitPlace
    <3> HIDE DEF p, r, d, e, f, k
    <3>3. d[p][r] = u[i] /\ e[p][r] = t[i] /\ f[p][r] = mask[i]
      BY <1>4, <3>1, <3>2
    <3>4. byte(p)[r] = 0
      BY <1>5, <2>2, <3>2
    <3> QED BY <1>3, <2>2, <3>2, <3>3, <3>4
  <2>3. ASSUME \A i \in 1 .. m : mask[i] = 1 => u[i] = t[i], NEW j \in 1 .. k
        PROVE  byte(j) = Fill(0)
    <3>1. ASSUME NEW i \in BitPos PROVE f[j][i] = 1 => d[j][i] = e[j][i]
      <4>1. CASE Start(j) + i < m
        <5>1. Start(j) + i + 1 \in 1 .. m
          BY <1>1, <4>1, PosInSeq
        <5> QED BY <1>4, <2>3, <4>1, <5>1
      <4>2. CASE ~(Start(j) + i < m)
        BY <1>4, <4>2
      <4> QED BY <4>1, <4>2
    <3> QED BY <1>3, <1>5, <3>1
  <2> QED BY <1>6, <2>1, <2>2, <2>3
<1> QED BY <1>7, <1>8

\* The comparisons say what the bits say, under every mask: a read counts as a
\* mismatch exactly when a bit that the mask cares for differs.
THEOREM VectorsCompareAsBits ==
  ASSUME AppendBitsAnywhere = FALSE
  PROVE  Spec => []ComparisonsAgree
<1>1. Inv => ComparisonsAgree
  <2> SUFFICES ASSUME Inv, NEW s \in BitSeqs(vec.used)
               PROVE  /\ CompareEqualTo(vec, VectorOf(s)) <=> (bits = s)
                      /\ \A mask \in BitSeqs(vec.used) :
                           CompareEqualToMasked(vec, VectorOf(s), VectorOf(mask)) <=> AgreeUnder(bits, s, mask)
    BY DEF ComparisonsAgree
  <2>1. bits \in Seq(Bit) /\ Holds(vec, bits, Len(bits)) /\ vec.used = Len(bits) /\ Len(bits) \in Nat
    BY InvFacts
  <2>2. ASSUME NEW t \in BitSeqs(vec.used)
        PROVE  t \in Seq(Bit) /\ Len(t) = Len(bits) /\ Holds(VectorOf(t), t, Len(bits))
    <3>1. t \in Seq(Bit) /\ Len(t) = Len(bits)
      BY <2>1, ArgsAre
    <3> QED BY <3>1, VectorOfHolds
  <2>3. CompareEqualTo(vec, VectorOf(s)) <=> (bits = s)
    BY <2>1, <2>2, CompareIs
  <2>4. ASSUME NEW mask \in BitSeqs(vec.used)
        PROVE  CompareEqualToMasked(vec, VectorOf(s), VectorOf(mask)) <=> AgreeUnder(bits, s, mask)
    BY <2>1, <2>2, CompareMaskedIs
  <2> QED BY <2>3, <2>4
<1> QED BY <1>1, SpecInv, PTL

-------------------------------------------------------------------------------
(* Slices and right aligned buffers *)

\* The bits used in the last byte.
LEMMA LastByteIs ==
  ASSUME NEW n \in Nat \ {0}, NEW size, size = BytesCountFromBitsCount(n), NEW l, l = LastByteBitsCount(n)
  PROVE  l \in 1 .. ByteBits /\ n = Start(size) + l /\ size \in Nat \ {0} /\ Start(size) \in Nat
<1> DEFINE o == n - 1
           q == o \div ByteBits
           r == o % ByteBits
<1>1. o \in Nat
  OBVIOUS
<1> HIDE DEF o
<1>2. q \in Nat /\ r \in BitPos /\ o = Start(q + 1) + r
  BY <1>1, DivMod, DivNat
<1>3. l = r + 1
  BY DEF LastByteBitsCount, o
<1> HIDE DEF q, r
<1>4. Start(q + 1) \in Nat /\ q + 1 \in Int
  <2>1. q + 1 \in 1 .. q + 1 /\ q + 1 \in Int
    BY <1>2
  <2> QED BY <2>1, ByteBounds
<1>5. Start((q + 1) + 1) = Start(q + 1) + ByteBits
  BY <1>4, Starts
<1>6. Start(q + 1) < n /\ n <= Start((q + 1) + 1)
  BY <1>1, <1>2, <1>4, <1>5, ByteBitsAssumption DEF BitPos, o
<1>7. size = q + 1
  BY <1>4, <1>6, BytesUnique
<1>8. l \in 1 .. ByteBits
  BY <1>2, <1>3, ByteBitsAssumption DEF BitPos
<1>9. n = Start(q + 1) + l
  BY <1>2, <1>3, <1>4 DEF BitPos, o
<1> QED BY <1>2, <1>4, <1>7, <1>8, <1>9

\* Byte c is what begins l bits into byte a and goes on with byte b.
ByteShifted(c, a, b, l) ==
  /\ c \in Byte
  /\ \A i \in BitPos : i + l < ByteBits => c[i] = a[i + l]
  /\ \A i \in BitPos : i + l >= ByteBits => c[i] = b[i + l - ByteBits]

\* Two bytes brought l bits to the left.
LEMMA ShiftedIs ==
  ASSUME NEW a \in Byte, NEW b \in Byte, NEW l \in 1 .. ByteBits,
         NEW c, c = Merge(Shl(a, l), Shr(b, ByteBits - l))
  PROVE  ByteShifted(c, a, b, l)
<1> DEFINE x == Shl(a, l)
           y == Shr(b, ByteBits - l)
<1>1. l \in 0 .. ByteBits /\ ByteBits - l \in 0 .. ByteBits
  BY ByteBitsAssumption
<1>2. x \in Byte /\ \A i \in BitPos : x[i] = IF i + l < ByteBits THEN a[i + l] ELSE 0
  BY <1>1, ShiftsAre
<1>3. y \in Byte /\ \A i \in BitPos : y[i] = IF i >= ByteBits - l THEN b[i - (ByteBits - l)] ELSE 0
  BY <1>1, ShiftsAre
<1> HIDE DEF x, y
<1>4. Merge(x, y) \in Byte /\ \A i \in BitPos : (x[i] = 0 => Merge(x, y)[i] = y[i])
                                               /\ (y[i] = 0 => Merge(x, y)[i] = x[i])
  BY <1>2, <1>3, MergeIs
<1>5. c = Merge(x, y)
  BY DEF x, y
<1>6. ASSUME NEW i \in BitPos, i + l < ByteBits PROVE c[i] = a[i + l]
  <2>1. ~(i >= ByteBits - l)
    BY <1>6, ByteBitsAssumption DEF BitPos
  <2> QED BY <1>2, <1>3, <1>4, <1>5, <1>6, <2>1
<1>7. ASSUME NEW i \in BitPos, i + l >= ByteBits PROVE c[i] = b[i + l - ByteBits]
  <2>1. i >= ByteBits - l /\ i - (ByteBits - l) = i + l - ByteBits /\ ~(i + l < ByteBits)
    BY <1>7, ByteBitsAssumption DEF BitPos
  <2> QED BY <1>2, <1>3, <1>4, <1>5, <2>1
<1> QED BY <1>4, <1>5, <1>6, <1>7 DEF ByteShifted

\* The bits before the first one of a right aligned buffer for n bits.
Unused(n) == ByteBits - LastByteBitsCount(n)

\* The bytes of buf, without the first shift bits, are the bits of u.
RightAligned(buf, u, shift) ==
  \A j \in 1 .. Len(buf), i \in BitPos :
    Start(j) + i >= shift => buf[j][i] = u[Start(j) + i - shift + 1]

\* A right aligned buffer becomes the vector of its bits.
LEMMA RightAlignedHolds ==
  ASSUME NEW u, NEW n \in Nat, NEW buf \in Seq(Byte), Len(buf) = BytesCountFromBitsCount(n),
         n # 0 => RightAligned(buf, u, Unused(n))
  PROVE  Holds(CreateFromRightAlignedBuffer(buf, n), u, n)
<1> DEFINE size == BytesCountFromBitsCount(n)
           e == ShiftBufferLeft(buf, n)
           shift == Unused(n)
<1>1. size \in Nat /\ size \in Int /\ Len(buf) = size
  BY BytesBounds
<1> HIDE DEF size
<1>2. ASSUME NEW j \in 1 .. size PROVE buf[j] \in Byte /\ Start(j) \in Nat
  <2>1. buf[j] \in Byte
    BY <1>1
  <2>2. Start(j) \in Nat
    BY <1>1, ByteBounds
  <2> QED BY <2>1, <2>2
<1>3. e \in Seq(Byte) /\ Len(e) = size /\ BitsAre(e, u, n)
  <2>1. CASE n = 0
    <3>1. e = buf
      BY <2>1 DEF ShiftBufferLeft
    <3>2. \A j \in 1 .. Len(buf), i \in BitPos : ~(Start(j) + i < n)
      BY <1>1, <1>2, <2>1 DEF BitPos
    <3> QED BY <1>1, <3>1, <3>2 DEF BitsAre
  <2>2. CASE n # 0
    <3> DEFINE l == LastByteBitsCount(n)
    <3>1. l \in 1 .. ByteBits /\ n = Start(size) + l /\ size \in Nat \ {0}
      <4>1. n \in Nat \ {0}
        BY <2>2
      <4> QED BY <4>1, LastByteIs DEF size
    <3>0. shift = ByteBits - l
      BY DEF Unused
    <3> HIDE DEF l, shift
    <3>2. shift \in 0 .. ByteBits - 1 /\ shift \in Int
      BY <3>0, <3>1, ByteBitsAssumption
    <3>3. \A j \in 1 .. size : Len(buf) - size + j = j /\ Len(buf) - size + (j + 1) = j + 1
      BY <1>1
    <3>4. e = IF shift = 0 THEN [j \in 1 .. size |-> buf[j]]
              ELSE [j \in 1 .. size |->
                      IF j = size THEN Shl(buf[j], shift)
                      ELSE Merge(Shl(buf[j], shift), Shr(buf[j + 1], ByteBits - shift))]
      BY <2>2, <3>0, <3>3 DEF ShiftBufferLeft, size, l
    <3> HIDE DEF e
    <3>5. ASSUME NEW j \in 1 .. size, NEW i \in BitPos, Start(j) + i >= shift
          PROVE  buf[j][i] = u[Start(j) + i - shift + 1]
      BY <1>1, <2>2, <3>5 DEF RightAligned, shift
    <3>6. CASE shift = 0
      <4>1. e = [j \in 1 .. size |-> buf[j]]
        BY <3>4, <3>6
      <4>2. e \in Seq(Byte) /\ Len(e) = size /\ \A j \in 1 .. size : e[j] = buf[j]
        BY <1>1, <1>2, <4>1
      <4>3. ASSUME NEW j \in 1 .. size, NEW i \in BitPos PROVE e[j][i] = u[Start(j) + i + 1]
        <5>1. Start(j) + i >= shift /\ Start(j) + i - shift + 1 = Start(j) + i + 1
          BY <1>2, <3>6 DEF BitPos
        <5> QED BY <3>5, <4>2, <5>1
      <4> QED BY <4>2, <4>3 DEF BitsAre
    <3>7. CASE shift # 0
      <4>1. e = [j \in 1 .. size |->
                   IF j = size THEN Shl(buf[j], shift)
                   ELSE Merge(Shl(buf[j], shift), Shr(buf[j + 1], ByteBits - shift))]
        BY <3>4, <3>7
      <4>2. shift \in 1 .. ByteBits /\ shift \in 0 .. ByteBits
        BY <3>2, <3>7, ByteBitsAssumption
      <4>3. ASSUME NEW j \in 1 .. size, NEW i \in BitPos, i + shift < ByteBits
            PROVE  buf[j][i + shift] = u[Start(j) + i + 1]
        <5>1. i + shift \in BitPos /\ Start(j) + (i + shift) >= shift
              /\ Start(j) + (i + shift) - shift + 1 = Start(j) + i + 1
          <6>1. Start(j) \in Nat
            BY <1>2
          <6> QED BY <3>2, <4>3, <6>1, ByteBitsAssumption DEF BitPos
        <5> QED BY <3>5, <5>1
      <4>4. ASSUME NEW j \in 1 .. size
            PROVE  e[j] \in Byte /\ \A i \in BitPos : Start(j) + i < n => e[j][i] = u[Start(j) + i + 1]
        <5>1. CASE j = size
          <6>1. e[j] = Shl(buf[j], shift)
            BY <4>1, <5>1
          <6>2. e[j] \in Byte /\ \A i \in BitPos : i + shift < ByteBits => e[j][i] = buf[j][i + shift]
            BY <1>2, <4>2, <6>1, ShiftsAre
          <6>3. ASSUME NEW i \in BitPos, Start(j) + i < n PROVE i + shift < ByteBits
            BY <1>2, <3>0, <3>1, <5>1, <6>3, ByteBitsAssumption DEF BitPos
          <6> QED BY <4>3, <6>2, <6>3
        <5>2. CASE j # size
          <6>1. e[j] = Merge(Shl(buf[j], shift), Shr(buf[j + 1], ByteBits - shift))
            BY <4>1, <5>2
          <6>2. j + 1 \in 1 .. size /\ j \in Int
            BY <1>1, <5>2
          <6>3. buf[j] \in Byte /\ buf[j + 1] \in Byte /\ Start(j) \in Nat /\ Start(j + 1) = Start(j) + ByteBits
            BY <1>2, <6>2, Starts
          <6> DEFINE a == buf[j]
                     b == buf[j + 1]
                     c == e[j]
          <6>4. a \in Byte /\ b \in Byte /\ c = Merge(Shl(a, shift), Shr(b, ByteBits - shift))
            BY <6>1, <6>3
          <6> HIDE DEF a, b, c
          <6>5. /\ c \in Byte
                /\ \A i \in BitPos : i + shift < ByteBits => c[i] = a[i + shift]
                /\ \A i \in BitPos : i + shift >= ByteBits => c[i] = b[i + shift - ByteBits]
            <7>1. ByteShifted(c, a, b, shift)
              BY <4>2, <6>4, ShiftedIs
            <7> QED BY <7>1 DEF ByteShifted
          <6>6. ASSUME NEW i \in BitPos PROVE c[i] = u[Start(j) + i + 1]
            <7>1. CASE i + shift < ByteBits
              BY <4>3, <6>5, <7>1 DEF a
            <7>2. CASE ~(i + shift < ByteBits)
              <8>1. i + shift >= ByteBits /\ i + shift - ByteBits \in BitPos
                    /\ Start(j + 1) + (i + shift - ByteBits) >= shift
                    /\ Start(j + 1) + (i + shift - ByteBits) - shift + 1 = Start(j) + i + 1
                BY SMTT(60), <3>2, <6>3, <7>2, ByteBitsAssumption DEF BitPos
              <8>2. b[i + shift - ByteBits] = u[Start(j) + i + 1]
                BY <3>5, <6>2, <8>1 DEF b
              <8> QED BY <6>5, <8>1, <8>2
            <7> QED BY <7>1, <7>2
          <6> QED BY <6>5, <6>6 DEF c
        <5> QED BY <5>1, <5>2
      <4>5. e \in Seq(Byte) /\ Len(e) = size
        BY <1>1, <4>1, <4>4
      <4> QED BY <4>4, <4>5 DEF BitsAre
    <3> QED BY <3>6, <3>7
  <2> QED BY <2>1, <2>2
<1> HIDE DEF e
<1>4. Len(e) >= BytesCountFromBitsCount(n) /\ FALSE \in BOOLEAN
  BY <1>1, <1>3 DEF size
<1>5. Holds(FromBytes(e, n, FALSE), u, n)
  BY <1>3, <1>4, FromBytesHolds
<1> QED BY <1>5 DEF CreateFromRightAlignedBuffer, e

\* The buffer that goes to a protocol is right aligned.
LEMMA DataRightAlignedIs ==
  ASSUME NEW u, NEW m, NEW v, Holds(v, u, m)
  PROVE  /\ DataRightAligned(v) \in Seq(Byte) /\ Len(DataRightAligned(v)) = BytesCountFromBitsCount(m)
         /\ m # 0 => RightAligned(DataRightAligned(v), u, Unused(m))
<1> DEFINE d == v.data
           l == LastByteBitsCount(m)
           size == Len(d)
           shift == Unused(m)
           e == DataRightAligned(v)
<1>1. d \in Seq(Byte) /\ m \in Nat /\ size = BytesCountFromBitsCount(m) /\ v.used = m
      /\ size \in Nat /\ size \in Int /\ DOMAIN d = 1 .. size
  BY HoldsFields
<1>2. CASE m = 0
  <2>1. e = d
    BY <1>1, <1>2 DEF DataRightAligned, LastByteBitsCount
  <2> QED BY <1>1, <1>2, <2>1
<1>3. CASE m # 0
  <2>1. l \in 1 .. ByteBits /\ m = Start(size) + l /\ size \in Nat \ {0} /\ Start(size) \in Nat
    <3>1. m \in Nat \ {0}
      BY <1>1, <1>3
    <3> QED BY <1>1, <3>1, LastByteIs
  <2>2. shift = ByteBits - l
    BY DEF Unused
  <2>3. ASSUME NEW j \in 1 .. size, NEW i \in BitPos, Start(j) + i < m
        PROVE  d[j][i] = u[Start(j) + i + 1]
    BY <2>3 DEF Holds
  <2>4. ASSUME NEW j \in 1 .. size PROVE d[j] \in Byte /\ Start(j) \in Nat /\ Start(j) <= Start(size)
    <3>1. d[j] \in Byte
      BY <1>1
    <3>2. Start(j) \in Nat
      BY <1>1, ByteBounds
    <3>3. CASE j = size
      BY <3>1, <3>2, <3>3
    <3>4. CASE j # size
      <4>1. j \in Int /\ j < size
        BY <1>1, <3>4
      <4> HIDE DEF size
      <4>2. Start(j) + ByteBits <= Start(size)
        BY <1>1, <4>1, StartOrder
      <4> QED BY <2>1, <3>1, <3>2, <4>2, ByteBitsAssumption
    <3> QED BY <3>3, <3>4
  <2>5. e = [j \in 1 .. size |->
               IF j = 1 THEN KeepRight(Shr(d[1], ByteBits - l), l)
               ELSE Merge(KeepLeft(Shl(d[j - 1], l), ByteBits - l), KeepRight(Shr(d[j], ByteBits - l), l))]
    <3>1. l # 0
      BY <2>1
    <3> QED BY <1>1, <3>1 DEF DataRightAligned
  <2> HIDE DEF e, d, l, size, shift
  <2>6. shift \in 0 .. ByteBits - 1 /\ shift \in Int /\ l \in Int /\ l \in 0 .. ByteBits /\ shift \in 0 .. ByteBits
    BY <2>1, <2>2, ByteBitsAssumption
  <2>7. ASSUME NEW b \in Byte, NEW c, c = KeepRight(Shr(b, ByteBits - l), l)
        PROVE  c \in Byte /\ \A i \in BitPos : c[i] = IF i >= shift THEN b[i - shift] ELSE 0
    <3> DEFINE x == Shr(b, ByteBits - l)
    <3>1. x \in Byte /\ \A i \in BitPos : x[i] = IF i >= shift THEN b[i - shift] ELSE 0
      BY <2>2, <2>6, ShiftsAre
    <3>2. c = KeepRight(x, l)
      BY <2>7
    <3> HIDE DEF x
    <3>3. c \in Byte /\ \A i \in BitPos : c[i] = IF i >= ByteBits - l THEN x[i] ELSE 0
      BY <2>6, <3>1, <3>2, KeepRightIs
    <3> QED BY <2>2, <3>1, <3>3
  <2>8. ASSUME NEW a \in Byte, NEW c, c = KeepLeft(Shl(a, l), ByteBits - l)
        PROVE  c \in Byte /\ \A i \in BitPos : c[i] = IF i < shift THEN a[i + l] ELSE 0
    <3> DEFINE x == Shl(a, l)
    <3>1. x \in Byte /\ \A i \in BitPos : x[i] = IF i + l < ByteBits THEN a[i + l] ELSE 0
      BY <2>6, ShiftsAre
    <3>2. c = KeepLeft(x, shift)
      BY <2>2, <2>8
    <3> HIDE DEF x
    <3>3. c \in Byte /\ \A i \in BitPos : c[i] = IF i < shift THEN x[i] ELSE 0
      BY <2>6, <3>1, <3>2, KeepLeftIs
    <3>4. \A i \in BitPos : i < shift => i + l < ByteBits
      BY <2>1, <2>2, ByteBitsAssumption DEF BitPos
    <3> QED BY <3>1, <3>3, <3>4
  <2>9. ASSUME NEW j \in 1 .. size
        PROVE  e[j] \in Byte /\ \A i \in BitPos : Start(j) + i >= shift => e[j][i] = u[Start(j) + i - shift + 1]
    <3>1. ASSUME NEW i \in BitPos, i >= shift
          PROVE  d[j][i - shift] = u[Start(j) + i - shift + 1]
      <4>1. i - shift \in BitPos /\ Start(j) + (i - shift) + 1 = Start(j) + i - shift + 1
        <5>1. Start(j) \in Nat
          BY <2>4
        <5> QED BY <2>6, <3>1, <5>1, ByteBitsAssumption DEF BitPos
      <4>2. Start(j) + (i - shift) < m
        BY <2>1, <2>2, <2>4, <3>1, ByteBitsAssumption DEF BitPos
      <4> QED BY <2>3, <4>1, <4>2
    <3> DEFINE y == KeepRight(Shr(d[j], ByteBits - l), l)
    <3>2. y \in Byte /\ \A i \in BitPos : y[i] = IF i >= shift THEN d[j][i - shift] ELSE 0
      BY <2>4, <2>7
    <3>3. CASE j = 1
      <4>1. e[j] = y
        BY <2>5, <3>3
      <4> HIDE DEF y
      <4>2. \A i \in BitPos : Start(j) + i >= shift => i >= shift
        BY <3>3, Starts DEF BitPos
      <4> QED BY <3>1, <3>2, <4>1, <4>2
    <3>4. CASE j # 1
      <4> DEFINE x == KeepLeft(Shl(d[j - 1], l), ByteBits - l)
      <4>1. e[j] = Merge(x, y)
        BY <2>5, <3>4
      <4>2. j - 1 \in 1 .. size /\ j - 1 \in Int /\ (j - 1) + 1 = j
        BY <1>1, <3>4
      <4>3. Start(j) = Start(j - 1) + ByteBits
        BY <4>2, Starts
      <4>4. x \in Byte /\ \A i \in BitPos : x[i] = IF i < shift THEN d[j - 1][i + l] ELSE 0
        BY <2>4, <2>8, <4>2
      <4> HIDE DEF x, y
      <4>5. Merge(x, y) \in Byte /\ \A i \in BitPos : (x[i] = 0 => Merge(x, y)[i] = y[i])
                                                     /\ (y[i] = 0 => Merge(x, y)[i] = x[i])
        BY <3>2, <4>4, MergeIs
      <4>6. ASSUME NEW i \in BitPos PROVE e[j][i] = u[Start(j) + i - shift + 1]
        <5>1. CASE i >= shift
          <6>1. ~(i < shift)
            BY <2>6, <5>1 DEF BitPos
          <6> QED BY <3>1, <3>2, <4>1, <4>4, <4>5, <5>1, <6>1
        <5>2. CASE ~(i >= shift)
          <6>1. i < shift
            BY <2>6, <5>2 DEF BitPos
          <6>2. i + l \in BitPos /\ Start(j - 1) + (i + l) + 1 = Start(j) + i - shift + 1
                /\ Start(j - 1) + (i + l) < m
            <7>1. Start(j - 1) \in Nat /\ Start(j) <= Start(size)
              BY <2>4, <4>2
            <7> QED BY <2>1, <2>2, <4>3, <6>1, <7>1, ByteBitsAssumption DEF BitPos
          <6>3. d[j - 1][i + l] = u[Start(j - 1) + (i + l) + 1]
            BY <2>3, <4>2, <6>2
          <6> QED BY <3>2, <4>1, <4>4, <4>5, <5>2, <6>1, <6>2, <6>3
        <5> QED BY <5>1, <5>2
      <4> QED BY <4>1, <4>5, <4>6
    <3> QED BY <3>3, <3>4
  <2>10. e \in Seq(Byte) /\ Len(e) = size
    BY SMTT(60), <1>1, <2>5, <2>9
  <2>11. RightAligned(e, u, shift)
    BY <2>9, <2>10 DEF RightAligned
  <2> QED BY <1>1, <2>10, <2>11 DEF e, shift
<1> QED BY <1>2, <1>3

\* ReverseSlice turns a slice round.
LEMMA ReverseSliceHolds ==
  ASSUME NEW s, NEW m, NEW v, Holds(v, s, m), NEW o \in Nat, NEW n \in Nat, o + n <= m,
         NEW u, u = BitsAtReversed(s, o, n)
  PROVE  Holds(ReverseSlice(v, o, n), u, n)
<1>1. CASE n = 0
  BY <1>1, EmptyHolds DEF ReverseSlice
<1>2. CASE n # 0
  <2> DEFINE slice == Slice(v, o, n)
             d == slice.data
             size == Len(d)
             t == [i \in 1 .. n |-> s[o + i]]
             buf == [j \in 1 .. size |-> ReverseByte(d[size + 1 - j])]
             l == LastByteBitsCount(n)
             shift == Unused(n)
  <2>1. Holds(slice, t, n)
    <3>1. Continues(t, 0, n, s, o)
      BY DEF Continues
    <3> HIDE DEF t
    <3> QED BY <3>1, SliceHolds
  <2>2. ReverseSlice(v, o, n) = CreateFromRightAlignedBuffer(buf, n)
    BY <1>2 DEF ReverseSlice
  <2> HIDE DEF slice, t
  <2>3. d \in Seq(Byte) /\ size = BytesCountFromBitsCount(n) /\ size \in Nat /\ size \in Int
    BY <2>1, HoldsFields
  <2>4. ASSUME NEW j \in 1 .. size, NEW i \in BitPos, Start(j) + i < n
        PROVE  d[j][i] = t[Start(j) + i + 1]
    BY <2>1, <2>4 DEF Holds
  <2>5. l \in 1 .. ByteBits /\ n = Start(size) + l /\ Start(size) \in Nat
    <3>1. n \in Nat \ {0}
      BY <1>2
    <3> QED BY <2>3, <3>1, LastByteIs
  <2>6. shift = ByteBits - l
    BY DEF Unused
  <2> HIDE DEF d, size, l, shift, buf
  <2>7. ASSUME NEW j \in 1 .. size
        PROVE  buf[j] \in Byte /\ \A i \in BitPos : Start(j) + i >= shift => buf[j][i] = u[Start(j) + i - shift + 1]
    <3> DEFINE k == size + 1 - j
    <3>1. k \in 1 .. size /\ k \in Int
      BY <2>3
    <3>2. Start(k) = Start(size) - Start(j) /\ Start(j) \in Nat
      <4>1. Start(j) \in Nat
        BY <2>3, ByteBounds
      <4>2. Start(k) = Start(size) - Start(j)
        BY <2>3, ByteBitsAssumption, SMTT(60) DEF Start
      <4> QED BY <4>1, <4>2
    <3>3. buf[j] = ReverseByte(d[k])
      BY DEF buf
    <3> HIDE DEF k
    <3>4. d[k] \in Byte
      BY <2>3, <3>1 DEF size
    <3>5. \A i \in BitPos : ByteBits - 1 - i \in BitPos
      BY ByteBitsAssumption DEF BitPos
    <3>6. buf[j] \in Byte /\ \A i \in BitPos : buf[j][i] = d[k][ByteBits - 1 - i]
      BY <3>3, <3>4, <3>5 DEF ReverseByte, Byte
    <3>7. ASSUME NEW i \in BitPos, Start(j) + i >= shift
          PROVE  buf[j][i] = u[Start(j) + i - shift + 1]
      <4> DEFINE p == Start(j) + i - shift
                 x == ByteBits - 1 - i
      <4>1. x \in BitPos /\ Start(k) + x < n
        BY <2>5, <2>6, <3>2, <3>7, ByteBitsAssumption DEF BitPos
      <4>2. p + 1 \in 1 .. n /\ n - p \in 1 .. n /\ Start(k) + x + 1 = n - p
            /\ o + (n - p) = o + n + 1 - (p + 1)
        <5>1. 0 <= Start(k) + x
          <6>1. Start(k) \in Nat
            BY <2>3, <3>1, ByteBounds
          <6> QED BY <4>1, <6>1 DEF BitPos
        <5> QED BY <2>5, <2>6, <3>2, <3>7, <4>1, <5>1, ByteBitsAssumption DEF BitPos
      <4> HIDE DEF p, x
      <4>3. d[k][x] = t[n - p]
        BY <2>4, <3>1, <4>1, <4>2
      <4>4. t[n - p] = s[o + (n - p)]
        BY <4>2 DEF t
      <4>5. u[p + 1] = s[o + n + 1 - (p + 1)]
        BY <4>2 DEF BitsAtReversed
      <4>6. buf[j][i] = u[p + 1]
        BY <3>6, <4>2, <4>3, <4>4, <4>5 DEF x
      <4> QED BY <4>6 DEF p
    <3> QED BY <3>6, <3>7
  <2>8. buf \in Seq(Byte) /\ Len(buf) = size
    <3>1. buf = [j \in 1 .. size |-> buf[j]]
      BY DEF buf
    <3> QED BY <2>3, <2>7, <3>1
  <2>9. RightAligned(buf, u, Unused(n))
    BY <2>7, <2>8 DEF RightAligned, shift
  <2>10. Holds(CreateFromRightAlignedBuffer(buf, n), u, n)
    BY <2>3, <2>8, <2>9, RightAlignedHolds
  <2> QED BY <2>2, <2>10
<1> QED BY <1>1, <1>2

\* Every slice, straight or reversed, holds the bits it should, and so does the
\* buffer that goes to a protocol and comes back.
THEOREM VectorsSliceAsBits ==
  ASSUME AppendBitsAnywhere = FALSE
  PROVE  Spec => []SlicesAgree
<1>1. Inv => SlicesAgree
  <2> SUFFICES ASSUME Inv PROVE SlicesAgree
    OBVIOUS
  <2> DEFINE m == Len(bits)
  <2>1. bits \in Seq(Bit) /\ Holds(vec, bits, m) /\ vec.used = m /\ m \in Nat
    BY InvFacts
  <2>2. ASSUME NEW o \in 0 .. m, NEW n \in 0 .. m - o
        PROVE  /\ Bits(Slice(vec, o, n)) = BitsAt(bits, o, n)
               /\ Bits(ReverseSlice(vec, o, n)) = BitsAtReversed(bits, o, n)
    <3>1. o \in Nat /\ n \in Nat /\ o + n <= m
      BY <2>1
    <3> DEFINE t == BitsAt(bits, o, n)
               u == BitsAtReversed(bits, o, n)
    <3>2. \A i \in 1 .. n : o + i \in 1 .. m /\ o + n + 1 - i \in 1 .. m
      BY <2>1, <3>1
    <3>3. t \in Seq(Bit) /\ Len(t) = n /\ \A i \in 1 .. n : t[i] = bits[o + i]
      <4>1. t = [i \in 1 .. n |-> bits[o + i]]
        <5>1. (o + n) - (o + 1) + 1 = n
          BY <3>1
        <5> QED BY <2>1, <3>1, <5>1 DEF BitsAt
      <4> HIDE DEF t
      <4> QED BY <2>1, <3>1, <3>2, <4>1
    <3>4. u \in Seq(Bit) /\ Len(u) = n
      BY <2>1, <3>1, <3>2 DEF BitsAtReversed
    <3> HIDE DEF t
    <3>5. Continues(t, 0, n, bits, o)
      BY <3>1, <3>3 DEF Continues
    <3>6. Holds(Slice(vec, o, n), t, n)
      BY <2>1, <3>1, <3>5, SliceHolds
    <3>7. Holds(ReverseSlice(vec, o, n), u, n)
      BY <2>1, <3>1, ReverseSliceHolds
    <3> HIDE DEF u
    <3>8. Bits(Slice(vec, o, n)) = t /\ Bits(ReverseSlice(vec, o, n)) = u
      BY <3>3, <3>4, <3>6, <3>7, BitsIs
    <3> QED BY <3>8 DEF t, u
  <2>3. Bits(CreateFromRightAlignedBuffer(DataRightAligned(vec), m)) = bits
    <3> DEFINE buf == DataRightAligned(vec)
    <3>1. /\ buf \in Seq(Byte) /\ Len(buf) = BytesCountFromBitsCount(m)
          /\ m # 0 => RightAligned(buf, bits, Unused(m))
      BY <2>1, DataRightAlignedIs
    <3> HIDE DEF buf
    <3>2. Holds(CreateFromRightAlignedBuffer(buf, m), bits, m)
      BY <2>1, <3>1, RightAlignedHolds
    <3>3. Bits(CreateFromRightAlignedBuffer(buf, m)) = bits
      BY <2>1, <3>2, BitsIs
    <3> QED BY <3>3 DEF buf
  <2> QED BY <2>1, <2>2, <2>3 DEF SlicesAgree
<1> QED BY <1>1, SpecInv, PTL

-------------------------------------------------------------------------------
(* Integers read from a vector *)



\* MergeToByte gives the byte that ends with the bits of byte j.
LEMMA MergeToByteIs ==
  ASSUME NEW u, NEW m, NEW v, Holds(v, u, m), m # 0, NEW asSigned \in BOOLEAN,
         NEW fill \in Bit, fill = IF asSigned /\ IsNegative(v) THEN 1 ELSE 0,
         NEW j \in 1 .. Len(v.data), NEW y, y = MergeToByte(v, j, LastByteBitsCount(m), asSigned)
  PROVE  /\ y \in Byte
         /\ \A b \in BitPos : Start(j) + b >= Unused(m) => y[b] = u[Start(j) + b - Unused(m) + 1]
         /\ \A b \in BitPos : ~(Start(j) + b >= Unused(m)) => y[b] = fill
<1> DEFINE d == v.data
           l == LastByteBitsCount(m)
           size == Len(d)
           shift == Unused(m)
<1>1. d \in Seq(Byte) /\ m \in Nat /\ size = BytesCountFromBitsCount(m) /\ size \in Nat /\ size \in Int
  BY HoldsFields
<1>2. l \in 1 .. ByteBits /\ m = Start(size) + l /\ Start(size) \in Nat
  <2>1. m \in Nat \ {0}
    BY <1>1
  <2> QED BY <1>1, <2>1, LastByteIs
<1>3. shift = ByteBits - l
  BY DEF Unused
<1>4. ASSUME NEW p \in 1 .. size, NEW i \in BitPos, Start(p) + i < m
      PROVE  d[p][i] = u[Start(p) + i + 1]
  BY <1>4 DEF Holds
<1>5. ASSUME NEW p \in 1 .. size PROVE d[p] \in Byte /\ Start(p) \in Nat /\ Start(p) <= Start(size)
  <2>1. d[p] \in Byte
    BY <1>1
  <2>2. Start(p) \in Nat
    BY <1>1, ByteBounds
  <2>3. CASE p = size
    BY <2>1, <2>2, <2>3
  <2>4. CASE p # size
    <3>1. p \in Int /\ p < size
      BY <1>1, <2>4
    <3> HIDE DEF size
    <3>2. Start(p) + ByteBits <= Start(size)
      BY <1>1, <3>1, StartOrder
    <3> QED BY <1>2, <2>1, <2>2, <3>2, ByteBitsAssumption
  <2> QED BY <2>3, <2>4
<1> DEFINE low == Shr(d[j], ByteBits - l)
<1>6. y = IF j = 1 THEN IF asSigned /\ IsNegative(v) THEN Merge(low, KeepLeft(Fill(1), ByteBits - l)) ELSE low
          ELSE Merge(Shl(d[j - 1], l), low)
  BY DEF MergeToByte
<1>j. j \in 1 .. size
  OBVIOUS
<1> HIDE DEF d, l, size, shift
<1>7. l \in Int /\ shift \in Int /\ shift \in 0 .. ByteBits - 1 /\ shift \in 0 .. ByteBits
  BY <1>2, <1>3, ByteBitsAssumption
<1>8. low \in Byte /\ \A b \in BitPos : low[b] = IF b >= shift THEN d[j][b - shift] ELSE 0
  BY <1>3, <1>5, <1>7, <1>j, ShiftsAre
<1>9. ASSUME NEW b \in BitPos, b >= shift PROVE d[j][b - shift] = u[Start(j) + b - shift + 1]
  <2>1. b - shift \in BitPos /\ Start(j) + (b - shift) + 1 = Start(j) + b - shift + 1
    <3>1. Start(j) \in Nat
      BY <1>5, <1>j
    <3> QED BY <1>7, <1>9, <3>1, ByteBitsAssumption DEF BitPos
  <2>2. Start(j) + (b - shift) < m
    BY <1>2, <1>3, <1>5, <1>9, <1>j, ByteBitsAssumption DEF BitPos
  <2> QED BY <1>4, <1>j, <2>1, <2>2
<1>10. CASE j = 1
  <2>1. \A b \in BitPos : Start(j) + b >= shift <=> b >= shift
    <3>1. Start(j) = 0
      BY <1>10, Starts
    <3> QED BY <1>7, <3>1 DEF BitPos
  <2>2. y \in Byte /\ \A b \in BitPos : y[b] = IF b >= shift THEN low[b] ELSE fill
    <3>1. CASE asSigned /\ IsNegative(v)
      <4> DEFINE z == KeepLeft(Fill(1), shift)
      <4>1. y = Merge(low, z) /\ fill = 1
        BY <1>3, <1>6, <1>10, <3>1
      <4>2. Fill(1) \in Byte /\ \A b \in BitPos : Fill(1)[b] = 1
        BY FillIs DEF Bit
      <4>3. z \in Byte /\ \A b \in BitPos : z[b] = IF b < shift THEN 1 ELSE 0
        BY <1>7, <4>2, KeepLeftIs
      <4> HIDE DEF z, low
      <4>4. Merge(low, z) \in Byte /\ \A b \in BitPos : (low[b] = 0 => Merge(low, z)[b] = z[b])
                                                       /\ (z[b] = 0 => Merge(low, z)[b] = low[b])
        BY <1>8, <4>3, MergeIs
      <4>5. \A b \in BitPos : b >= shift <=> ~(b < shift)
        BY <1>7 DEF BitPos
      <4> QED BY <1>8, <4>1, <4>3, <4>4, <4>5
    <3>2. CASE ~(asSigned /\ IsNegative(v))
      <4>1. y = low /\ fill = 0
        BY <1>6, <1>10, <3>2
      <4> HIDE DEF low
      <4> QED BY <1>8, <4>1
    <3> QED BY <3>1, <3>2
  <2> HIDE DEF low
  <2>3. ASSUME NEW b \in BitPos, Start(j) + b >= shift PROVE y[b] = u[Start(j) + b - shift + 1]
    BY <1>8, <1>9, <2>1, <2>2, <2>3
  <2>4. ASSUME NEW b \in BitPos, ~(Start(j) + b >= shift) PROVE y[b] = fill
    BY <2>1, <2>2, <2>4
  <2> QED BY <2>2, <2>3, <2>4 DEF shift
<1>11. CASE j # 1
  <2>1. y = Merge(Shl(d[j - 1], l), Shr(d[j], ByteBits - l))
    BY <1>6, <1>11
  <2>2. j - 1 \in 1 .. size /\ j - 1 \in Int /\ (j - 1) + 1 = j
    BY <1>1, <1>11, <1>j
  <2>3. Start(j) = Start(j - 1) + ByteBits /\ Start(j - 1) \in Nat /\ Start(j) <= Start(size)
    BY <1>5, <1>j, <2>2, Starts
  <2> DEFINE a == d[j - 1]
             c == d[j]
  <2>4. a \in Byte /\ c \in Byte
    BY <1>5, <1>j, <2>2
  <2> HIDE DEF a, c
  <2>5. ByteShifted(y, a, c, l)
    <3>1. y = Merge(Shl(a, l), Shr(c, ByteBits - l))
      BY <2>1 DEF a, c
    <3> QED BY <1>2, <2>4, <3>1, ShiftedIs
  <2>6. ASSUME NEW b \in BitPos PROVE Start(j) + b >= shift /\ y[b] = u[Start(j) + b - shift + 1]
    <3>1. Start(j) + b >= shift
      BY <1>7, <2>3, ByteBitsAssumption DEF BitPos
    <3>2. CASE b + l >= ByteBits
      <4>1. b >= shift /\ b + l - ByteBits = b - shift
        BY <1>2, <1>3, <3>2, ByteBitsAssumption DEF BitPos
      <4>2. y[b] = c[b + l - ByteBits]
        BY <2>5, <3>2 DEF ByteShifted
      <4>3. d[j][b - shift] = u[Start(j) + b - shift + 1]
        BY <1>9, <4>1
      <4> QED BY <3>1, <4>1, <4>2, <4>3 DEF c
    <3>3. CASE ~(b + l >= ByteBits)
      <4>1. b + l < ByteBits /\ b + l \in BitPos /\ Start(j - 1) + (b + l) + 1 = Start(j) + b - shift + 1
            /\ Start(j - 1) + (b + l) < m
        BY SMTT(60), <1>2, <1>3, <2>3, <3>3, ByteBitsAssumption DEF BitPos
      <4>2. y[b] = a[b + l]
        BY <2>5, <4>1 DEF ByteShifted
      <4>3. d[j - 1][b + l] = u[Start(j - 1) + (b + l) + 1]
        BY <1>4, <2>2, <4>1
      <4> QED BY <3>1, <4>1, <4>2, <4>3 DEF a
    <3> QED BY <3>2, <3>3
  <2>7. y \in Byte
    BY <2>5 DEF ByteShifted
  <2> QED BY <2>6, <2>7 DEF shift
<1> QED BY <1>10, <1>11

\* Get gives the least significant bits, extended to the size of the integer.
LEMMA GetIs ==
  ASSUME NEW u \in Seq(Bit), NEW v, Holds(v, u, Len(u)), Len(u) # 0, NEW k \in Nat \ {0},
         NEW asSigned \in BOOLEAN, NEW fill, fill = IF asSigned THEN u[1] ELSE 0
  PROVE  WordBits(Get(v, k, asSigned)) = LowBits(u, k * ByteBits, fill)
<1> DEFINE m == Len(u)
           d == v.data
           size == Len(d)
           l == LastByteBitsCount(m)
           shift == Unused(m)
           g == Get(v, k, asSigned)
           e == Start(k + 1)
<1>1. d \in Seq(Byte) /\ m \in Nat /\ m \in Nat \ {0} /\ v.used = m
      /\ size = BytesCountFromBitsCount(m) /\ size \in Nat /\ size \in Int
  BY HoldsFields
<1>2. l \in 1 .. ByteBits /\ m = Start(size) + l /\ size \in Nat \ {0} /\ Start(size) \in Nat
  BY <1>1, LastByteIs
<1>3. shift = ByteBits - l
  BY DEF Unused
<1>4. e = k * ByteBits /\ e \in Nat /\ Len(u) = m
  BY ByteBitsAssumption DEF Start
<1>5. u[1] \in Bit /\ (IsNegative(v) <=> u[1] = 1)
  <2>1. u[1] \in Bit
    BY <1>1
  <2>2. 1 \in 1 .. size /\ 0 \in BitPos /\ Start(1) + 0 < m /\ Start(1) + 0 + 1 = 1
    <3>1. Start(1) = 0
      BY Starts
    <3> HIDE DEF size, m
    <3>2. 1 \in 1 .. size /\ 0 < m
      BY <1>1, <1>2
    <3>3. 0 \in BitPos
      BY ByteBitsAssumption DEF BitPos
    <3> QED BY <3>1, <3>2, <3>3
  <2>3. d[1][0] = u[1]
    BY <2>2 DEF Holds
  <2> QED BY <2>1, <2>3 DEF IsNegative
<1>6. fill \in Bit /\ fill = IF asSigned /\ IsNegative(v) THEN 1 ELSE 0
  BY <1>5 DEF Bit
<1>7. g = [i \in 1 .. k |-> IF m > (k - i) * ByteBits
                             THEN MergeToByte(v, size - (k - i), l, asSigned) ELSE Fill(fill)]
  BY <1>1, <1>6 DEF Get
<1> HIDE DEF m, d, size, l, shift, g, e
<1>8. ASSUME NEW i \in 1 .. k
      PROVE  /\ g[i] \in Byte
             /\ \A b \in BitPos : (Start(i) + b + 1) + m > e => g[i][b] = u[(Start(i) + b + 1) + m - e]
             /\ \A b \in BitPos : ~((Start(i) + b + 1) + m > e) => g[i][b] = fill
  <2> DEFINE c == k - i
             s == Start(c + 1)
  <2>1. c \in Nat /\ c + 1 \in Int /\ i \in Int
    OBVIOUS
  <2>2. s = (k - i) * ByteBits /\ s \in Nat
    <3>1. s = (k - i) * ByteBits
      <4>1. (c + 1) - 1 = k - i
        OBVIOUS
      <4> QED BY <4>1 DEF Start
    <3>2. c + 1 \in 1 .. c + 1
      BY <2>1
    <3> HIDE DEF c
    <3>3. s \in Nat
      BY <2>1, <3>2, ByteBounds
    <3> QED BY <3>1, <3>3
  <2>3. Start(i) = e - ByteBits - s /\ Start(i) \in Int
    BY ByteBitsAssumption, SMTT(60) DEF Start, e
  <2>4. CASE m > s
    <3> DEFINE j == size - c
               y == MergeToByte(v, j, l, asSigned)
    <3>1. c + 1 <= size
      <4> HIDE DEF c
      <4> QED BY <1>1, <2>1, <2>2, <2>4, ByteOfBit
    <3>2. j \in 1 .. size /\ j \in Int
      BY <1>1, <2>1, <3>1
    <3>3. Start(j) = Start(size) - s
      <4> HIDE DEF c
      <4> QED BY <1>1, <2>1, ByteBitsAssumption, SMTT(60) DEF Start
    <3>4. g[i] = y
      BY <1>7, <2>2, <2>4
    <3> HIDE DEF j, y, s
    <3>5. /\ y \in Byte
          /\ \A b \in BitPos : Start(j) + b >= shift => y[b] = u[Start(j) + b - shift + 1]
          /\ \A b \in BitPos : ~(Start(j) + b >= shift) => y[b] = fill
      <4>1. m # 0 /\ Holds(v, u, m) /\ j \in 1 .. Len(v.data)
        BY <1>1, <3>2 DEF m, size, d
      <4>2. y = MergeToByte(v, j, LastByteBitsCount(m), asSigned)
        BY DEF y, l
      <4> QED BY <1>6, <4>1, <4>2, MergeToByteIs DEF shift
    <3>6. ASSUME NEW b \in BitPos
          PROVE  /\ (Start(i) + b + 1) + m - e = Start(j) + b - shift + 1
                 /\ (Start(i) + b + 1) + m > e <=> Start(j) + b >= shift
      BY SMTT(60), <1>2, <1>3, <1>4, <2>2, <2>3, <3>3, ByteBitsAssumption DEF BitPos
    <3> QED BY <3>4, <3>5, <3>6
  <2>5. CASE ~(m > s)
    <3>1. g[i] = Fill(fill)
      BY <1>7, <2>2, <2>5
    <3>2. g[i] \in Byte /\ \A b \in BitPos : g[i][b] = fill
      BY <1>6, <3>1, FillIs
    <3> HIDE DEF s
    <3>3. \A b \in BitPos : ~((Start(i) + b + 1) + m > e)
      BY <1>1, <1>4, <2>2, <2>3, <2>5, ByteBitsAssumption DEF BitPos
    <3> QED BY <3>2, <3>3
  <2> QED BY <2>4, <2>5
<1>9. Len(g) = k /\ g \in Seq(Byte)
  <2>1. \A i \in 1 .. k : g[i] \in Byte
    BY <1>8
  <2>2. g = [i \in 1 .. k |-> g[i]]
    BY <1>7
  <2> QED BY <2>1, <2>2
<1>10. ASSUME NEW p \in 1 .. e
       PROVE  g[(p - 1) \div ByteBits + 1][(p - 1) % ByteBits] = IF p + m > e THEN u[p + m - e] ELSE fill
  <2> DEFINE o == p - 1
             q == o \div ByteBits
             r == o % ByteBits
  <2>1. o \in Nat /\ o < e /\ o + 1 = p
    BY <1>4
  <2> HIDE DEF o
  <2>2. q \in Nat /\ r \in BitPos /\ o = Start(q + 1) + r
    BY <2>1, DivMod, DivNat
  <2> HIDE DEF q, r
  <2>3. q + 1 \in Int /\ Start(q + 1) \in Int /\ k + 1 \in Int
    BY <2>2, Starts
  <2>4. q + 1 \in 1 .. k
    <3>1. Start(q + 1) < Start(k + 1)
      BY SMTT(60), <1>4, <2>1, <2>2, <2>3 DEF BitPos, e
    <3>2. q + 1 < k + 1
      BY <2>3, <3>1, StartLess
    <3> QED BY <2>2, <3>2
  <2>5. Start(q + 1) + r + 1 = p
    BY <2>1, <2>2
  <2>6. g[q + 1][r] = IF p + m > e THEN u[p + m - e] ELSE fill
    BY <1>8, <2>2, <2>4, <2>5
  <2> QED BY <2>6 DEF q, r, o
<1>11. WordBits(g) = [p \in 1 .. e |-> g[(p - 1) \div ByteBits + 1][(p - 1) % ByteBits]]
  BY <1>4, <1>9 DEF WordBits
<1>12. LowBits(u, e, fill) = [p \in 1 .. e |-> IF p + m > e THEN u[p + m - e] ELSE fill]
  BY <1>4 DEF LowBits
<1>13. WordBits(g) = LowBits(u, e, fill)
  BY <1>10, <1>11, <1>12
<1> QED BY <1>4, <1>13 DEF g

\* Reading the vector as an integer gives its least significant bits, extended
\* with zeroes or with the sign, and the leading zeroes are counted right.
THEOREM VectorsReadAsIntegers ==
  ASSUME AppendBitsAnywhere = FALSE
  PROVE  Spec => []IntegersAgree
<1>1. Inv => IntegersAgree
  <2> SUFFICES ASSUME Inv PROVE IntegersAgree
    OBVIOUS
  <2> DEFINE m == Len(bits)
  <2>1. bits \in Seq(Bit) /\ Holds(vec, bits, m) /\ vec.used = m /\ m \in Nat
    BY InvFacts
  <2>2. ASSUME m # 0, NEW k \in 1 .. 3, NEW asSigned \in BOOLEAN
        PROVE  WordBits(Get(vec, k, asSigned)) = LowBits(bits, k * ByteBits, IF asSigned THEN bits[1] ELSE 0)
    <3>1. k \in Nat \ {0}
      OBVIOUS
    <3> QED BY <2>1, <2>2, <3>1, GetIs
  <2> DEFINE z == LeadingZeroesCount(vec)
  <2>3. (\A i \in 1 .. z : bits[i] = 0) /\ (z < m => bits[z + 1] = 1)
    BY <2>1, LeadingZeroesAre
  <2> HIDE DEF z
  <2> QED BY <2>1, <2>2, <2>3 DEF IntegersAgree, z
<1> QED BY <1>1, SpecInv, PTL

=============================================================================
