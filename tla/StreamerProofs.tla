---------------------------- MODULE StreamerProofs ----------------------------
(***************************************************************************)
(* Proofs about Streamer, for every set of registers, streamers and paths,   *)
(* every width, keystream and number of cycles.                              *)
(*                                                                         *)
(* A bit is ciphered at every end of a streamer it passes, with the bit of   *)
(* the keystream that is up at that clock.  What it has met on a stretch of  *)
(* its way is counted by Crossed, the number of the ends on this stretch     *)
(* where the keystream has a 1: only its parity matters.  The model's masks  *)
(* add the same number, so that the two cancel.  The folds over streamers,   *)
(* in the model and in the SUT, and the concatenation of the registers are   *)
(* treated by induction (FoldLemmas).                                        *)
(***************************************************************************)
EXTENDS Streamer, FiniteSetTheorems, SequenceTheorems, TLAPS

-------------------------------------------------------------------------------
(* Paths and the vectors that go through them *)

\* The values registers can have.
RegisterValues ==
  {f \in [Registers -> Seq(Bits)] : \A r \in Registers : f[r] \in BitVectors(Width[r])}

\* What an item adds to the vector.
Piece(item, value) == IF item[1] = "register" THEN value[item[2]] ELSE <<>>

\* The bits in front of the item at position i + 1.
Off(p, i) == Len(Concatenated(SubSeq(p, 1, i), ZeroValues))

\* The step of the loop over the vector.
ToSutStep(c, v, item) ==
  IF item[1] = "out" THEN ApplyStreamerToSut(c[1], item[2], v, c[2][item[2]].mask) ELSE v

\* The lemmas on folds, for this loop.
ToSut == INSTANCE FoldLemmas WITH Op <- ToSutStep

\* The three kinds of items.
LEMMA ItemKinds ==
  ASSUME NEW item \in PathItems
  PROVE  \/ \E r \in Registers : item = Scan(r) /\ item[1] = "register" /\ item[2] = r
         \/ \E s \in Streamers : item = Enter(s) /\ item[1] = "in" /\ item[2] = s
         \/ \E s \in Streamers : item = Leave(s) /\ item[1] = "out" /\ item[2] = s
BY DEF PathItems, Scan, Enter, Leave

\* A bit vector is a sequence of its length.
LEMMA BitVectorSeq ==
  ASSUME NEW n \in Nat, NEW v
  PROVE  v \in BitVectors(n) <=> v \in Seq(Bits) /\ Len(v) = n
BY DEF BitVectors

\* What an item adds is a sequence of bits.
LEMMA PieceType ==
  ASSUME NEW item \in PathItems, NEW value \in RegisterValues
  PROVE  Piece(item, value) \in Seq(Bits)
BY ItemKinds DEF Piece, RegisterValues

\* The values the registers have at first.
LEMMA ZeroType == ZeroValues \in RegisterValues
<1>1. \A r \in Registers : Zeroes(Width[r]) \in BitVectors(Width[r]) /\ Width[r] \in Nat
  BY NodesAssumption DEF Zeroes, BitVectors, Bits
<1>2. \A r \in Registers : Zeroes(Width[r]) \in Seq(Bits)
  BY <1>1, BitVectorSeq
<1> QED BY <1>1, <1>2 DEF ZeroValues, RegisterValues

\* The vector of a path, item by item.
LEMMA ConcatenatedSteps ==
  ASSUME NEW p \in Seq(PathItems), NEW value \in RegisterValues
  PROVE  /\ Concatenated(SubSeq(p, 1, 0), value) = <<>>
         /\ \A i \in 0..Len(p) : Concatenated(SubSeq(p, 1, i), value) \in Seq(Bits)
         /\ \A i \in 1..Len(p) : Concatenated(SubSeq(p, 1, i), value)
                                   = Concatenated(SubSeq(p, 1, i - 1), value) \o Piece(p[i], value)
<1> DEFINE Pieces(q) == [i \in DOMAIN q |-> Piece(q[i], value)]
<1>1. \A q : Concatenated(q, value) = FlattenSeq(Pieces(q))
  BY DEF Concatenated, Piece
<1>2. \A q \in Seq(PathItems) : Pieces(q) \in Seq(Seq(Bits)) /\ Len(Pieces(q)) = Len(q)
  BY PieceType, SMTT(60)
<1>3. ASSUME NEW i \in 0..Len(p)
      PROVE  /\ Concatenated(SubSeq(p, 1, i), value) = FlattenSeq(SubSeq(Pieces(p), 1, i))
             /\ SubSeq(p, 1, i) \in Seq(PathItems)
  <2>1. SubSeq(p, 1, i) \in Seq(PathItems)
    OBVIOUS
  <2>2. Pieces(SubSeq(p, 1, i)) = SubSeq(Pieces(p), 1, i)
    <3>1. DOMAIN SubSeq(p, 1, i) = 1..i /\ \A j \in 1..i : SubSeq(p, 1, i)[j] = p[j] /\ j \in DOMAIN p
      OBVIOUS
    <3>2. DOMAIN Pieces(SubSeq(p, 1, i)) = 1..i /\ Pieces(SubSeq(p, 1, i)) \in Seq(Seq(Bits))
      BY <2>1, <1>2, <3>1
    <3>3. SubSeq(Pieces(p), 1, i) \in Seq(Seq(Bits)) /\ Len(SubSeq(Pieces(p), 1, i)) = i
          /\ \A j \in 1..i : SubSeq(Pieces(p), 1, i)[j] = Pieces(p)[j]
      <4> HIDE DEF Pieces
      <4> QED BY <1>2
    <3>4. \A j \in 1..i : Pieces(SubSeq(p, 1, i))[j] = Pieces(p)[j]
      BY <3>1
    <3> HIDE DEF Pieces
    <3> QED BY <3>2, <3>3, <3>4
  <2> HIDE DEF Pieces
  <2> QED BY <1>1, <2>1, <2>2
<1>4. /\ FlattenSeq(SubSeq(Pieces(p), 1, 0)) = <<>>
      /\ \A i \in 1..Len(p) : FlattenSeq(SubSeq(Pieces(p), 1, i))
                                = FlattenSeq(SubSeq(Pieces(p), 1, i - 1)) \o Pieces(p)[i]
  <2>1. \A q : ToSut!FlattenSeq(q) = FlattenSeq(q)
    BY DEF FlattenSeq, ToSut!FlattenSeq
  <2> HIDE DEF Pieces
  <2> QED BY <1>2, <2>1, ToSut!FlattenPrefixes
<1>5. \A i \in 1..Len(p) : Pieces(p)[i] = Piece(p[i], value) /\ Piece(p[i], value) \in Seq(Bits)
  BY PieceType
<1> HIDE DEF Pieces
<1>6. \A i \in 1..Len(p) : Concatenated(SubSeq(p, 1, i), value)
                             = Concatenated(SubSeq(p, 1, i - 1), value) \o Piece(p[i], value)
  <2> TAKE i \in 1..Len(p)
  <2>1. i \in 0..Len(p) /\ i - 1 \in 0..Len(p)
    OBVIOUS
  <2> QED BY <1>3, <1>4, <1>5, <2>1
<1>7. Concatenated(SubSeq(p, 1, 0), value) = <<>>
  BY <1>3, <1>4
<1>8. \A i \in 0..Len(p) : Concatenated(SubSeq(p, 1, i), value) \in Seq(Bits)
  <2> DEFINE T == {i \in Nat : i <= Len(p) => Concatenated(SubSeq(p, 1, i), value) \in Seq(Bits)}
  <2>1. 0 \in T
    <3>1. Concatenated(SubSeq(p, 1, 0), value) \in Seq(Bits)
      BY <1>7, EmptySeq
    <3> QED BY <3>1
  <2>2. ASSUME NEW i \in T PROVE i + 1 \in T
    <3>1. CASE i + 1 <= Len(p)
      <4>1. i + 1 \in 1..Len(p) /\ (i + 1) - 1 = i
        BY <3>1
      <4>2. Concatenated(SubSeq(p, 1, i), value) \in Seq(Bits)
        BY <3>1
      <4>3. Concatenated(SubSeq(p, 1, i + 1), value)
              = Concatenated(SubSeq(p, 1, i), value) \o Piece(p[i + 1], value)
        BY <1>6, <4>1
      <4>4. Piece(p[i + 1], value) \in Seq(Bits)
        BY <1>5, <4>1
      <4>5. Concatenated(SubSeq(p, 1, i + 1), value) \in Seq(Bits)
        BY <4>2, <4>3, <4>4, ConcatProperties
      <4> QED BY <4>5
    <3>2. CASE ~(i + 1 <= Len(p))
      BY <3>2
    <3> QED BY <3>1, <3>2
  <2>3. T = Nat
    <3> HIDE DEF T
    <3>1. T \in SUBSET Nat
      BY DEF T
    <3> QED BY <2>1, <2>2, <3>1, ToSut!NatSetInduction
  <2> QED BY <2>3
<1> QED BY <1>6, <1>7, <1>8

\* The bits of an item.
ItemWidth(item) == IF item[1] = "register" THEN Width[item[2]] ELSE 0

\* An item adds as many bits as it has.
LEMMA PieceLen ==
  ASSUME NEW item \in PathItems, NEW value \in RegisterValues
  PROVE  Len(Piece(item, value)) = ItemWidth(item) /\ ItemWidth(item) \in Nat
<1>1. CASE item[1] = "register"
  <2>1. PICK r \in Registers : item[2] = r
    BY <1>1, ItemKinds
  <2>2. value[r] \in BitVectors(Width[r]) /\ Width[r] \in Nat
    BY NodesAssumption DEF RegisterValues
  <2>3. Len(value[r]) = Width[r]
    BY <2>2, BitVectorSeq
  <2> QED BY <1>1, <2>1, <2>2, <2>3 DEF Piece, ItemWidth
<1>2. CASE item[1] # "register"
  BY <1>2, EmptySeq DEF Piece, ItemWidth
<1> QED BY <1>1, <1>2

\* The length of a vector depends on the path alone.
LEMMA PrefixLen ==
  ASSUME NEW p \in Seq(PathItems), NEW value \in RegisterValues, NEW i \in 0..Len(p)
  PROVE  Len(Concatenated(SubSeq(p, 1, i), value)) = Off(p, i) /\ Off(p, i) \in Nat
<1> DEFINE L(v, j) == Len(Concatenated(SubSeq(p, 1, j), v))
           T == {j \in Nat : j <= Len(p) => L(value, j) = L(ZeroValues, j) /\ L(value, j) \in Nat}
<1>1. ASSUME NEW v \in RegisterValues
      PROVE  /\ L(v, 0) = 0
             /\ \A j \in 1..Len(p) : L(v, j - 1) \in Nat /\ L(v, j) = L(v, j - 1) + ItemWidth(p[j])
  <2>1. L(v, 0) = 0
    BY ConcatenatedSteps, EmptySeq
  <2>2. ASSUME NEW j \in 1..Len(p)
        PROVE  L(v, j - 1) \in Nat /\ L(v, j) = L(v, j - 1) + ItemWidth(p[j])
    <3>1. p[j] \in PathItems /\ j - 1 \in 0..Len(p)
      OBVIOUS
    <3>2. Concatenated(SubSeq(p, 1, j - 1), v) \in Seq(Bits) /\ Piece(p[j], v) \in Seq(Bits)
      BY <3>1, ConcatenatedSteps, PieceType
    <3>3. Len(Concatenated(SubSeq(p, 1, j - 1), v) \o Piece(p[j], v))
            = Len(Concatenated(SubSeq(p, 1, j - 1), v)) + Len(Piece(p[j], v))
      BY <3>2, ConcatProperties
    <3> QED BY <3>1, <3>2, <3>3, ConcatenatedSteps, PieceLen, LenProperties
  <2> QED BY <2>1, <2>2
<1> HIDE DEF L
<1>2. 0 \in T
  BY <1>1, ZeroType
<1>3. ASSUME NEW j \in T PROVE j + 1 \in T
  <2>1. CASE j + 1 <= Len(p)
    <3>1. j + 1 \in 1..Len(p) /\ (j + 1) - 1 = j /\ j <= Len(p)
      BY <2>1
    <3>2. p[j + 1] \in PathItems
      BY <3>1
    <3>3. ItemWidth(p[j + 1]) \in Nat
      BY <3>2, ZeroType, PieceLen
    <3>4. L(value, j + 1) = L(value, j) + ItemWidth(p[j + 1])
      BY <1>1, <3>1
    <3>5. L(ZeroValues, j + 1) = L(ZeroValues, j) + ItemWidth(p[j + 1])
      BY <1>1, <3>1, ZeroType
    <3> QED BY <3>1, <3>3, <3>4, <3>5
  <2>2. CASE ~(j + 1 <= Len(p))
    BY <2>2
  <2> QED BY <2>1, <2>2
<1>4. T = Nat
  <2> HIDE DEF T
  <2>1. T \in SUBSET Nat
    BY DEF T
  <2> QED BY <1>2, <1>3, <2>1, ToSut!NatSetInduction
<1> QED BY <1>4 DEF L, Off

\* Where the items begin.
LEMMA OffSteps ==
  ASSUME NEW p \in Seq(PathItems)
  PROVE  /\ Off(p, 0) = 0
         /\ \A i \in 1..Len(p) : Off(p, i) = Off(p, i - 1) + ItemWidth(p[i])
<1>1. Off(p, 0) = 0
  BY ZeroType, ConcatenatedSteps, EmptySeq DEF Off
<1>2. ASSUME NEW j \in 1..Len(p)
      PROVE  Off(p, j) = Off(p, j - 1) + ItemWidth(p[j])
  <2>1. p[j] \in PathItems /\ j - 1 \in 0..Len(p)
    OBVIOUS
  <2>2. Concatenated(SubSeq(p, 1, j - 1), ZeroValues) \in Seq(Bits)
        /\ Piece(p[j], ZeroValues) \in Seq(Bits)
    BY <2>1, ZeroType, ConcatenatedSteps, PieceType
  <2>3. Len(Concatenated(SubSeq(p, 1, j - 1), ZeroValues) \o Piece(p[j], ZeroValues))
          = Len(Concatenated(SubSeq(p, 1, j - 1), ZeroValues)) + Len(Piece(p[j], ZeroValues))
    BY <2>2, ConcatProperties
  <2> QED BY <2>1, <2>2, <2>3, ConcatenatedSteps, PieceLen, ZeroType DEF Off
<1> QED BY <1>1, <1>2

\* Items further on begin further on.
LEMMA OffMonotonic ==
  ASSUME NEW p \in Seq(PathItems), NEW i \in 0..Len(p), NEW j \in i..Len(p)
  PROVE  Off(p, i) <= Off(p, j)
<1> DEFINE T == {d \in Nat : i + d <= Len(p) => Off(p, i) <= Off(p, i + d)}
<1>1. \A k \in 0..Len(p) : Off(p, k) \in Nat
  BY PrefixLen, ZeroType
<1>2. 0 \in T
  BY <1>1
<1>3. ASSUME NEW d \in T PROVE d + 1 \in T
  <2>1. CASE i + (d + 1) <= Len(p)
    <3>1. i + (d + 1) \in 1..Len(p) /\ (i + (d + 1)) - 1 = i + d /\ i + d \in 0..Len(p)
          /\ i + (d + 1) \in 0..Len(p)
      BY <2>1
    <3>2. ItemWidth(p[i + (d + 1)]) \in Nat
      BY <3>1, ZeroType, PieceLen
    <3>3. Off(p, i + (d + 1)) = Off(p, i + d) + ItemWidth(p[i + (d + 1)])
      BY <3>1, OffSteps
    <3>4. Off(p, i) <= Off(p, i + d)
      BY <3>1
    <3>5. Off(p, i) <= Off(p, i + (d + 1))
      BY <1>1, <3>1, <3>2, <3>3, <3>4
    <3> QED BY <3>5
  <2>2. CASE ~(i + (d + 1) <= Len(p))
    BY <2>2
  <2> QED BY <2>1, <2>2
<1>4. T = Nat
  <2> HIDE DEF T
  <2>1. T \in SUBSET Nat
    BY DEF T
  <2> QED BY <1>2, <1>3, <2>1, ToSut!NatSetInduction
<1>5. j - i \in Nat /\ i + (j - i) = j
  OBVIOUS
<1>6. j - i \in T
  BY <1>4, <1>5
<1> QED BY <1>5, <1>6

\* The vector of a path begins with the one of a beginning of the path.
LEMMA PrefixBits ==
  ASSUME NEW p \in Seq(PathItems), NEW value \in RegisterValues,
         NEW i \in 0..Len(p), NEW j \in i..Len(p), NEW k \in 1..Off(p, i)
  PROVE  Concatenated(SubSeq(p, 1, j), value)[k] = Concatenated(SubSeq(p, 1, i), value)[k]
<1> DEFINE C(m) == Concatenated(SubSeq(p, 1, m), value)
           T == {d \in Nat : i + d <= Len(p) => C(i + d)[k] = C(i)[k]}
<1>1. \A m \in 0..Len(p) : C(m) \in Seq(Bits) /\ Len(C(m)) = Off(p, m) /\ Off(p, m) \in Nat
  BY ConcatenatedSteps, PrefixLen
<1>2. \A m \in 1..Len(p) : C(m) = C(m - 1) \o Piece(p[m], value) /\ Piece(p[m], value) \in Seq(Bits)
  BY ConcatenatedSteps, PieceType, SMTT(60)
<1> HIDE DEF C
<1>3. 0 \in T
  OBVIOUS
<1>4. ASSUME NEW d \in T PROVE d + 1 \in T
  <2>1. CASE i + (d + 1) <= Len(p)
    <3>1. i + (d + 1) \in 1..Len(p) /\ (i + (d + 1)) - 1 = i + d /\ i + d \in 0..Len(p)
          /\ i + d \in i..Len(p)
      BY <2>1
    <3>2. C(i + (d + 1)) = C(i + d) \o Piece(p[i + (d + 1)], value)
          /\ Piece(p[i + (d + 1)], value) \in Seq(Bits) /\ C(i + d) \in Seq(Bits)
      BY <1>1, <1>2, <3>1
    <3>3. Off(p, i) <= Off(p, i + d) /\ Off(p, i) \in Nat
      BY <1>1, <3>1, OffMonotonic
    <3>4. k \in 1..Len(C(i + d)) /\ k \in 1..(Len(C(i + d)) + Len(Piece(p[i + (d + 1)], value)))
      BY <1>1, <3>1, <3>2, <3>3, LenProperties, SMTT(60)
    <3>5. C(i + (d + 1))[k] = C(i + d)[k]
      BY <3>2, <3>4, ConcatProperties
    <3>6. C(i + d)[k] = C(i)[k]
      BY <3>1
    <3> QED BY <3>5, <3>6
  <2>2. CASE ~(i + (d + 1) <= Len(p))
    BY <2>2
  <2> QED BY <2>1, <2>2
<1>5. T = Nat
  <2> HIDE DEF T
  <2>1. T \in SUBSET Nat
    BY DEF T
  <2> QED BY <1>3, <1>4, <2>1, ToSut!NatSetInduction
<1>6. j - i \in Nat /\ i + (j - i) = j
  OBVIOUS
<1>7. j - i \in T
  BY <1>5, <1>6
<1> QED BY <1>6, <1>7 DEF C

\* The vector of a path, and the slice of each register in it.
LEMMA VectorOfPath ==
  ASSUME NEW p \in Seq(PathItems), NEW value \in RegisterValues
  PROVE  /\ Concatenated(p, value) \in BitVectors(Off(p, Len(p)))
         /\ Len(Concatenated(p, value)) = Off(p, Len(p))
         /\ \A i \in 1..Len(p), r \in Registers : p[i] = Scan(r) =>
              /\ Off(p, i) = Off(p, i - 1) + Width[r]
              /\ \A k \in 1..Width[r] : Concatenated(p, value)[Off(p, i - 1) + k] = value[r][k]
<1> DEFINE C(m) == Concatenated(SubSeq(p, 1, m), value)
<1>1. \A m \in 0..Len(p) : C(m) \in Seq(Bits) /\ Len(C(m)) = Off(p, m) /\ Off(p, m) \in Nat
  BY ConcatenatedSteps, PrefixLen
<1>2. Concatenated(p, value) = C(Len(p)) /\ Len(p) \in 0..Len(p)
  <2>1. SubSeq(p, 1, Len(p)) = p
    BY SubSeqFull
  <2>2. Len(p) \in 0..Len(p)
    BY LenProperties
  <2> QED BY <2>1, <2>2
<1>3. ASSUME NEW i \in 1..Len(p), NEW r \in Registers, p[i] = Scan(r)
      PROVE  /\ Off(p, i) = Off(p, i - 1) + Width[r]
             /\ \A k \in 1..Width[r] : C(Len(p))[Off(p, i - 1) + k] = value[r][k]
  <2>1. p[i][1] = "register" /\ p[i][2] = r /\ i - 1 \in 0..Len(p) /\ i \in 0..Len(p)
        /\ Len(p) \in i..Len(p)
    BY <1>3 DEF Scan
  <2>2. value[r] \in Seq(Bits) /\ Len(value[r]) = Width[r] /\ Width[r] \in Nat
    BY BitVectorSeq, NodesAssumption DEF RegisterValues
  <2>3. Off(p, i) = Off(p, i - 1) + Width[r]
    BY <2>1, OffSteps DEF ItemWidth
  <2>4. C(i) = C(i - 1) \o value[r] /\ C(i - 1) \in Seq(Bits)
    BY <2>1, ConcatenatedSteps DEF Piece
  <2> HIDE DEF C
  <2>5. ASSUME NEW k \in 1..Width[r] PROVE C(Len(p))[Off(p, i - 1) + k] = value[r][k]
    <3>0. Off(p, i - 1) \in Nat /\ Len(C(i - 1)) = Off(p, i - 1) /\ k \in Nat
      BY <1>1, <2>1, <2>2
    <3>1. Off(p, i - 1) + k \in 1..Off(p, i)
      BY <2>2, <2>3, <3>0
    <3>2. C(Len(p))[Off(p, i - 1) + k] = C(i)[Off(p, i - 1) + k]
      BY <2>1, <3>1, PrefixBits DEF C
    <3>3. Off(p, i - 1) + k \in 1..(Len(C(i - 1)) + Len(value[r]))
          /\ ~(Off(p, i - 1) + k <= Len(C(i - 1)))
          /\ (Off(p, i - 1) + k) - Len(C(i - 1)) = k
      BY <2>2, <2>3, <3>0, <3>1
    <3>4. C(i)[Off(p, i - 1) + k] = value[r][k]
      <4>1. (C(i - 1) \o value[r])[Off(p, i - 1) + k]
              = value[r][(Off(p, i - 1) + k) - Len(C(i - 1))]
        BY <2>2, <2>4, <3>3, ConcatProperties
      <4> QED BY <2>4, <3>3, <4>1
    <3> QED BY <3>2, <3>4
  <2> QED BY <2>3, <2>5
<1> HIDE DEF C
<1>4. Concatenated(p, value) \in BitVectors(Off(p, Len(p)))
  BY <1>1, <1>2, BitVectorSeq
<1> QED BY <1>1, <1>2, <1>3, <1>4

-------------------------------------------------------------------------------
(* Where streamers begin and end *)

\* The same as Begin and End, from the path alone.
BeginOf(p, s) == Off(p, Position(p, Enter(s)) - 1)
EndOf(p, s)   == Off(p, Position(p, Leave(s)) - 1)
VectorLen(p)  == Off(p, Len(p))

\* An item of a path is found at its position.
LEMMA PositionOfItem ==
  ASSUME NEW p \in Paths, NEW item \in Range(p)
  PROVE  /\ p \in Seq(PathItems)
         /\ Position(p, item) \in 1..Len(p) /\ p[Position(p, item)] = item
<1>1. p \in Seq(PathItems)
  BY PathsAssumption
<1>2. DOMAIN p = 1..Len(p)
  BY <1>1, LenProperties
<1>3. \E i \in DOMAIN p : p[i] = item
  BY DEF Range
<1> QED BY <1>1, <1>2, <1>3 DEF Position

\* A streamer of a path has both its ends there.
LEMMA EndsOfStreamer ==
  ASSUME NEW p \in Paths, NEW s \in Streamers \cap OnPath(p)
  PROVE  /\ Enter(s) \in Range(p) /\ Leave(s) \in Range(p)
         /\ BeginOf(p, s) \in Nat /\ EndOf(p, s) \in Nat /\ VectorLen(p) \in Nat
         /\ BeginOf(p, s) <= EndOf(p, s) /\ EndOf(p, s) <= VectorLen(p)
<1>1. p \in Seq(PathItems) /\ DOMAIN p = 1..Len(p) /\ Len(p) \in Nat
  BY PathsAssumption, LenProperties
<1>2. Enter(s) \in Range(p)
  <2>1. PICK i \in DOMAIN p : p[i] \in {Scan(s), Enter(s)}
    BY DEF OnPath
  <2>2. p[i] # Scan(s)
    <3>1. p[i] \in PathItems
      BY <1>1, <2>1, ElementOfSeq
    <3>2. s \notin Registers
      BY NodesAssumption
    <3> QED BY <3>1, <3>2, ItemKinds DEF Scan
  <2> QED BY <2>1, <2>2 DEF Range
<1>3. Leave(s) \in Range(p)
  BY <1>2, PathsAssumption
<1> DEFINE i == Position(p, Enter(s))
           j == Position(p, Leave(s))
<1>4. i \in 1..Len(p) /\ j \in 1..Len(p)
  BY <1>2, <1>3, PositionOfItem
<1>5. i < j
  BY PathsAssumption
<1> HIDE DEF i, j
<1>6. i - 1 \in 0..Len(p) /\ j - 1 \in (i - 1)..Len(p) /\ j - 1 \in 0..Len(p)
      /\ Len(p) \in (j - 1)..Len(p) /\ Len(p) \in 0..Len(p)
  BY <1>1, <1>4, <1>5
<1>7. Off(p, i - 1) \in Nat /\ Off(p, j - 1) \in Nat /\ Off(p, Len(p)) \in Nat
  BY <1>1, <1>6, ZeroType, PrefixLen
<1>8. Off(p, i - 1) <= Off(p, j - 1) /\ Off(p, j - 1) <= Off(p, Len(p))
  BY <1>1, <1>6, OffMonotonic
<1> QED BY <1>2, <1>3, <1>7, <1>8 DEF BeginOf, EndOf, VectorLen, i, j

\* An item has the offset that its position gives it.
LEMMA OffsetOfItem ==
  ASSUME NEW p \in Paths, NEW item \in Range(p), next \in RegisterValues
  PROVE  Offset(p, item) = Off(p, Position(p, item) - 1)
<1>1. p \in Seq(PathItems) /\ Position(p, item) \in 1..Len(p) /\ Len(p) \in Nat
  BY PositionOfItem, LenProperties
<1>2. Position(p, item) - 1 \in 0..Len(p)
  BY <1>1
<1> QED BY <1>1, <1>2, PrefixLen DEF Offset

\* Begin and End do not depend on the values of the registers.
LEMMA BeginAndEnd ==
  ASSUME NEW p \in Paths, NEW s \in Streamers \cap OnPath(p), next \in RegisterValues
  PROVE  Begin(p, s) = BeginOf(p, s) /\ End(p, s) = EndOf(p, s)
BY OffsetOfItem, EndsOfStreamer DEF Begin, End, BeginOf, EndOf

-------------------------------------------------------------------------------
(* ApplyStreamer *)

\* A slice within a vector.
LEMMA SliceBits ==
  ASSUME NEW n \in Nat, NEW v \in BitVectors(n), NEW o \in Nat, NEW c \in Nat, o + c <= n
  PROVE  Slice(v, o, c) \in BitVectors(c) /\ \A i \in 1..c : Slice(v, o, c)[i] = v[o + i]
<1>1. \A i \in (o + 1)..(o + c) : v[i] \in Bits
  BY DEF BitVectors
<1>2. /\ SubSeq(v, o + 1, o + c) \in Seq(Bits)
      /\ Len(SubSeq(v, o + 1, o + c)) = c
      /\ \A i \in 1..c : SubSeq(v, o + 1, o + c)[i] = v[o + i]
  <2>1. o + 1 \in Int /\ o + c \in Int /\ (o + c) - (o + 1) + 1 = c
        /\ (IF o + 1 <= o + c THEN (o + c) - (o + 1) + 1 ELSE 0) = c
        /\ \A i \in 1..c : (o + 1) + i - 1 = o + i
    OBVIOUS
  <2> QED BY <1>1, <2>1, SubSeqProperties
<1> QED BY <1>2, BitVectorSeq DEF Slice

\* The mask of a streamer that does not cipher is zero.
MaskFor(s, mask, n) == mask \in BitVectors(n) /\ (Kind[s] = "Transparent" => mask = Zeroes(n))

\* A slice of such a mask is one.
LEMMA SliceOfMask ==
  ASSUME NEW s \in Streamers, NEW n \in Nat, NEW mask, MaskFor(s, mask, n),
         NEW o \in Nat, NEW c \in Nat, o + c <= n
  PROVE  MaskFor(s, Slice(mask, o, c), c) /\ \A i \in 1..c : Slice(mask, o, c)[i] = mask[o + i]
<1>1. Slice(mask, o, c) \in BitVectors(c) /\ \A i \in 1..c : Slice(mask, o, c)[i] = mask[o + i]
  BY SliceBits DEF MaskFor
<1>2. ASSUME Kind[s] = "Transparent" PROVE Slice(mask, o, c) = Zeroes(c)
  <2>1. \A i \in 1..n : mask[i] = 0
    BY <1>2 DEF MaskFor, Zeroes
  <2>2. \A i \in 1..c : Slice(mask, o, c)[i] = 0
    BY <1>1, <2>1
  <2> QED BY <1>1, <2>2 DEF BitVectors, Zeroes
<1> QED BY <1>1, <1>2 DEF MaskFor

\* Both protocols add the mask.
LEMMA ApplyMaskBits ==
  ASSUME NEW s \in Streamers, NEW n \in Nat, NEW text \in BitVectors(n), NEW mask,
         MaskFor(s, mask, n)
  PROVE  /\ ApplyMask(s, text, mask) \in BitVectors(n)
         /\ \A i \in 1..n : ApplyMask(s, text, mask)[i] = (text[i] + mask[i]) % 2
<1>1. DOMAIN text = 1..n /\ \A i \in 1..n : text[i] \in {0, 1} /\ mask[i] \in {0, 1}
  BY DEF MaskFor, BitVectors, Bits
<1>2. Kind[s] # "Trivium" => \A i \in 1..n : mask[i] = 0
  BY NodesAssumption DEF MaskFor, Zeroes
<1>3. \A i \in 1..n : (IF Kind[s] = "Trivium" THEN (text[i] + mask[i]) % 2
                       ELSE IF text[i] + mask[i] > 0 THEN 1 ELSE 0) = (text[i] + mask[i]) % 2
  <2> TAKE i \in 1..n
  <2>1. CASE Kind[s] = "Trivium"
    BY <2>1
  <2>2. CASE Kind[s] # "Trivium"
    BY <1>1, <1>2, <2>2
  <2> QED BY <2>1, <2>2
<1>4. \A i \in 1..n : (text[i] + mask[i]) % 2 \in {0, 1}
  BY <1>1
<1>5. ApplyMask(s, text, mask) = [i \in 1..n |-> (text[i] + mask[i]) % 2]
  BY <1>1, <1>3 DEF ApplyMask
<1> QED BY <1>4, <1>5 DEF BitVectors, Bits

\* Three vectors in a row.
InARow(a, b, c) == a \o b \o c

\* What is where in them.
Parts(v, x, y, z, a, b, c) ==
  /\ v \in BitVectors(x + y + z)
  /\ \A k \in 1..x : v[k] = a[k]
  /\ \A k \in (x + 1)..(x + y) : v[k] = b[k - x]
  /\ \A k \in (x + y + 1)..(x + y + z) : v[k] = c[k - (x + y)]

\* That is what concatenation does.
LEMMA ThreeParts ==
  ASSUME NEW x \in Nat, NEW y \in Nat, NEW z \in Nat,
         NEW a \in BitVectors(x), NEW b \in BitVectors(y), NEW c \in BitVectors(z)
  PROVE  Parts(InARow(a, b, c), x, y, z, a, b, c)
<1>1. a \in Seq(Bits) /\ b \in Seq(Bits) /\ c \in Seq(Bits) /\ Len(a) = x /\ Len(b) = y /\ Len(c) = z
  BY BitVectorSeq
<1> DEFINE ab == a \o b
<1>2. /\ ab \in Seq(Bits) /\ Len(ab) = x + y
      /\ \A k \in 1..(x + y) : ab[k] = IF k <= x THEN a[k] ELSE b[k - x]
  BY <1>1, ConcatProperties
<1> HIDE DEF ab
<1> DEFINE xy == x + y
           n  == xy + z
<1>a. xy \in Nat /\ n \in Nat
  OBVIOUS
<1>3. /\ ab \o c \in Seq(Bits) /\ Len(ab \o c) = n
      /\ \A k \in 1..n : (ab \o c)[k] = IF k <= xy THEN ab[k] ELSE c[k - xy]
  <2>1. Len(ab) = xy
    BY <1>2
  <2> HIDE DEF xy
  <2> QED BY <1>1, <1>2, <2>1, ConcatProperties
<1>4. ab \o c \in BitVectors(x + y + z)
  <2>1. ab \o c \in BitVectors(n)
    <3> HIDE DEF n
    <3> QED BY <1>3, <1>a, BitVectorSeq
  <2> QED BY <2>1
<1>5. \A k \in 1..x : (ab \o c)[k] = a[k]
  BY <1>2, <1>3
<1>6. \A k \in (x + 1)..(x + y) : (ab \o c)[k] = b[k - x]
  BY <1>2, <1>3
<1>7. \A k \in (x + y + 1)..(x + y + z) : (ab \o c)[k] = c[k - (x + y)]
  BY <1>2, <1>3
<1> QED BY <1>4, <1>5, <1>6, <1>7 DEF ab, InARow, Parts

\* The mask bit a bit for cell k meets at an end of the segment that is e bits
\* into the vector, 0 when it does not get there.
MaskToSut(mask, k, e) == IF k > e THEN mask[k - e] ELSE 0

\* Each bit on its way in gets the mask bits of the ends it passes.
LEMMA ApplyStreamerToSutBits ==
  ASSUME NEW p \in Paths, NEW s \in Streamers \cap OnPath(p), next \in RegisterValues,
         NEW n \in Nat, n = VectorLen(p), NEW vector \in BitVectors(n),
         NEW mask, MaskFor(s, mask, n), BeginOf(p, s) < EndOf(p, s)
  PROVE  /\ ApplyStreamerToSut(p, s, vector, mask) \in BitVectors(n)
         /\ \A k \in 1..n : ApplyStreamerToSut(p, s, vector, mask)[k]
              = (vector[k] + MaskToSut(mask, k, BeginOf(p, s)) + MaskToSut(mask, k, EndOf(p, s))) % 2
<1> DEFINE b  == BeginOf(p, s)
           e  == EndOf(p, s)
           d  == e - b
           a  == n - e
           v1 == Slice(vector, 0, b)
           v2 == ApplyMask(s, Slice(vector, b, d), Slice(mask, 0, d))
           v3 == ApplyMask(s, Slice(vector, e, a), Slice(mask, 0, a))
           v4 == ApplyMask(s, v3, Slice(mask, d, a))
<1>1. b \in Nat /\ e \in Nat /\ b < e /\ e <= n /\ d \in Nat /\ a \in Nat
  BY EndsOfStreamer
<1>2. Begin(p, s) = b /\ End(p, s) = e /\ Len(vector) = n
  BY BeginAndEnd, BitVectorSeq
<1>3. ApplyStreamerToSut(p, s, vector, mask) = InARow(v1, v2, v4)
  BY <1>2 DEF ApplyStreamerToSut, InARow
<1> HIDE DEF b, e
<1>4. v1 \in BitVectors(b) /\ \A k \in 1..b : v1[k] = vector[k]
  <2>1. 0 + b <= n
    BY <1>1
  <2>2. v1 \in BitVectors(b) /\ \A k \in 1..b : v1[k] = vector[0 + k]
    BY <1>1, <2>1, SliceBits
  <2> QED BY <2>2
<1>5. v2 \in BitVectors(d) /\ \A k \in 1..d : v2[k] = (vector[b + k] + mask[k]) % 2
  <2>1. b + d <= n /\ 0 + d <= n
    BY <1>1
  <2> HIDE DEF d
  <2>2. Slice(vector, b, d) \in BitVectors(d) /\ \A k \in 1..d : Slice(vector, b, d)[k] = vector[b + k]
    BY <1>1, <2>1, SliceBits
  <2>3. MaskFor(s, Slice(mask, 0, d), d) /\ \A k \in 1..d : Slice(mask, 0, d)[k] = mask[0 + k]
    BY <1>1, <2>1, SliceOfMask
  <2>4. v2 \in BitVectors(d)
        /\ \A k \in 1..d : v2[k] = (Slice(vector, b, d)[k] + Slice(mask, 0, d)[k]) % 2
    BY <1>1, <2>2, <2>3, ApplyMaskBits
  <2>5. \A k \in 1..d : 0 + k = k
    OBVIOUS
  <2> HIDE DEF v2
  <2> QED BY <2>2, <2>3, <2>4, <2>5
<1>6. v3 \in BitVectors(a) /\ \A k \in 1..a : v3[k] = (vector[e + k] + mask[k]) % 2
  <2>1. e + a <= n /\ 0 + a <= n
    BY <1>1
  <2> HIDE DEF a
  <2>2. Slice(vector, e, a) \in BitVectors(a) /\ \A k \in 1..a : Slice(vector, e, a)[k] = vector[e + k]
    BY <1>1, <2>1, SliceBits
  <2>3. MaskFor(s, Slice(mask, 0, a), a) /\ \A k \in 1..a : Slice(mask, 0, a)[k] = mask[0 + k]
    BY <1>1, <2>1, SliceOfMask
  <2>4. v3 \in BitVectors(a)
        /\ \A k \in 1..a : v3[k] = (Slice(vector, e, a)[k] + Slice(mask, 0, a)[k]) % 2
    BY <1>1, <2>2, <2>3, ApplyMaskBits
  <2>5. \A k \in 1..a : 0 + k = k
    OBVIOUS
  <2> HIDE DEF v3
  <2> QED BY <2>2, <2>3, <2>4, <2>5
<1>7. v4 \in BitVectors(a)
      /\ \A k \in 1..a : v4[k] = (((vector[e + k] + mask[k]) % 2) + mask[d + k]) % 2
  <2>1. d + a <= n
    BY <1>1
  <2>2. MaskFor(s, Slice(mask, d, a), a) /\ \A k \in 1..a : Slice(mask, d, a)[k] = mask[d + k]
    BY <1>1, <2>1, SliceOfMask
  <2> HIDE DEF a, d, v3
  <2>3. v4 \in BitVectors(a) /\ \A k \in 1..a : v4[k] = (v3[k] + Slice(mask, d, a)[k]) % 2
    BY <1>1, <1>6, <2>2, ApplyMaskBits
  <2> HIDE DEF v4
  <2> QED BY <1>6, <2>2, <2>3
<1> HIDE DEF v1, v2, v3, v4
<1> DEFINE w == InARow(v1, v2, v4)
<1>8. /\ w \in BitVectors(b + d + a)
      /\ \A k \in 1..b : w[k] = v1[k]
      /\ \A k \in (b + 1)..(b + d) : w[k] = v2[k - b]
      /\ \A k \in (b + d + 1)..(b + d + a) : w[k] = v4[k - (b + d)]
  <2> HIDE DEF d, a
  <2>1. b \in Nat /\ d \in Nat /\ a \in Nat
    BY <1>1
  <2>2. v1 \in BitVectors(b) /\ v2 \in BitVectors(d) /\ v4 \in BitVectors(a)
    BY <1>4, <1>5, <1>7
  <2>3. Parts(w, b, d, a, v1, v2, v4)
    BY <2>1, <2>2, ThreeParts
  <2> HIDE DEF w
  <2> QED BY <2>3 DEF Parts
<1>9. b + d = e /\ b + d + a = n
  BY <1>1
<1> HIDE DEF w
<1>10. ASSUME NEW k \in 1..n
       PROVE  w[k] = (vector[k] + MaskToSut(mask, k, b) + MaskToSut(mask, k, e)) % 2
  <2>1. vector[k] \in {0, 1} /\ \A m \in 1..n : mask[m] \in {0, 1}
    BY DEF BitVectors, Bits, MaskFor
  <2>2. CASE k <= b
    <3>1. k \in 1..b /\ ~(k > b) /\ ~(k > e)
      BY <1>1, <2>2
    <3> QED BY <1>4, <1>8, <2>1, <3>1 DEF MaskToSut
  <2>3. CASE k > b /\ k <= e
    <3>1. k \in (b + 1)..e /\ k - b \in 1..d /\ b + (k - b) = k /\ ~(k > e)
      BY <1>1, <2>3
    <3>2. w[k] = (vector[k] + mask[k - b]) % 2
      <4> HIDE DEF d
      <4> QED BY <1>5, <1>8, <1>9, <3>1
    <3>3. k - b \in 1..n
      BY <1>1, <2>3
    <3>4. MaskToSut(mask, k, b) = mask[k - b] /\ MaskToSut(mask, k, e) = 0
      BY <2>3, <3>1 DEF MaskToSut
    <3>5. mask[k - b] \in {0, 1}
      BY <2>1, <3>3
    <3> QED BY <2>1, <3>2, <3>4, <3>5
  <2>4. CASE k > e
    <3>1. k \in (e + 1)..n /\ k - e \in 1..a /\ e + (k - e) = k /\ k > b /\ d + (k - e) = k - b
          /\ k - b \in 1..n /\ k - e \in 1..n
      BY <1>1, <2>4
    <3>2. w[k] = (((vector[k] + mask[k - e]) % 2) + mask[k - b]) % 2
      <4> HIDE DEF d, a
      <4> QED BY <1>7, <1>8, <1>9, <3>1
    <3>4. MaskToSut(mask, k, b) = mask[k - b] /\ MaskToSut(mask, k, e) = mask[k - e]
      BY <2>4, <3>1 DEF MaskToSut
    <3>5. mask[k - b] \in {0, 1} /\ mask[k - e] \in {0, 1}
      BY <2>1, <3>1
    <3> QED BY <2>1, <3>2, <3>4, <3>5
  <2> QED BY <1>1, <2>2, <2>3, <2>4
<1> QED BY <1>3, <1>8, <1>9, <1>10 DEF w, b, e

\* The mask bit a bit from cell q has met at such an end, 0 when it began behind it.
MaskFromSut(mask, n, q, e) == IF q <= e THEN mask[(n - e) + q] ELSE 0

\* Each bit on its way out gets the mask bits of the ends it has passed.
LEMMA ApplyStreamerFromSutBits ==
  ASSUME NEW p \in Paths, NEW s \in Streamers \cap OnPath(p), next \in RegisterValues,
         NEW n \in Nat, n = VectorLen(p), NEW vector \in BitVectors(n),
         NEW mask, MaskFor(s, mask, n), BeginOf(p, s) < EndOf(p, s)
  PROVE  /\ ApplyStreamerFromSut(p, s, vector, mask) \in BitVectors(n)
         /\ \A q \in 1..n : ApplyStreamerFromSut(p, s, vector, mask)[q]
              = (vector[q] + MaskFromSut(mask, n, q, BeginOf(p, s))
                           + MaskFromSut(mask, n, q, EndOf(p, s))) % 2
<1> DEFINE b  == BeginOf(p, s)
           e  == EndOf(p, s)
           d  == e - b
           a  == n - e
           x  == n - b
           y  == n - b - d
           z  == n - d
           v1 == ApplyMask(s, Slice(vector, 0, b), Slice(mask, x, b))
           v2 == ApplyMask(s, v1, Slice(mask, y, b))
           v3 == ApplyMask(s, Slice(vector, b, d), Slice(mask, z, d))
           v4 == Slice(vector, e, a)
<1>1. b \in Nat /\ e \in Nat /\ b < e /\ e <= n /\ d \in Nat /\ a \in Nat
      /\ x \in Nat /\ y \in Nat /\ z \in Nat
  BY EndsOfStreamer
<1>2. Begin(p, s) = b /\ End(p, s) = e /\ Len(vector) = n /\ Len(mask) = n
  BY BeginAndEnd, BitVectorSeq DEF MaskFor
<1>3. ApplyStreamerFromSut(p, s, vector, mask) = InARow(v2, v3, v4)
  BY <1>2 DEF ApplyStreamerFromSut, InARow
<1> HIDE DEF b, e
<1>4. v1 \in BitVectors(b) /\ \A k \in 1..b : v1[k] = (vector[k] + mask[x + k]) % 2
  <2>1. 0 + b <= n /\ x + b <= n
    BY <1>1
  <2> HIDE DEF x
  <2>2. Slice(vector, 0, b) \in BitVectors(b) /\ \A k \in 1..b : Slice(vector, 0, b)[k] = vector[0 + k]
    BY <1>1, <2>1, SliceBits
  <2>3. MaskFor(s, Slice(mask, x, b), b) /\ \A k \in 1..b : Slice(mask, x, b)[k] = mask[x + k]
    BY <1>1, <2>1, SliceOfMask
  <2>4. v1 \in BitVectors(b)
        /\ \A k \in 1..b : v1[k] = (Slice(vector, 0, b)[k] + Slice(mask, x, b)[k]) % 2
    BY <1>1, <2>2, <2>3, ApplyMaskBits
  <2>5. \A k \in 1..b : 0 + k = k
    OBVIOUS
  <2> HIDE DEF v1
  <2> QED BY <2>2, <2>3, <2>4, <2>5
<1>5. v2 \in BitVectors(b)
      /\ \A k \in 1..b : v2[k] = (((vector[k] + mask[x + k]) % 2) + mask[y + k]) % 2
  <2>1. y + b <= n
    BY <1>1
  <2> HIDE DEF x, y, v1
  <2>2. MaskFor(s, Slice(mask, y, b), b) /\ \A k \in 1..b : Slice(mask, y, b)[k] = mask[y + k]
    BY <1>1, <2>1, SliceOfMask
  <2>3. v2 \in BitVectors(b) /\ \A k \in 1..b : v2[k] = (v1[k] + Slice(mask, y, b)[k]) % 2
    BY <1>1, <1>4, <2>2, ApplyMaskBits
  <2> HIDE DEF v2
  <2> QED BY <1>4, <2>2, <2>3
<1>6. v3 \in BitVectors(d) /\ \A k \in 1..d : v3[k] = (vector[b + k] + mask[z + k]) % 2
  <2>1. b + d <= n /\ z + d <= n
    BY <1>1
  <2> HIDE DEF d, z
  <2>2. Slice(vector, b, d) \in BitVectors(d) /\ \A k \in 1..d : Slice(vector, b, d)[k] = vector[b + k]
    BY <1>1, <2>1, SliceBits
  <2>3. MaskFor(s, Slice(mask, z, d), d) /\ \A k \in 1..d : Slice(mask, z, d)[k] = mask[z + k]
    BY <1>1, <2>1, SliceOfMask
  <2>4. v3 \in BitVectors(d)
        /\ \A k \in 1..d : v3[k] = (Slice(vector, b, d)[k] + Slice(mask, z, d)[k]) % 2
    BY <1>1, <2>2, <2>3, ApplyMaskBits
  <2> HIDE DEF v3
  <2> QED BY <2>2, <2>3, <2>4
<1>7. v4 \in BitVectors(a) /\ \A k \in 1..a : v4[k] = vector[e + k]
  <2>1. e + a <= n
    BY <1>1
  <2> HIDE DEF a
  <2> QED BY <1>1, <2>1, SliceBits, SMTT(60)
<1> HIDE DEF v1, v2, v3, v4
<1> DEFINE w == InARow(v2, v3, v4)
<1>8. /\ w \in BitVectors(b + d + a)
      /\ \A k \in 1..b : w[k] = v2[k]
      /\ \A k \in (b + 1)..(b + d) : w[k] = v3[k - b]
      /\ \A k \in (b + d + 1)..(b + d + a) : w[k] = v4[k - (b + d)]
  <2> HIDE DEF d, a
  <2>1. b \in Nat /\ d \in Nat /\ a \in Nat
    BY <1>1
  <2>2. v2 \in BitVectors(b) /\ v3 \in BitVectors(d) /\ v4 \in BitVectors(a)
    BY <1>5, <1>6, <1>7
  <2>3. Parts(w, b, d, a, v2, v3, v4)
    BY <2>1, <2>2, ThreeParts
  <2> HIDE DEF w
  <2> QED BY <2>3 DEF Parts
<1>9. b + d = e /\ b + d + a = n
  BY <1>1
<1> HIDE DEF w
<1>10. ASSUME NEW q \in 1..n
       PROVE  w[q] = (vector[q] + MaskFromSut(mask, n, q, b) + MaskFromSut(mask, n, q, e)) % 2
  <2>1. vector[q] \in {0, 1} /\ \A m \in 1..n : mask[m] \in {0, 1}
    BY DEF BitVectors, Bits, MaskFor
  <2>2. CASE q <= b
    <3>1. q \in 1..b /\ q <= e /\ y + q = (n - e) + q /\ x + q = (n - b) + q
          /\ (n - b) + q \in 1..n /\ (n - e) + q \in 1..n
      BY <1>1, <2>2
    <3>2. w[q] = (((vector[q] + mask[(n - b) + q]) % 2) + mask[(n - e) + q]) % 2
      <4> HIDE DEF x, y
      <4> QED BY <1>5, <1>8, <3>1
    <3>3. MaskFromSut(mask, n, q, b) = mask[(n - b) + q] /\ MaskFromSut(mask, n, q, e) = mask[(n - e) + q]
      BY <2>2, <3>1 DEF MaskFromSut
    <3>4. mask[(n - b) + q] \in {0, 1} /\ mask[(n - e) + q] \in {0, 1}
      BY <2>1, <3>1
    <3> QED BY <2>1, <3>2, <3>3, <3>4
  <2>3. CASE q > b /\ q <= e
    <3>1. q \in (b + 1)..e /\ q - b \in 1..d /\ b + (q - b) = q /\ ~(q <= b)
          /\ z + (q - b) = (n - e) + q /\ (n - e) + q \in 1..n
      BY <1>1, <2>3
    <3>2. w[q] = (vector[q] + mask[(n - e) + q]) % 2
      <4> HIDE DEF d, z
      <4> QED BY <1>6, <1>8, <1>9, <3>1
    <3>3. MaskFromSut(mask, n, q, b) = 0 /\ MaskFromSut(mask, n, q, e) = mask[(n - e) + q]
      BY <2>3, <3>1 DEF MaskFromSut
    <3>4. mask[(n - e) + q] \in {0, 1}
      BY <2>1, <3>1
    <3> QED BY <2>1, <3>2, <3>3, <3>4
  <2>4. CASE q > e
    <3>1. q \in (e + 1)..n /\ q - e \in 1..a /\ e + (q - e) = q /\ ~(q <= b) /\ ~(q <= e)
      BY <1>1, <2>4
    <3>2. w[q] = vector[q]
      <4> HIDE DEF d, a
      <4> QED BY <1>7, <1>8, <1>9, <3>1
    <3>3. MaskFromSut(mask, n, q, b) = 0 /\ MaskFromSut(mask, n, q, e) = 0
      BY <3>1 DEF MaskFromSut
    <3> QED BY <2>1, <3>2, <3>3
  <2> QED BY <1>1, <2>2, <2>3, <2>4
<1> QED BY <1>3, <1>8, <1>9, <1>10 DEF w, b, e

-------------------------------------------------------------------------------
(* The keystream bits that a bit meets on its way *)

\* A streamer with a cipher begins or ends here.
Ciphering(item) == item[1] \in {"in", "out"} /\ Kind[item[2]] = "Trivium"

\* The ends of the streamers of U from offset lo on and in front of hi where a bit
\* meets a 1 of the keystream, when it passes offset o with bit o + d of it.
CrossedBy(p, K, U, lo, hi, d) ==
  {x \in 1..Len(p) : /\ Ciphering(p[x]) /\ p[x][2] \in U
                     /\ lo <= Off(p, x - 1) /\ Off(p, x - 1) < hi
                     /\ K[p[x][2]][Off(p, x - 1) + d] = 1}

\* Their number, for all streamers.
Crossed(p, K, lo, hi, d) == Cardinality(CrossedBy(p, K, Streamers, lo, hi, d))

\* What one end, at offset o, contributes.
KeyBit(K, s, o, lo, hi, d) ==
  IF Kind[s] = "Trivium" /\ lo <= o /\ o < hi /\ K[s][o + d] = 1 THEN 1 ELSE 0

\* The set of x, when c.
When(c, x) == {z \in {x} : c}

\* One element more counts one more, if it is there.
LEMMA CountWhen ==
  ASSUME NEW S, IsFiniteSet(S), NEW x, x \notin S, NEW c \in BOOLEAN
  PROVE  /\ IsFiniteSet(S \cup When(c, x))
         /\ Cardinality(S \cup When(c, x)) = Cardinality(S) + (IF c THEN 1 ELSE 0)
<1>1. CASE c
  <2>1. When(c, x) = {x}
    BY <1>1 DEF When
  <2>2. IsFiniteSet(S \cup {x}) /\ Cardinality(S \cup {x}) = Cardinality(S) + 1
    BY FS_AddElement
  <2> QED BY <1>1, <2>1, <2>2
<1>2. CASE ~c
  <2>1. S \cup When(c, x) = S
    BY <1>2 DEF When
  <2>2. Cardinality(S) = Cardinality(S) + 0
    BY FS_CardinalityType
  <2> QED BY <1>2, <2>1, <2>2
<1> QED BY <1>1, <1>2, Zenon

\* The set is finite.
LEMMA CrossedFinite ==
  ASSUME NEW p \in Seq(PathItems), NEW K, NEW U, NEW lo, NEW hi, NEW d
  PROVE  /\ IsFiniteSet(CrossedBy(p, K, U, lo, hi, d))
         /\ Cardinality(CrossedBy(p, K, U, lo, hi, d)) \in Nat
<1>1. IsFiniteSet(1..Len(p))
  BY FS_Interval
<1>2. CrossedBy(p, K, U, lo, hi, d) \in SUBSET (1..Len(p))
  BY DEF CrossedBy
<1> QED BY <1>1, <1>2, FS_Subset, FS_CardinalityType

\* A streamer has the ends that Position finds, and no other.
LEMMA OnlyEnds ==
  ASSUME NEW p \in Paths, NEW s \in Streamers \cap OnPath(p), NEW x \in 1..Len(p)
  PROVE  (p[x][1] \in {"in", "out"} /\ p[x][2] = s)
           <=> x \in {Position(p, Enter(s)), Position(p, Leave(s))}
<1>1. p \in Seq(PathItems) /\ DOMAIN p = 1..Len(p) /\ IsInjective(p)
  BY PathsAssumption, LenProperties
<1>2. /\ Position(p, Enter(s)) \in 1..Len(p) /\ p[Position(p, Enter(s))] = Enter(s)
      /\ Position(p, Leave(s)) \in 1..Len(p) /\ p[Position(p, Leave(s))] = Leave(s)
  BY EndsOfStreamer, PositionOfItem
<1>3. \A y \in 1..Len(p) : p[x] = p[y] => x = y
  BY <1>1 DEF IsInjective
<1>4. ASSUME p[x][1] \in {"in", "out"}, p[x][2] = s PROVE p[x] \in {Enter(s), Leave(s)}
  <2>1. p[x] \in PathItems
    BY <1>1
  <2> QED BY <1>4, <2>1, ItemKinds
<1>5. ASSUME p[x] \in {Enter(s), Leave(s)} PROVE p[x][1] \in {"in", "out"} /\ p[x][2] = s
  BY <1>5 DEF Enter, Leave
<1> QED BY <1>2, <1>3, <1>4, <1>5

\* One streamer more adds its two ends.
LEMMA AddStreamer ==
  ASSUME NEW p \in Paths, NEW s \in Streamers \cap OnPath(p), NEW U, s \notin U,
         NEW K, NEW lo, NEW hi, NEW d
  PROVE  Cardinality(CrossedBy(p, K, U \cup {s}, lo, hi, d))
           = Cardinality(CrossedBy(p, K, U, lo, hi, d))
               + KeyBit(K, s, BeginOf(p, s), lo, hi, d) + KeyBit(K, s, EndOf(p, s), lo, hi, d)
<1> DEFINE i == Position(p, Enter(s))
           j == Position(p, Leave(s))
           C == CrossedBy(p, K, U, lo, hi, d)
           c(o) == Kind[s] = "Trivium" /\ lo <= o /\ o < hi /\ K[s][o + d] = 1
<1>1. p \in Seq(PathItems) /\ Len(p) \in Nat
  BY PathsAssumption, LenProperties
<1>2. /\ i \in 1..Len(p) /\ j \in 1..Len(p) /\ i < j
  BY EndsOfStreamer, PositionOfItem, PathsAssumption
<1>3. \A x \in 1..Len(p) : (p[x][1] \in {"in", "out"} /\ p[x][2] = s) <=> x \in {i, j}
  BY OnlyEnds
<1>4. BeginOf(p, s) = Off(p, i - 1) /\ EndOf(p, s) = Off(p, j - 1)
  BY DEF BeginOf, EndOf
<1> HIDE DEF i, j
<1>5. i \notin C /\ j \notin C
  BY <1>3 DEF CrossedBy
<1>6. \A x \in {i, j} : Ciphering(p[x]) <=> Kind[s] = "Trivium"
  BY <1>2, <1>3 DEF Ciphering
<1>7. CrossedBy(p, K, U \cup {s}, lo, hi, d)
        = (C \cup When(c(Off(p, i - 1)), i)) \cup When(c(Off(p, j - 1)), j)
  <2>1. ASSUME NEW x \in 1..Len(p), x \notin {i, j}
        PROVE  x \in CrossedBy(p, K, U \cup {s}, lo, hi, d) <=> x \in C
    <3>1. Ciphering(p[x]) => p[x][2] # s
      BY <1>3, <2>1 DEF Ciphering
    <3> QED BY <3>1 DEF CrossedBy
  <2>2. ASSUME NEW x \in {i, j}
        PROVE  x \in CrossedBy(p, K, U \cup {s}, lo, hi, d) <=> c(Off(p, x - 1))
    <3>1. p[x][2] = s /\ x \in 1..Len(p)
      BY <1>2, <1>3
    <3> QED BY <1>6, <3>1 DEF CrossedBy
  <2>3. C \subseteq 1..Len(p) /\ CrossedBy(p, K, U \cup {s}, lo, hi, d) \subseteq 1..Len(p)
    BY DEF CrossedBy
  <2> HIDE DEF C, c
  <2> QED BY <1>2, <1>5, <2>1, <2>2, <2>3 DEF When
<1>8. IsFiniteSet(C) /\ Cardinality(C) \in Nat
  BY <1>1, CrossedFinite
<1>9. c(Off(p, i - 1)) \in BOOLEAN /\ c(Off(p, j - 1)) \in BOOLEAN
  OBVIOUS
<1>10. /\ KeyBit(K, s, BeginOf(p, s), lo, hi, d) = (IF c(Off(p, i - 1)) THEN 1 ELSE 0)
       /\ KeyBit(K, s, EndOf(p, s), lo, hi, d) = (IF c(Off(p, j - 1)) THEN 1 ELSE 0)
  BY <1>4 DEF KeyBit
<1> DEFINE D == C \cup When(c(Off(p, i - 1)), i)
<1> HIDE DEF C, c
<1>11. IsFiniteSet(D) /\ Cardinality(D) = Cardinality(C) + (IF c(Off(p, i - 1)) THEN 1 ELSE 0)
  BY <1>5, <1>8, <1>9, CountWhen
<1>12. j \notin D
  BY <1>2, <1>5 DEF When
<1> HIDE DEF D
<1>13. Cardinality(D \cup When(c(Off(p, j - 1)), j))
         = Cardinality(D) + (IF c(Off(p, j - 1)) THEN 1 ELSE 0)
  BY <1>9, <1>11, <1>12, CountWhen
<1> QED BY <1>7, <1>8, <1>10, <1>11, <1>13 DEF D, C

\* What is crossed on two stretches of the way.
LEMMA CrossedInTwo ==
  ASSUME NEW p \in Seq(PathItems), NEW K, NEW d,
         NEW lo \in Int, NEW mid \in Int, NEW hi \in Int, lo <= mid, mid <= hi
  PROVE  /\ Crossed(p, K, lo, hi, d) = Crossed(p, K, lo, mid, d) + Crossed(p, K, mid, hi, d)
         /\ Crossed(p, K, lo, mid, d) \in Nat /\ Crossed(p, K, mid, hi, d) \in Nat
<1> DEFINE A == CrossedBy(p, K, Streamers, lo, mid, d)
           B == CrossedBy(p, K, Streamers, mid, hi, d)
<1>1. \A x \in 1..Len(p) : Off(p, x - 1) \in Nat
  BY ZeroType, PrefixLen
<1>2. CrossedBy(p, K, Streamers, lo, hi, d) = A \cup B
  BY <1>1 DEF CrossedBy
<1>3. A \cap B = {}
  BY <1>1 DEF CrossedBy
<1>4. IsFiniteSet(A) /\ IsFiniteSet(B) /\ Cardinality(A) \in Nat /\ Cardinality(B) \in Nat
  BY CrossedFinite
<1> HIDE DEF A, B
<1>5. Cardinality(A \cup B) = Cardinality(A) + Cardinality(B) - Cardinality(A \cap B)
  BY <1>4, FS_Union
<1>6. Cardinality(A \cap B) = 0
  BY <1>3, FS_EmptySet
<1> QED BY <1>2, <1>4, <1>5, <1>6 DEF Crossed, A, B

-------------------------------------------------------------------------------
(* The SUT ciphers with the bits that are crossed *)

\* The segments of a path are not empty.
Segments(p) == \A s \in Streamers \cap OnPath(p) : BeginOf(p, s) < EndOf(p, s)

\* One streamer more, in the fold of Ciphered.
CipherStep(c, b, s) == (b + c[1][s][c[2][s] + 1]) % 2

\* The lemmas on folds, for the streamers of the SUT.
Sut == INSTANCE FoldLemmas WITH Op <- CipherStep

\* The streamers a bit passes when it moves into cell i + 1.
Passing(p, i) ==
  {s \in Streamers \cap OnPath(p) : Kind[s] = "Trivium" /\ i \in {BeginOf(p, s), EndOf(p, s)}}

\* A path has finitely many streamers.
LEMMA StreamersFinite ==
  ASSUME NEW p \in Paths
  PROVE  IsFiniteSet(Streamers \cap OnPath(p))
<1> DEFINE S == Streamers \cap OnPath(p)
           f == [s \in S |-> Position(p, Enter(s))]
<1>1. \A s \in S : Position(p, Enter(s)) \in 1..Len(p) /\ p[Position(p, Enter(s))] = Enter(s)
  BY EndsOfStreamer, PositionOfItem
<1>2. \A s, u \in S : Enter(s) = Enter(u) => s = u
  BY DEF Enter
<1>3. f \in Injection(S, 1..Len(p))
  BY <1>1, <1>2 DEF Injection, IsInjective
<1>4. IsFiniteSet(1..Len(p))
  BY PathsAssumption, LenProperties, FS_Interval
<1> HIDE DEF f
<1> QED BY <1>3, <1>4, FS_Injection

\* Ciphered folds over the streamers that are passed.
LEMMA CipheredFold ==
  ASSUME path \in Paths, next \in RegisterValues, NEW bit, NEW i
  PROVE  Ciphered(bit, i) = Sut!FoldOfSet(<<key, clocks>>, bit, Passing(path, i))
<1>1. Passing(path, i) = {s \in Streamers \cap OnPath(path) :
                            Kind[s] = "Trivium" /\ i \in {Begin(path, s), End(path, s)}}
  BY BeginAndEnd DEF Passing
<1> QED BY <1>1 DEF Ciphered, CipherStep, FoldSet, MapThenFoldSet,
                    Sut!FoldOfSet, Sut!FoldSet, Sut!MapThenFoldSet

\* When it moves, a bit is ciphered with the bits of the ends it passes.
LEMMA CipheredBits ==
  ASSUME path \in Paths, next \in RegisterValues, Segments(path), NEW K, NEW t \in Int,
         \A s \in Streamers \cap OnPath(path) : Kind[s] = "Trivium" =>
           K[s][t] = key[s][clocks[s] + 1] /\ K[s][t] \in Bits,
         NEW i \in Nat, NEW bit \in Bits
  PROVE  Ciphered(bit, i) = (bit + Crossed(path, K, i, i + 1, t - i)) % 2
<1> DEFINE P == Passing(path, i)
           C(U) == CrossedBy(path, K, U, i, i + 1, t - i)
<1>0. path \in Seq(PathItems)
  BY PathsAssumption
<1>1. P \subseteq Streamers \cap OnPath(path) /\ \A s \in P : Kind[s] = "Trivium"
  BY DEF Passing
<1>2. IsFiniteSet(P)
  BY <1>1, StreamersFinite, FS_Subset
<1>3. C(Streamers) = C(P)
  <2>1. ASSUME NEW x \in C(Streamers) PROVE path[x][2] \in P
    <3> DEFINE s == path[x][2]
    <3>1. x \in 1..Len(path) /\ Ciphering(path[x]) /\ s \in Streamers
          /\ i <= Off(path, x - 1) /\ Off(path, x - 1) < i + 1
      BY DEF CrossedBy
    <3>2. Off(path, x - 1) = i
      <4>1. Off(path, x - 1) \in Nat
        BY <1>0, <3>1, ZeroType, PrefixLen
      <4> QED BY <3>1, <4>1
    <3>3. path[x] \in {Enter(s), Leave(s)} /\ path[x] \in Range(path)
      BY <1>0, <3>1, ItemKinds, LenProperties DEF Ciphering, Range
    <3>4. s \in OnPath(path)
      <4>1. Enter(s) \in Range(path)
        BY <3>1, <3>3, PathsAssumption
      <4> QED BY <3>1, <4>1 DEF OnPath, Range
    <3>5. x \in {Position(path, Enter(s)), Position(path, Leave(s))}
      BY <3>1, <3>4, OnlyEnds DEF Ciphering
    <3> QED BY <3>1, <3>2, <3>4, <3>5 DEF Passing, Ciphering, BeginOf, EndOf
  <2>2. P \subseteq Streamers
    BY <1>1
  <2> HIDE DEF P
  <2> QED BY <2>1, <2>2 DEF CrossedBy
<1>4. PICK f : Sut!SetSteps(f, <<key, clocks>>, bit, P, Ciphered(bit, i))
  <2>1. Ciphered(bit, i) = Sut!FoldOfSet(<<key, clocks>>, bit, P)
    BY CipheredFold
  <2> HIDE DEF P
  <2>2. Sut!IsFiniteSet(P)
    BY <1>2 DEF IsFiniteSet, Sut!IsFiniteSet
  <2> QED BY <2>1, <2>2, Sut!FoldSetSteps
<1>5. \A U \in SUBSET P : IsFiniteSet(U) /\ Cardinality(U) \in Nat
  BY <1>2, FS_Subset, FS_CardinalityType
<1>6. ASSUME NEW s \in P, NEW U, s \notin U
      PROVE  Cardinality(C(U \cup {s})) = Cardinality(C(U)) + key[s][clocks[s] + 1]
  <2>1. s \in Streamers \cap OnPath(path) /\ Kind[s] = "Trivium" /\ i \in {BeginOf(path, s), EndOf(path, s)}
    BY DEF Passing
  <2>2. BeginOf(path, s) \in Nat /\ EndOf(path, s) \in Nat /\ BeginOf(path, s) < EndOf(path, s)
    BY <2>1, EndsOfStreamer DEF Segments
  <2>3. Cardinality(C(U \cup {s}))
          = Cardinality(C(U)) + KeyBit(K, s, BeginOf(path, s), i, i + 1, t - i)
                              + KeyBit(K, s, EndOf(path, s), i, i + 1, t - i)
    <3> DEFINE h == i + 1
               e == t - i
    <3> HIDE DEF h, e
    <3>1. Cardinality(CrossedBy(path, K, U \cup {s}, i, h, e))
            = Cardinality(CrossedBy(path, K, U, i, h, e))
                + KeyBit(K, s, BeginOf(path, s), i, h, e) + KeyBit(K, s, EndOf(path, s), i, h, e)
      BY <1>6, <2>1, AddStreamer
    <3> QED BY <3>1 DEF h, e
  <2>4. K[s][t] = key[s][clocks[s] + 1] /\ K[s][t] \in {0, 1}
    BY <2>1 DEF Bits
  <2>5. KeyBit(K, s, i, i, i + 1, t - i) = K[s][t]
    <3>1. i + (t - i) = t /\ i <= i /\ i < i + 1
      OBVIOUS
    <3> QED BY <2>1, <2>4, <3>1 DEF KeyBit
  <2>6. \A o \in Nat : o # i => KeyBit(K, s, o, i, i + 1, t - i) = 0
    BY DEF KeyBit
  <2>7. Cardinality(C(U)) \in Nat
    BY <1>0, CrossedFinite
  <2> HIDE DEF C
  <2>8. CASE i = BeginOf(path, s)
    BY <2>2, <2>3, <2>4, <2>5, <2>6, <2>7, <2>8
  <2>9. CASE i = EndOf(path, s)
    BY <2>2, <2>3, <2>4, <2>5, <2>6, <2>7, <2>9
  <2> QED BY <2>1, <2>8, <2>9
<1> DEFINE T == {m \in Nat : \A U \in SUBSET P : Cardinality(U) = m =>
                               f[U] = (bit + Cardinality(C(U))) % 2}
<1>7. 0 \in T
  <2>1. ASSUME NEW U \in SUBSET P, Cardinality(U) = 0
        PROVE  f[U] = (bit + Cardinality(C(U))) % 2
    <3>1. U = {}
      BY <1>5, <2>1, FS_EmptySet
    <3>2. C({}) = {}
      BY DEF CrossedBy
    <3>3. f[{}] = bit
      BY <1>4 DEF Sut!SetSteps
    <3>4. Cardinality(C(U)) = 0
      BY <3>1, <3>2, FS_EmptySet
    <3> QED BY <3>1, <3>3, <3>4 DEF Bits
  <2> HIDE DEF P, C
  <2> QED BY <2>1
<1>8. ASSUME NEW m \in T PROVE m + 1 \in T
  <2>1. ASSUME NEW U \in SUBSET P, Cardinality(U) = m + 1
        PROVE  f[U] = (bit + Cardinality(C(U))) % 2
    <3>0. m \in Nat
      OBVIOUS
    <3>1. U # {}
      <4>1. Cardinality({}) = 0
        BY FS_EmptySet
      <4> HIDE DEF T, P
      <4> QED BY <2>1, <3>0, <4>1
    <3>2. PICK s \in U : f[U] = CipherStep(<<key, clocks>>, f[U \ {s}], s)
      BY <1>4, <3>1 DEF Sut!SetSteps
    <3> DEFINE V == U \ {s}
    <3>3. V \in SUBSET P /\ s \in P /\ s \notin V /\ V \cup {s} = U
      OBVIOUS
    <3>4. Cardinality(V) = m
      <4>1. Cardinality(V) = Cardinality(U) - 1
        BY <1>5, FS_RemoveElement
      <4> QED BY <2>1, <3>0, <4>1
    <3> HIDE DEF V
    <3>5. f[V] = (bit + Cardinality(C(V))) % 2
      <4> HIDE DEF P, C
      <4> QED BY <3>3, <3>4
    <3>6. f[U] = (f[V] + key[s][clocks[s] + 1]) % 2
      BY <3>2 DEF CipherStep, V
    <3>7. Cardinality(C(U)) = Cardinality(C(V)) + key[s][clocks[s] + 1]
      <4> HIDE DEF P, C
      <4> QED BY <1>6, <3>3
    <3>8. Cardinality(C(V)) \in Nat /\ bit \in {0, 1} /\ key[s][clocks[s] + 1] \in {0, 1}
      BY <1>0, <1>1, <3>3, CrossedFinite DEF Bits
    <3> HIDE DEF P, C
    <3> QED BY <3>5, <3>6, <3>7, <3>8
  <2> HIDE DEF P, C
  <2> QED BY <2>1
<1>9. T = Nat
  <2> HIDE DEF T
  <2>1. T \in SUBSET Nat
    BY DEF T
  <2> QED BY <1>7, <1>8, <2>1, Sut!NatSetInduction
<1>10. f[P] = (bit + Cardinality(C(P))) % 2
  <2> HIDE DEF P, C
  <2>1. Cardinality(P) \in T /\ P \in SUBSET P
    BY <1>5, <1>9
  <2> QED BY <2>1
<1>11. f[P] = Ciphered(bit, i)
  BY <1>4 DEF Sut!SetSteps
<1> QED BY <1>3, <1>10, <1>11 DEF Crossed

-------------------------------------------------------------------------------
(* The model ciphers with the same bits *)

\* The masks of a cycle are the keystream of the cycle, the first bit last.
Masks(p, K, used, n) ==
  \A s \in Streamers \cap OnPath(p) :
    /\ MaskFor(s, used[s].mask, n)
    /\ Kind[s] = "Trivium" => \A i \in 1..n : used[s].mask[i] = K[s][(n + 1) - i]

\* The step of the loop over the answer.
FromSutStep(c, v, item) ==
  IF item[1] = "out" THEN ApplyStreamerFromSut(c[1], item[2], v, c[2][item[2]].mask) ELSE v

\* The lemmas on folds, for the loop over the answer.
FromSut == INSTANCE FoldLemmas WITH Op <- FromSutStep

\* An end belongs to a streamer of the path.
LEMMA EndOnPath ==
  ASSUME NEW p \in Paths, NEW x \in 1..Len(p), p[x][1] \in {"in", "out"}
  PROVE  p[x][2] \in Streamers \cap OnPath(p)
<1> DEFINE s == p[x][2]
<1>1. p \in Seq(PathItems)
  BY PathsAssumption
<1>2. s \in Streamers /\ p[x] \in {Enter(s), Leave(s)} /\ p[x] \in Range(p)
  BY <1>1, ItemKinds, LenProperties DEF Range
<1>3. Enter(s) \in Range(p)
  BY <1>2, PathsAssumption
<1> QED BY <1>2, <1>3 DEF OnPath, Range

\* The streamers of the path are all that matter.
LEMMA CrossedOnPath ==
  ASSUME NEW p \in Paths, NEW K, NEW lo, NEW hi, NEW d
  PROVE  CrossedBy(p, K, Streamers \cap OnPath(p), lo, hi, d) = CrossedBy(p, K, Streamers, lo, hi, d)
BY EndOnPath DEF CrossedBy, Ciphering

\* A streamer leaves where its end is.
LEMMA LeaveAt ==
  ASSUME NEW p \in Paths, NEW x \in 1..Len(p)
  PROVE  /\ p[x][1] = "out" => /\ p[x][2] \in Streamers \cap OnPath(p)
                               /\ Position(p, Leave(p[x][2])) = x
         /\ \A s \in Streamers \cap OnPath(p) :
              Position(p, Leave(s)) = x => p[x][1] = "out" /\ p[x][2] = s
<1>1. p \in Seq(PathItems) /\ DOMAIN p = 1..Len(p) /\ IsInjective(p)
  BY PathsAssumption, LenProperties
<1>2. ASSUME p[x][1] = "out"
      PROVE  p[x][2] \in Streamers \cap OnPath(p) /\ Position(p, Leave(p[x][2])) = x
  <2>1. p[x][2] \in Streamers \cap OnPath(p)
    BY <1>2, EndOnPath
  <2>2. p[x] = Leave(p[x][2])
    BY <1>1, <1>2, ItemKinds
  <2>3. /\ Position(p, Leave(p[x][2])) \in 1..Len(p)
        /\ p[Position(p, Leave(p[x][2]))] = Leave(p[x][2])
    BY <2>1, EndsOfStreamer, PositionOfItem
  <2> QED BY <1>1, <2>1, <2>2, <2>3 DEF IsInjective
<1>3. ASSUME NEW s \in Streamers \cap OnPath(p), Position(p, Leave(s)) = x
      PROVE  p[x][1] = "out" /\ p[x][2] = s
  <2>1. p[x] = Leave(s)
    BY <1>3, EndsOfStreamer, PositionOfItem
  <2> QED BY <2>1 DEF Leave
<1> QED BY <1>2, <1>3

\* The mask bits on the way in are those of the keystream that are crossed.
LEMMA MaskToSutIsKeyBit ==
  ASSUME NEW p \in Paths, NEW s \in Streamers \cap OnPath(p), NEW K, NEW used, NEW n \in Nat,
         Masks(p, K, used, n), NEW e \in Nat, NEW k \in 1..n
  PROVE  MaskToSut(used[s].mask, k, e) = KeyBit(K, s, e, 0, k, (n + 1) - k)
<1>1. MaskFor(s, used[s].mask, n)
  BY DEF Masks
<1>2. \A i \in 1..n : used[s].mask[i] \in {0, 1}
  BY <1>1 DEF MaskFor, BitVectors, Bits
<1>3. CASE k > e
  <2>1. k - e \in 1..n /\ (n + 1) - (k - e) = e + ((n + 1) - k) /\ 0 <= e /\ e < k
    BY <1>3
  <2>2. MaskToSut(used[s].mask, k, e) = used[s].mask[k - e]
    BY <1>3 DEF MaskToSut
  <2>3. CASE Kind[s] = "Trivium"
    <3>1. used[s].mask[k - e] = K[s][(n + 1) - (k - e)]
      BY <2>1, <2>3 DEF Masks
    <3>2. K[s][e + ((n + 1) - k)] = used[s].mask[k - e]
      BY <2>1, <3>1
    <3>3. used[s].mask[k - e] \in {0, 1}
      BY <1>2, <2>1
    <3> QED BY <2>1, <2>2, <2>3, <3>2, <3>3 DEF KeyBit
  <2>4. CASE Kind[s] # "Trivium"
    <3>1. used[s].mask[k - e] = 0
      BY <1>1, <2>1, <2>4, NodesAssumption DEF MaskFor, Zeroes
    <3> QED BY <2>2, <2>4, <3>1 DEF KeyBit
  <2> QED BY <2>3, <2>4
<1>4. CASE ~(k > e)
  BY <1>4 DEF MaskToSut, KeyBit
<1> QED BY <1>3, <1>4

\* So are those on the way out.
LEMMA MaskFromSutIsKeyBit ==
  ASSUME NEW p \in Paths, NEW s \in Streamers \cap OnPath(p), NEW K, NEW used, NEW n \in Nat,
         Masks(p, K, used, n), NEW e \in 0..n, NEW q \in 1..n
  PROVE  MaskFromSut(used[s].mask, n, q, e) = KeyBit(K, s, e, q, n + 1, 1 - q)
<1>1. MaskFor(s, used[s].mask, n)
  BY DEF Masks
<1>2. \A i \in 1..n : used[s].mask[i] \in {0, 1}
  BY <1>1 DEF MaskFor, BitVectors, Bits
<1>3. CASE q <= e
  <2>1. (n - e) + q \in 1..n /\ (n + 1) - ((n - e) + q) = e + (1 - q) /\ e < n + 1
    BY <1>3
  <2>2. MaskFromSut(used[s].mask, n, q, e) = used[s].mask[(n - e) + q]
    BY <1>3 DEF MaskFromSut
  <2>3. CASE Kind[s] = "Trivium"
    <3>1. used[s].mask[(n - e) + q] = K[s][(n + 1) - ((n - e) + q)]
      BY <2>1, <2>3 DEF Masks
    <3>2. K[s][e + (1 - q)] = used[s].mask[(n - e) + q]
      BY <2>1, <3>1
    <3>3. used[s].mask[(n - e) + q] \in {0, 1}
      BY <1>2, <2>1
    <3> QED BY <1>3, <2>1, <2>2, <2>3, <3>2, <3>3 DEF KeyBit
  <2>4. CASE Kind[s] # "Trivium"
    <3>1. used[s].mask[(n - e) + q] = 0
      BY <1>1, <2>1, <2>4, NodesAssumption DEF MaskFor, Zeroes
    <3> QED BY <2>2, <2>4, <3>1 DEF KeyBit
  <2> QED BY <2>3, <2>4
<1>4. CASE ~(q <= e)
  BY <1>4 DEF MaskFromSut, KeyBit
<1> QED BY <1>3, <1>4

\* The loop over the vector is a fold.
LEMMA ToSutFold ==
  ASSUME NEW p, NEW vector, NEW used
  PROVE  StreamersToSut(p, vector, used) = ToSut!FoldOfSeq(<<p, used>>, vector, p)
BY DEF StreamersToSut, ToSutStep, FoldLeft, MapThenFoldSet, Max,
       ToSut!FoldOfSeq, ToSut!FoldLeft, ToSut!MapThenFoldSet, ToSut!Max

\* The loop over the answer is one too.
LEMMA FromSutFold ==
  ASSUME NEW p, NEW vector, NEW used
  PROVE  StreamersFromSut(p, vector, used) = FromSut!FoldOfSeqBack(<<p, used>>, vector, p)
BY DEF StreamersFromSut, FromSutStep, FoldRight, MapThenFoldSet, Min,
       FromSut!FoldOfSeqBack, FromSut!FoldRight, FromSut!MapThenFoldSet, FromSut!Min

\* What the streamers of U make of bit k of a vector on its way in.
BitToSut(p, K, U, vector, n, k) ==
  (vector[k] + Cardinality(CrossedBy(p, K, U, 0, k, (n + 1) - k))) % 2

\* What they make of bit q of an answer.
BitFromSut(p, K, U, vector, n, q) ==
  (vector[q] + Cardinality(CrossedBy(p, K, U, q, n + 1, 1 - q))) % 2

\* One streamer more on the way in.
LEMMA OneMoreToSut ==
  ASSUME NEW p \in Paths, next \in RegisterValues, Segments(p), NEW K, NEW used,
         NEW n \in Nat, n = VectorLen(p), Masks(p, K, used, n),
         NEW s \in Streamers \cap OnPath(p), NEW U, s \notin U,
         NEW vector \in BitVectors(n), NEW v \in BitVectors(n),
         \A k \in 1..n : v[k] = BitToSut(p, K, U, vector, n, k)
  PROVE  /\ ApplyStreamerToSut(p, s, v, used[s].mask) \in BitVectors(n)
         /\ \A k \in 1..n : ApplyStreamerToSut(p, s, v, used[s].mask)[k]
                              = BitToSut(p, K, U \cup {s}, vector, n, k)
<1> DEFINE w == ApplyStreamerToSut(p, s, v, used[s].mask)
<1>1. MaskFor(s, used[s].mask, n) /\ BeginOf(p, s) < EndOf(p, s)
  BY DEF Masks, Segments
<1>2. /\ w \in BitVectors(n)
      /\ \A k \in 1..n : w[k] = (v[k] + MaskToSut(used[s].mask, k, BeginOf(p, s))
                                      + MaskToSut(used[s].mask, k, EndOf(p, s))) % 2
  BY <1>1, ApplyStreamerToSutBits
<1> HIDE DEF w
<1>3. ASSUME NEW k \in 1..n PROVE w[k] = BitToSut(p, K, U \cup {s}, vector, n, k)
  <2> DEFINE d == (n + 1) - k
             b == KeyBit(K, s, BeginOf(p, s), 0, k, d)
             e == KeyBit(K, s, EndOf(p, s), 0, k, d)
             c == Cardinality(CrossedBy(p, K, U, 0, k, d))
  <2>1. BeginOf(p, s) \in Nat /\ EndOf(p, s) \in Nat
    BY EndsOfStreamer
  <2>2. MaskToSut(used[s].mask, k, BeginOf(p, s)) = b /\ MaskToSut(used[s].mask, k, EndOf(p, s)) = e
    BY <2>1, MaskToSutIsKeyBit
  <2>3. b \in Nat /\ e \in Nat
    BY DEF KeyBit
  <2> HIDE DEF d
  <2>4. Cardinality(CrossedBy(p, K, U \cup {s}, 0, k, d)) = c + b + e /\ c \in Nat
    BY AddStreamer, CrossedFinite, PathsAssumption
  <2>5. v[k] = (vector[k] + c) % 2 /\ BitToSut(p, K, U \cup {s}, vector, n, k) = (vector[k] + (c + b + e)) % 2
    BY <2>4 DEF BitToSut, d
  <2>6. vector[k] \in Nat
    BY DEF BitVectors, Bits
  <2>7. w[k] = (v[k] + b + e) % 2
    BY <1>2, <2>2
  <2> HIDE DEF b, c, e
  <2> QED BY <2>3, <2>4, <2>5, <2>6, <2>7
<1> QED BY <1>2, <1>3 DEF w

\* One streamer more on the way out.
LEMMA OneMoreFromSut ==
  ASSUME NEW p \in Paths, next \in RegisterValues, Segments(p), NEW K, NEW used,
         NEW n \in Nat, n = VectorLen(p), Masks(p, K, used, n),
         NEW s \in Streamers \cap OnPath(p), NEW U, s \notin U,
         NEW vector \in BitVectors(n), NEW v \in BitVectors(n),
         \A q \in 1..n : v[q] = BitFromSut(p, K, U, vector, n, q)
  PROVE  /\ ApplyStreamerFromSut(p, s, v, used[s].mask) \in BitVectors(n)
         /\ \A q \in 1..n : ApplyStreamerFromSut(p, s, v, used[s].mask)[q]
                              = BitFromSut(p, K, U \cup {s}, vector, n, q)
<1> DEFINE w == ApplyStreamerFromSut(p, s, v, used[s].mask)
<1>1. MaskFor(s, used[s].mask, n) /\ BeginOf(p, s) < EndOf(p, s)
  BY DEF Masks, Segments
<1>2. /\ w \in BitVectors(n)
      /\ \A q \in 1..n : w[q] = (v[q] + MaskFromSut(used[s].mask, n, q, BeginOf(p, s))
                                      + MaskFromSut(used[s].mask, n, q, EndOf(p, s))) % 2
  BY <1>1, ApplyStreamerFromSutBits
<1> HIDE DEF w
<1>3. ASSUME NEW q \in 1..n PROVE w[q] = BitFromSut(p, K, U \cup {s}, vector, n, q)
  <2> DEFINE d == 1 - q
             h == n + 1
             b == KeyBit(K, s, BeginOf(p, s), q, h, d)
             e == KeyBit(K, s, EndOf(p, s), q, h, d)
             c == Cardinality(CrossedBy(p, K, U, q, h, d))
  <2>1. BeginOf(p, s) \in 0..n /\ EndOf(p, s) \in 0..n
    BY EndsOfStreamer
  <2>2. /\ MaskFromSut(used[s].mask, n, q, BeginOf(p, s)) = b
        /\ MaskFromSut(used[s].mask, n, q, EndOf(p, s)) = e
    BY <2>1, MaskFromSutIsKeyBit
  <2>3. b \in Nat /\ e \in Nat
    BY DEF KeyBit
  <2> HIDE DEF d, h
  <2>4. Cardinality(CrossedBy(p, K, U \cup {s}, q, h, d)) = c + b + e /\ c \in Nat
    BY AddStreamer, CrossedFinite, PathsAssumption
  <2>5. v[q] = (vector[q] + c) % 2 /\ BitFromSut(p, K, U \cup {s}, vector, n, q) = (vector[q] + (c + b + e)) % 2
    BY <2>4 DEF BitFromSut, d, h
  <2>6. vector[q] \in Nat
    BY DEF BitVectors, Bits
  <2>7. w[q] = (v[q] + b + e) % 2
    BY <1>2, <2>2
  <2> HIDE DEF b, c, e
  <2> QED BY <2>3, <2>4, <2>5, <2>6, <2>7
<1> QED BY <1>2, <1>3 DEF w

\* No streamer, no change.
LEMMA NoneCrossed ==
  ASSUME NEW p \in Paths, NEW K, NEW n \in Nat, NEW vector \in BitVectors(n), NEW k \in 1..n
  PROVE  /\ BitToSut(p, K, {}, vector, n, k) = vector[k]
         /\ BitFromSut(p, K, {}, vector, n, k) = vector[k]
<1>1. \A lo, hi, d : Cardinality(CrossedBy(p, K, {}, lo, hi, d)) = 0
  <2>1. \A lo, hi, d : CrossedBy(p, K, {}, lo, hi, d) = {}
    BY DEF CrossedBy
  <2> QED BY <2>1, FS_EmptySet
<1>2. vector[k] \in {0, 1}
  BY DEF BitVectors, Bits
<1> QED BY <1>1, <1>2 DEF BitToSut, BitFromSut

\* Before the vector is shifted every bit gets the bits it is about to meet.
LEMMA StreamersToSutBits ==
  ASSUME NEW p \in Paths, next \in RegisterValues, Segments(p), NEW K, NEW used,
         NEW n \in Nat, n = VectorLen(p), Masks(p, K, used, n), NEW vector \in BitVectors(n)
  PROVE  /\ StreamersToSut(p, vector, used) \in BitVectors(n)
         /\ \A k \in 1..n : StreamersToSut(p, vector, used)[k]
                              = (vector[k] + Crossed(p, K, 0, k, (n + 1) - k)) % 2
<1> DEFINE L == Len(p)
           D(j) == {s \in Streamers \cap OnPath(p) : Position(p, Leave(s)) <= j}
           Good(v, j) == v \in BitVectors(n)
                           /\ \A k \in 1..n : v[k] = BitToSut(p, K, D(j), vector, n, k)
<1>1. p \in Seq(PathItems) /\ L \in Nat /\ DOMAIN p = 1..L
  BY PathsAssumption, LenProperties
<1>2. \A s \in Streamers \cap OnPath(p) : Position(p, Leave(s)) \in 1..L
  BY EndsOfStreamer, PositionOfItem
<1>3. PICK v : ToSut!SeqSteps(v, <<p, used>>, vector, p, StreamersToSut(p, vector, used))
  BY <1>1, ToSutFold, ToSut!FoldLeftSteps
<1> DEFINE T == {j \in Nat : j <= L => Good(v[j], j)}
<1>4. 0 \in T
  <2>1. D(0) = {}
    BY <1>2
  <2>2. v[0] = vector
    BY <1>3 DEF ToSut!SeqSteps
  <2>3. Good(v[0], 0)
    <3> HIDE DEF D
    <3> QED BY <2>1, <2>2, NoneCrossed
  <2> HIDE DEF Good
  <2> QED BY <2>3
<1>5. ASSUME NEW j \in T PROVE j + 1 \in T
  <2> HIDE DEF D
  <2>0. CASE ~(j + 1 <= L)
    BY <2>0
  <2>1. CASE j + 1 <= L
    <3> DEFINE i == j + 1
               item == p[i]
    <3>1. j \in Nat /\ i \in 1..L /\ i - 1 = j /\ j <= L
      BY <1>1, <2>1
    <3>2. Good(v[j], j)
      BY <3>1
    <3>3. v[i] = ToSutStep(<<p, used>>, v[j], item)
      <4> HIDE DEF i
      <4> QED BY <1>3, <3>1 DEF ToSut!SeqSteps
    <3>4. CASE item[1] = "out"
      <4> DEFINE s == item[2]
      <4>1. s \in Streamers \cap OnPath(p) /\ Position(p, Leave(s)) = i
        <5> HIDE DEF i
        <5> QED BY <3>1, <3>4, LeaveAt
      <4>2. s \notin D(j)
        BY <3>1, <4>1 DEF D
      <4>3. D(i) = D(j) \cup {s}
        <5>1. \A u \in Streamers \cap OnPath(p) : Position(p, Leave(u)) = i => u = s
          <6> HIDE DEF i
          <6> QED BY <3>1, LeaveAt
        <5>2. \A u \in Streamers \cap OnPath(p) :
                Position(p, Leave(u)) <= i <=> Position(p, Leave(u)) <= j \/ u = s
          BY <1>2, <3>1, <4>1, <5>1
        <5> HIDE DEF s, i
        <5> QED BY <4>1, <5>2 DEF D
      <4>4. v[i] = ApplyStreamerToSut(p, s, v[j], used[s].mask)
        BY <3>3, <3>4 DEF ToSutStep
      <4> HIDE DEF i, s
      <4>5. Good(v[i], i)
        BY <3>2, <4>1, <4>2, <4>3, <4>4, OneMoreToSut, SMTT(60)
      <4> HIDE DEF Good
      <4> QED BY <4>5 DEF i
    <3>5. CASE item[1] # "out"
      <4>1. D(i) = D(j)
        <5>1. \A u \in Streamers \cap OnPath(p) : Position(p, Leave(u)) # i
          <6> HIDE DEF i
          <6> QED BY <3>1, <3>5, LeaveAt
        <5>2. \A u \in Streamers \cap OnPath(p) :
                Position(p, Leave(u)) <= i <=> Position(p, Leave(u)) <= j
          BY <1>2, <3>1, <5>1
        <5> HIDE DEF i
        <5> QED BY <5>2 DEF D
      <4>2. v[i] = v[j]
        BY <3>3, <3>5 DEF ToSutStep
      <4> HIDE DEF i
      <4>3. Good(v[i], i)
        BY <3>2, <4>1, <4>2
      <4> HIDE DEF Good
      <4> QED BY <4>3 DEF i
    <3> QED BY <3>4, <3>5
  <2> QED BY <2>0, <2>1
<1>6. T = Nat
  <2> HIDE DEF T
  <2>1. T \in SUBSET Nat
    BY DEF T
  <2> QED BY <1>4, <1>5, <2>1, ToSut!NatSetInduction
<1>7. Good(v[L], L)
  <2> HIDE DEF Good
  <2>1. L \in T
    BY <1>1, <1>6
  <2> QED BY <1>1, <2>1
<1>8. D(L) = Streamers \cap OnPath(p)
  BY <1>2
<1>9. v[L] = StreamersToSut(p, vector, used)
  BY <1>3 DEF ToSut!SeqSteps
<1>10. \A k \in 1..n : BitToSut(p, K, Streamers \cap OnPath(p), vector, n, k)
                         = (vector[k] + Crossed(p, K, 0, k, (n + 1) - k)) % 2
  BY CrossedOnPath DEF BitToSut, Crossed
<1> HIDE DEF D, L
<1> QED BY <1>7, <1>8, <1>9, <1>10

\* Afterwards every bit of the answer gets the bits it has met.
LEMMA StreamersFromSutBits ==
  ASSUME NEW p \in Paths, next \in RegisterValues, Segments(p), NEW K, NEW used,
         NEW n \in Nat, n = VectorLen(p), Masks(p, K, used, n), NEW vector \in BitVectors(n)
  PROVE  /\ StreamersFromSut(p, vector, used) \in BitVectors(n)
         /\ \A q \in 1..n : StreamersFromSut(p, vector, used)[q]
                              = (vector[q] + Crossed(p, K, q, n + 1, 1 - q)) % 2
<1> DEFINE L == Len(p)
           D(j) == {s \in Streamers \cap OnPath(p) : Position(p, Leave(s)) > j}
           Good(v, j) == v \in BitVectors(n)
                           /\ \A q \in 1..n : v[q] = BitFromSut(p, K, D(j), vector, n, q)
<1>1. p \in Seq(PathItems) /\ L \in Nat /\ DOMAIN p = 1..L
  BY PathsAssumption, LenProperties
<1>2. \A s \in Streamers \cap OnPath(p) : Position(p, Leave(s)) \in 1..L
  BY EndsOfStreamer, PositionOfItem
<1>3. PICK v : FromSut!SeqStepsBack(v, <<p, used>>, vector, p, StreamersFromSut(p, vector, used))
  BY <1>1, FromSutFold, FromSut!FoldRightSteps
<1> DEFINE T == {m \in Nat : m <= L => Good(v[L - m], L - m)}
<1>4. 0 \in T
  <2>1. D(L) = {}
    BY <1>1, <1>2
  <2>2. v[L] = vector /\ L - 0 = L
    BY <1>1, <1>3 DEF FromSut!SeqStepsBack
  <2>3. Good(v[L], L)
    <3> HIDE DEF D
    <3> QED BY <2>1, <2>2, NoneCrossed
  <2> HIDE DEF Good
  <2> QED BY <2>2, <2>3
<1>5. ASSUME NEW m \in T PROVE m + 1 \in T
  <2> HIDE DEF D
  <2>0. CASE ~(m + 1 <= L)
    BY <2>0
  <2>1. CASE m + 1 <= L
    <3> DEFINE i == L - m
               j == L - (m + 1)
               item == p[i]
    <3>1. m \in Nat /\ i \in 1..L /\ i - 1 = j /\ j \in Nat /\ m <= L
      BY <1>1, <2>1
    <3>2. Good(v[i], i)
      BY <3>1
    <3>3. v[j] = FromSutStep(<<p, used>>, v[i], item)
      <4> HIDE DEF i, j
      <4> QED BY <1>3, <3>1 DEF FromSut!SeqStepsBack
    <3>4. CASE item[1] = "out"
      <4> DEFINE s == item[2]
      <4>1. s \in Streamers \cap OnPath(p) /\ Position(p, Leave(s)) = i
        <5> HIDE DEF i
        <5> QED BY <3>1, <3>4, LeaveAt
      <4>2. s \notin D(i)
        BY <3>1, <4>1 DEF D
      <4>3. D(j) = D(i) \cup {s}
        <5>1. \A u \in Streamers \cap OnPath(p) : Position(p, Leave(u)) = i => u = s
          <6> HIDE DEF i
          <6> QED BY <3>1, LeaveAt
        <5>2. \A u \in Streamers \cap OnPath(p) :
                Position(p, Leave(u)) > j <=> Position(p, Leave(u)) > i \/ u = s
          BY <1>2, <3>1, <4>1, <5>1
        <5> HIDE DEF s, i, j
        <5> QED BY <4>1, <5>2 DEF D
      <4>4. v[j] = ApplyStreamerFromSut(p, s, v[i], used[s].mask)
        BY <3>3, <3>4 DEF FromSutStep
      <4> HIDE DEF i, j, s
      <4>5. Good(v[j], j)
        <5> DEFINE w == v[i]
                   U == D(i)
        <5>1. w \in BitVectors(n) /\ \A q \in 1..n : w[q] = BitFromSut(p, K, U, vector, n, q)
          BY <3>2
        <5>2. s \notin U
          BY <4>2
        <5> HIDE DEF w, U
        <5>3. /\ ApplyStreamerFromSut(p, s, w, used[s].mask) \in BitVectors(n)
              /\ \A q \in 1..n : ApplyStreamerFromSut(p, s, w, used[s].mask)[q]
                                   = BitFromSut(p, K, U \cup {s}, vector, n, q)
          BY <4>1, <5>1, <5>2, OneMoreFromSut
        <5> QED BY <4>3, <4>4, <5>3 DEF w, U
      <4> HIDE DEF Good
      <4> QED BY <4>5 DEF j
    <3>5. CASE item[1] # "out"
      <4>1. D(j) = D(i)
        <5>1. \A u \in Streamers \cap OnPath(p) : Position(p, Leave(u)) # i
          <6> HIDE DEF i
          <6> QED BY <3>1, <3>5, LeaveAt
        <5>2. \A u \in Streamers \cap OnPath(p) :
                Position(p, Leave(u)) > j <=> Position(p, Leave(u)) > i
          BY <1>2, <3>1, <5>1
        <5> HIDE DEF i, j
        <5> QED BY <5>2 DEF D
      <4>2. v[j] = v[i]
        BY <3>3, <3>5 DEF FromSutStep
      <4> HIDE DEF i, j
      <4>3. Good(v[j], j)
        BY <3>2, <4>1, <4>2
      <4> HIDE DEF Good
      <4> QED BY <4>3 DEF j
    <3> QED BY <3>4, <3>5
  <2> QED BY <2>0, <2>1
<1>6. T = Nat
  <2> HIDE DEF T
  <2>1. T \in SUBSET Nat
    BY DEF T
  <2> QED BY <1>4, <1>5, <2>1, FromSut!NatSetInduction
<1>7. Good(v[0], 0)
  <2> HIDE DEF Good
  <2>1. L \in T /\ L - L = 0
    BY <1>1, <1>6
  <2> QED BY <1>1, <2>1
<1>8. D(0) = Streamers \cap OnPath(p)
  BY <1>2
<1>9. v[0] = StreamersFromSut(p, vector, used)
  BY <1>3 DEF FromSut!SeqStepsBack
<1>10. \A q \in 1..n : BitFromSut(p, K, Streamers \cap OnPath(p), vector, n, q)
                         = (vector[q] + Crossed(p, K, q, n + 1, 1 - q)) % 2
  BY CrossedOnPath DEF BitFromSut, Crossed
<1> HIDE DEF D
<1> QED BY <1>7, <1>8, <1>9, <1>10

-------------------------------------------------------------------------------
(* The inductive invariant *)

\* The protocol of a streamer.
Protocols == [mask : Seq(Bits), residual : Seq(Bits), generated : Nat]

\* The types of what the arguments below rest on.
TypeInv ==
  /\ phase \in {"idle", "shift", "killed"}
  /\ next \in RegisterValues /\ sut \in RegisterValues
  /\ protocol \in [Streamers -> Protocols]
  /\ key \in [Streamers -> KeyStreams]
  /\ clocks \in [Streamers -> Nat]
  /\ cycles \in 0..MaxCycles

\* The keystream a streamer has made, less what is left over of it, is what the
\* SUT has used and the clocks that the cycle under way has still to run, ahead;
\* what is left over continues it.
InStep(pr, ks, clock, ahead, cyc) ==
  /\ pr.generated <= cyc * (LongestVector + ByteBits)
  /\ pr.generated = clock + ahead + Len(pr.residual)
  /\ \A j \in 1..Len(pr.residual) : pr.residual[j] = ks[clock + ahead + j]

\* The clocks a cycle has still to run for a streamer.
Ahead(ph, p, todo, s) == IF ph = "shift" /\ s \in OnPath(p) THEN todo ELSE 0

\* The invariant for the ciphers.
KeysInv ==
  \A s \in Streamers : Kind[s] = "Trivium" =>
    InStep(protocol[s], key[s], clocks[s],
           Ahead(phase, path, Len(toSut) - Len(fromSut), s), cycles)

\* The keystreams of a cycle on path p that has run for k clocks.
CycleKeys(p, ky, cl, k) ==
  [s \in Streamers \cap OnPath(p) |-> [t \in 1..VectorLen(p) |-> ky[s][(cl[s] - k) + t]]]

\* Cell i after k clocks: a bit of the vector, or one the SUT held before, with
\* the bits of the keystream it has met until then.
CellAfter(p, K, to, old, n, k, i) ==
  IF i <= k THEN (to[(n - k) + i] + Crossed(p, K, 0, i, (k + 1) - i)) % 2
  ELSE (old[i - k] + Crossed(p, K, i - k, i, (k + 1) - i)) % 2

\* The bit the SUT held in cell q, when it has come out.
OutOf(p, K, old, n, q) == (old[q] + Crossed(p, K, q, n + 1, 1 - q)) % 2

\* A cycle on path p: what is in the vector sent, in the chain and in the answer.
Shifting(p, K, pr, nx, su, to, ch, from) ==
  LET n == VectorLen(p)
      k == Len(from)
  IN  /\ p \in Paths /\ Segments(p) /\ Masks(p, K, pr, n)
      /\ to \in BitVectors(n) /\ ch \in BitVectors(n) /\ from \in Seq(Bits) /\ k <= n
      /\ \A i \in 1..n : to[i] = (Concatenated(p, nx)[i] + Crossed(p, K, 0, i, (n + 1) - i)) % 2
      /\ \A i \in 1..n : ch[i] = CellAfter(p, K, to, Concatenated(p, su), n, k, i)
      /\ \A j \in 1..k : from[j] = OutOf(p, K, Concatenated(p, su), n, (n - k) + j)

\* The invariant for a cycle under way.
CycleInv ==
  phase = "shift" =>
    /\ \A s \in Streamers \cap OnPath(path) : clocks[s] >= Len(fromSut)
    /\ Shifting(path, CycleKeys(path, key, clocks, Len(fromSut)), protocol, next, sut,
                toSut, chain, fromSut)

\* The inductive invariant.
Inv == TypeInv /\ KeysInv /\ CycleInv

-------------------------------------------------------------------------------
(* A new mask *)

\* Whole bytes.
LEMMA DivBounds ==
  ASSUME NEW a \in Nat, NEW b \in Nat \ {0}
  PROVE  (a \div b) * b \in Nat /\ (a \div b) * b <= a /\ a < (a \div b) * b + b
<1> DEFINE q == a \div b
           r == a % b
<1>1. q \in Int /\ r \in Int /\ 0 <= r /\ r < b /\ a = b * q + r
  OBVIOUS
<1>2. q \in Nat
  OBVIOUS
<1> HIDE DEF q, r
<1>3. q * b = b * q /\ q * b \in Nat
  BY <1>2
<1> QED BY <1>1, <1>2, <1>3 DEF q

\* The keystreams are long enough for one cycle more.
LEMMA KeyBound ==
  ASSUME NEW c \in Nat, c < MaxCycles, NEW g \in Nat, g <= c * (LongestVector + ByteBits),
         NEW m \in Nat, m <= LongestVector + ByteBits
  PROVE  /\ g + m <= (c + 1) * (LongestVector + ByteBits)
         /\ g + m <= MaxCycles * (LongestVector + ByteBits)
<1> DEFINE w == LongestVector + ByteBits
<1>1. w \in Nat /\ MaxCycles \in Nat /\ c + 1 <= MaxCycles
  BY KeysAssumption
<1> HIDE DEF w
<1>2. (c + 1) * w = c * w + w /\ c * w \in Nat
  BY <1>1
<1>3. (c + 1) * w <= MaxCycles * w
  BY <1>1
<1>4. g <= c * w /\ m <= w
  BY DEF w
<1>5. MaxCycles * w \in Nat
  BY <1>1
<1>6. g + m <= (c + 1) * w
  BY <1>1, <1>2, <1>4
<1>7. g + m <= MaxCycles * w
  BY <1>1, <1>2, <1>3, <1>4, <1>5
<1> QED BY <1>6, <1>7 DEF w

\* A mask is the next n bits of the keystream, whatever was left over before.
LEMMA TriviumNewMaskBits ==
  ASSUME NEW s \in Streamers, protocol[s] \in Protocols, key[s] \in KeyStreams,
         NEW c \in Nat, c < MaxCycles, NEW clock \in Nat,
         InStep(protocol[s], key[s], clock, 0, c),
         NEW n \in Nat, n <= LongestVector
  PROVE  /\ TriviumNewMask(s, n) \in Protocols
         /\ TriviumNewMask(s, n).mask \in BitVectors(n)
         /\ \A i \in 1..n : TriviumNewMask(s, n).mask[i] = key[s][clock + ((n + 1) - i)]
         /\ InStep(TriviumNewMask(s, n), key[s], clock, n, c + 1)
<1> DEFINE res     == protocol[s].residual
           gen     == protocol[s].generated
           total   == MaxCycles * (LongestVector + ByteBits)
           missing == IF n > Len(res) THEN n - Len(res) ELSE 0
           bytes   == (missing + ByteBits - 1) \div ByteBits
           more    == bytes * ByteBits
           new     == Slice(key[s], gen, more)
           keys    == res \o new
           l       == Len(res)
           rest    == l + more - n
           left    == Slice(keys, n, rest)
           first   == Slice(keys, 0, n)
<1>1. res \in Seq(Bits) /\ gen \in Nat /\ l \in Nat /\ protocol[s].mask \in Seq(Bits)
  BY DEF Protocols
<1>2. total \in Nat /\ key[s] \in BitVectors(total) /\ ByteBits \in Nat \ {0} /\ LongestVector \in Nat
  BY KeysAssumption
<1>3. gen = clock + l /\ gen <= c * (LongestVector + ByteBits)
      /\ \A j \in 1..l : res[j] = key[s][clock + j]
  <2>1. clock + 0 = clock
    OBVIOUS
  <2> QED BY <2>1, <1>1 DEF InStep
<1> HIDE DEF res, gen, total
<1>4. more \in Nat /\ missing <= more /\ more <= missing + (ByteBits - 1) /\ missing \in Nat
  <2> DEFINE a == missing + ByteBits - 1
  <2>1. a \in Nat /\ missing \in Nat /\ a = missing + (ByteBits - 1)
    BY <1>1, <1>2
  <2>2. (a \div ByteBits) * ByteBits \in Nat /\ (a \div ByteBits) * ByteBits <= a
        /\ a < (a \div ByteBits) * ByteBits + ByteBits
    <3> HIDE DEF a
    <3> QED BY <1>2, <2>1, DivBounds
  <2>3. more = (a \div ByteBits) * ByteBits
    OBVIOUS
  <2> HIDE DEF more, a, missing
  <2> QED BY <1>2, <2>1, <2>2, <2>3
<1>5. rest \in Nat /\ more <= LongestVector + ByteBits /\ n <= l + more
  <2>1. missing <= n /\ n <= missing + l
    BY <1>1
  <2> HIDE DEF more, missing
  <2> QED BY <1>1, <1>2, <1>4, <2>1
<1>6. gen + more <= (c + 1) * (LongestVector + ByteBits) /\ gen + more <= total
  <2> HIDE DEF more
  <2> QED BY <1>1, <1>3, <1>4, <1>5, KeyBound DEF total
<1> HIDE DEF more
<1>7. new \in BitVectors(more) /\ \A j \in 1..more : new[j] = key[s][gen + j]
  BY <1>1, <1>2, <1>4, <1>6, SliceBits, SMTT(60)
<1>8. new \in Seq(Bits) /\ Len(new) = more
  BY <1>4, <1>7, BitVectorSeq
<1> HIDE DEF new
<1>9. /\ keys \in Seq(Bits) /\ Len(keys) = l + more
      /\ \A j \in 1..(l + more) : keys[j] = IF j <= l THEN res[j] ELSE new[j - l]
  BY <1>1, <1>4, <1>8, ConcatProperties
<1> HIDE DEF keys
<1>10. keys \in BitVectors(l + more) /\ l + more \in Nat
  <2> DEFINE m == l + more
  <2>1. m \in Nat
    BY <1>1, <1>4
  <2>2. Len(keys) = m
    BY <1>9
  <2> HIDE DEF m
  <2>3. keys \in BitVectors(m)
    BY <1>9, <2>1, <2>2, BitVectorSeq
  <2> QED BY <2>1, <2>3 DEF m
<1>11. \A j \in 1..(l + more) : keys[j] = key[s][clock + j]
  <2> TAKE j \in 1..(l + more)
  <2>1. CASE j <= l
    <3>1. j \in 1..l
      BY <1>1, <2>1
    <3> QED BY <1>3, <1>9, <2>1, <3>1
  <2>2. CASE ~(j <= l)
    <3>1. j - l \in 1..more /\ gen + (j - l) = clock + j
      BY <1>1, <1>3, <1>4, <2>2
    <3> QED BY <1>7, <1>9, <2>2, <3>1
  <2> QED BY <2>1, <2>2
<1>12. first \in BitVectors(n) /\ \A j \in 1..n : first[j] = keys[j]
  <2> DEFINE m == l + more
  <2>1. 0 + n <= m /\ m \in Nat /\ keys \in BitVectors(m)
    BY <1>5, <1>10
  <2> HIDE DEF m
  <2>2. first \in BitVectors(n) /\ \A j \in 1..n : first[j] = keys[0 + j]
    BY <2>1, SliceBits
  <2>3. \A j \in 1..n : 0 + j = j
    OBVIOUS
  <2> HIDE DEF first
  <2> QED BY <2>2, <2>3
<1>13. left \in BitVectors(rest) /\ \A j \in 1..rest : left[j] = keys[n + j]
  <2> DEFINE m == l + more
  <2>1. n + rest <= m /\ m \in Nat /\ keys \in BitVectors(m)
    BY <1>1, <1>4, <1>5, <1>10
  <2> HIDE DEF m, rest
  <2> QED BY <1>5, <2>1, SliceBits
<1>14. left \in Seq(Bits) /\ Len(left) = rest
  <2> HIDE DEF rest, left
  <2> QED BY <1>5, <1>13, BitVectorSeq
<1>15. TriviumNewMask(s, n) = [mask |-> Reverse(first), residual |-> left, generated |-> gen + more]
  <2>1. Len(keys) - n = rest
    <3> HIDE DEF l
    <3> QED BY <1>1, <1>4, <1>9
  <2> QED BY <2>1 DEF TriviumNewMask, TRIVIUM_XOR_MASK, keys, new, more, res, gen
<1> HIDE DEF first, left
<1>16. Reverse(first) \in BitVectors(n) /\ \A i \in 1..n : Reverse(first)[i] = key[s][clock + ((n + 1) - i)]
  <2>1. Len(first) = n
    BY <1>12, BitVectorSeq
  <2>2. Reverse(first) = [i \in 1..n |-> first[(n - i) + 1]]
    BY <2>1 DEF Reverse
  <2>3. \A i \in 1..n : (n - i) + 1 \in 1..n /\ (n - i) + 1 = (n + 1) - i /\ (n - i) + 1 \in 1..(l + more)
    BY <1>5, <1>4, <1>1
  <2>4. \A i \in 1..n : first[(n - i) + 1] \in Bits
    BY <1>12, <2>3 DEF BitVectors
  <2>5. \A i \in 1..n : first[(n - i) + 1] = key[s][clock + ((n + 1) - i)]
    <3> TAKE i \in 1..n
    <3> DEFINE j == (n - i) + 1
    <3>1. j \in 1..n /\ j \in 1..(l + more) /\ j = (n + 1) - i
      BY <2>3
    <3> HIDE DEF j
    <3>2. first[j] = key[s][clock + j]
      BY <1>11, <1>12, <3>1
    <3> QED BY <3>1, <3>2 DEF j
  <2> QED BY <2>2, <2>4, <2>5 DEF BitVectors
<1>17. Reverse(first) \in Seq(Bits)
  BY <1>16, BitVectorSeq
<1>18. gen + more \in Nat /\ gen + more = clock + n + rest
  BY <1>1, <1>3, <1>4
<1>19. \A j \in 1..rest : left[j] = key[s][clock + n + j]
  <2> TAKE j \in 1..rest
  <2>1. n + j \in 1..(l + more) /\ clock + (n + j) = clock + n + j
    BY <1>1, <1>4, <1>5
  <2> QED BY <1>11, <1>13, <2>1
<1> HIDE DEF rest
<1>20. TriviumNewMask(s, n) \in Protocols
  BY <1>14, <1>15, <1>17, <1>18 DEF Protocols
<1>21. InStep(TriviumNewMask(s, n), key[s], clock, n, c + 1)
  <2> DEFINE m == TriviumNewMask(s, n)
  <2>1. m.generated = gen + more /\ m.residual = left /\ Len(m.residual) = rest
    BY <1>14, <1>15
  <2> HIDE DEF m
  <2>2. m.generated <= (c + 1) * (LongestVector + ByteBits)
    BY <1>6, <2>1
  <2>3. m.generated = clock + n + Len(m.residual)
    BY <1>18, <2>1
  <2>4. \A j \in 1..Len(m.residual) : m.residual[j] = key[s][clock + n + j]
    BY <1>19, <2>1
  <2>5. InStep(m, key[s], clock, n, c + 1)
    BY <2>2, <2>3, <2>4, Zenon DEF InStep
  <2> QED BY <2>5 DEF m
<1> QED BY <1>15, <1>16, <1>20, <1>21

-------------------------------------------------------------------------------
(* The cells of the chain *)

\* Nothing is crossed where a bit does not move.
LEMMA CrossedNothing ==
  ASSUME NEW p \in Seq(PathItems), NEW K, NEW lo \in Int, NEW d
  PROVE  Crossed(p, K, lo, lo, d) = 0
<1>1. \A x \in 1..Len(p) : Off(p, x - 1) \in Nat
  BY ZeroType, PrefixLen
<1>2. CrossedBy(p, K, Streamers, lo, lo, d) = {}
  BY <1>1 DEF CrossedBy
<1> QED BY <1>2, FS_EmptySet DEF Crossed

\* At first the chain holds what the SUT held.
LEMMA CellAtFirst ==
  ASSUME NEW p \in Seq(PathItems), NEW K, NEW n \in Nat, NEW to, NEW old \in BitVectors(n),
         NEW i \in 1..n
  PROVE  CellAfter(p, K, to, old, n, 0, i) = old[i]
<1>1. ~(i <= 0) /\ i - 0 = i /\ i \in Int
  OBVIOUS
<1>2. CellAfter(p, K, to, old, n, 0, i) = (old[i] + Crossed(p, K, i, i, (0 + 1) - i)) % 2
  BY <1>1 DEF CellAfter
<1>3. Crossed(p, K, i, i, (0 + 1) - i) = 0
  BY <1>1, CrossedNothing
<1>4. old[i] \in {0, 1}
  BY DEF BitVectors, Bits
<1> QED BY <1>2, <1>3, <1>4

\* One bit through one cell.
LEMMA CellStep ==
  ASSUME NEW p \in Seq(PathItems), NEW K, NEW n \in Nat,
         NEW to \in BitVectors(n), NEW old \in BitVectors(n),
         NEW k \in Nat, k < n, NEW i \in 1..n, NEW prev,
         i = 1 => prev = to[n - k],
         i # 1 => prev = CellAfter(p, K, to, old, n, k, i - 1)
  PROVE  (prev + Crossed(p, K, i - 1, i, (k + 1) - (i - 1))) % 2
           = CellAfter(p, K, to, old, n, k + 1, i)
<1> DEFINE d == (k + 1) - (i - 1)
<1>1. d = ((k + 1) + 1) - i /\ i - 1 \in Int /\ i \in Int
  OBVIOUS
<1>2. \A j \in 1..n : to[j] \in Nat /\ old[j] \in Nat
  BY DEF BitVectors, Bits
<1> DEFINE x == Crossed(p, K, i - 1, i, d)
<1> HIDE DEF d
<1>3. ASSUME NEW lo \in Int, lo <= i - 1
      PROVE  /\ Crossed(p, K, lo, i, d) = Crossed(p, K, lo, i - 1, d) + x
             /\ Crossed(p, K, lo, i - 1, d) \in Nat /\ x \in Nat
  <2> DEFINE l == i - 1
  <2>1. i \in Int /\ l \in Int /\ lo <= l /\ l <= i
    BY <1>3
  <2> HIDE DEF l
  <2>2. /\ Crossed(p, K, lo, i, d) = Crossed(p, K, lo, l, d) + Crossed(p, K, l, i, d)
        /\ Crossed(p, K, lo, l, d) \in Nat /\ Crossed(p, K, l, i, d) \in Nat
    BY <2>1, CrossedInTwo
  <2> QED BY <2>2 DEF l
<1>4. CASE i <= k + 1
  <2> DEFINE m == (n - (k + 1)) + i
             a == Crossed(p, K, 0, i - 1, d)
             b == Crossed(p, K, 0, i, d)
  <2>1. m \in 1..n /\ 0 <= i - 1 /\ i - 1 <= i
    BY <1>4
  <2>2. CellAfter(p, K, to, old, n, k + 1, i) = (to[m] + b) % 2
    BY <1>1, <1>4 DEF CellAfter
  <2>3. b = a + x /\ a \in Nat /\ x \in Nat
    BY <1>3, <2>1
  <2>4. to[m] \in Nat
    BY <1>2, <2>1
  <2>5. CASE i = 1
    <3>1. m = n - k /\ i - 1 = 0
      BY <2>5
    <3>2. a = 0
      BY <3>1, CrossedNothing
    <3>3. prev = to[m]
      BY <2>5, <3>1
    <3> HIDE DEF a, b, x, m
    <3>4. (prev + x) % 2 = CellAfter(p, K, to, old, n, k + 1, i)
      BY <2>2, <2>3, <2>4, <3>2, <3>3
    <3> QED BY <3>4 DEF x, d
  <2>6. CASE i # 1
    <3>1. i - 1 <= k /\ (n - k) + (i - 1) = m /\ (k + 1) - (i - 1) = d
      BY <1>4, <2>6 DEF d
    <3>2. prev = (to[m] + a) % 2
      BY <2>6, <3>1 DEF CellAfter
    <3> HIDE DEF a, b, x, m
    <3>3. (prev + x) % 2 = CellAfter(p, K, to, old, n, k + 1, i)
      BY <2>2, <2>3, <2>4, <3>2, SMTT(60)
    <3> QED BY <3>3 DEF x, d
  <2> QED BY <2>5, <2>6
<1>5. CASE ~(i <= k + 1)
  <2> DEFINE m == i - (k + 1)
             a == Crossed(p, K, m, i - 1, d)
             b == Crossed(p, K, m, i, d)
  <2>1. m \in 1..n /\ m <= i - 1 /\ i - 1 <= i /\ i # 1 /\ m \in Int
    BY <1>5
  <2>2. CellAfter(p, K, to, old, n, k + 1, i) = (old[m] + b) % 2
    BY <1>1, <1>5 DEF CellAfter
  <2>3. b = a + x /\ a \in Nat /\ x \in Nat
    BY <1>3, <2>1
  <2>4. old[m] \in Nat
    BY <1>2, <2>1
  <2>5. ~(i - 1 <= k) /\ (i - 1) - k = m /\ (k + 1) - (i - 1) = d
    BY <1>5 DEF d
  <2>6. prev = (old[m] + a) % 2
    BY <2>1, <2>5 DEF CellAfter
  <2> HIDE DEF a, b, x, m
  <2>7. (prev + x) % 2 = CellAfter(p, K, to, old, n, k + 1, i)
    BY <2>2, <2>3, <2>4, <2>6, SMTT(60)
  <2> QED BY <2>7 DEF x, d
<1> QED BY <1>4, <1>5

\* One bit out of the last cell.
LEMMA OutStep ==
  ASSUME NEW p \in Seq(PathItems), NEW K, NEW n \in Nat, NEW to, NEW old \in BitVectors(n),
         NEW k \in Nat, k < n
  PROVE  (CellAfter(p, K, to, old, n, k, n) + Crossed(p, K, n, n + 1, (k + 1) - n)) % 2
           = OutOf(p, K, old, n, n - k)
<1> DEFINE q == n - k
           d == 1 - q
           h == n + 1
           a == Crossed(p, K, q, n, d)
           b == Crossed(p, K, n, h, d)
           c == Crossed(p, K, q, h, d)
<1>1. q \in 1..n /\ q \in Int /\ n \in Int /\ h \in Int /\ q <= n /\ n <= h /\ (k + 1) - n = d /\ ~(n <= k)
  OBVIOUS
<1>2. CellAfter(p, K, to, old, n, k, n) = (old[q] + a) % 2
  BY <1>1 DEF CellAfter
<1>3. OutOf(p, K, old, n, q) = (old[q] + c) % 2
  BY DEF OutOf
<1>4. old[q] \in Nat
  BY <1>1 DEF BitVectors, Bits
<1> HIDE DEF q, d, h
<1>5. c = a + b /\ a \in Nat /\ b \in Nat
  <2>1. q \in Int /\ n \in Int /\ h \in Int /\ q <= n /\ n <= h
    BY <1>1
  <2>2. /\ Crossed(p, K, q, h, d) = Crossed(p, K, q, n, d) + Crossed(p, K, n, h, d)
        /\ Crossed(p, K, q, n, d) \in Nat /\ Crossed(p, K, n, h, d) \in Nat
    BY <2>1, CrossedInTwo, ZenonT(60)
  <2> QED BY <2>2
<1>6. Crossed(p, K, n, n + 1, (k + 1) - n) = b
  BY <1>1 DEF h
<1>7. OutOf(p, K, old, n, n - k) = OutOf(p, K, old, n, q)
  BY DEF q
<1> HIDE DEF a, b, c
<1> QED BY <1>2, <1>3, <1>4, <1>5, <1>6, <1>7, SMTT(60)

-------------------------------------------------------------------------------
(* Distributed *)

\* Vectors with the same bits are the same.
LEMMA SameBits ==
  ASSUME NEW n, NEW a \in BitVectors(n), NEW b \in BitVectors(n), \A i \in 1..n : a[i] = b[i]
  PROVE  a = b
<1> DEFINE D == 1..n
<1>1. a \in [D -> Bits] /\ b \in [D -> Bits] /\ \A i \in D : a[i] = b[i]
  BY DEF BitVectors
<1> HIDE DEF D
<1> QED BY <1>1

\* A register of a path is there at its position.
LEMMA RegisterOnPath ==
  ASSUME NEW p \in Paths, NEW r \in Registers \cap OnPath(p), next \in RegisterValues
  PROVE  \E i \in 1..Len(p) : /\ p[i] = Scan(r) /\ Offset(p, Scan(r)) = Off(p, i - 1)
                              /\ Off(p, i - 1) \in Nat /\ Off(p, i - 1) + Width[r] <= VectorLen(p)
<1>1. p \in Seq(PathItems) /\ Len(p) \in Nat /\ DOMAIN p = 1..Len(p)
  BY PathsAssumption, LenProperties
<1>2. Scan(r) \in Range(p)
  <2>1. PICK i \in DOMAIN p : p[i] \in {Scan(r), Enter(r)}
    BY DEF OnPath
  <2>2. p[i] # Enter(r)
    <3>1. p[i] \in PathItems /\ r \notin Streamers
      BY <1>1, NodesAssumption
    <3> QED BY <3>1, ItemKinds DEF Enter
  <2> QED BY <2>1, <2>2 DEF Range
<1> DEFINE i == Position(p, Scan(r))
<1>3. i \in 1..Len(p) /\ p[i] = Scan(r) /\ Offset(p, Scan(r)) = Off(p, i - 1)
  BY <1>2, PositionOfItem, OffsetOfItem
<1> HIDE DEF i
<1>4. Off(p, i) = Off(p, i - 1) + Width[r]
  BY <1>1, <1>3, ZeroType, VectorOfPath
<1>5. i - 1 \in 0..Len(p) /\ i \in 0..Len(p) /\ Len(p) \in i..Len(p)
  BY <1>1, <1>3
<1>6. Off(p, i - 1) \in Nat /\ Off(p, i) <= Off(p, Len(p))
  BY <1>1, <1>5, ZeroType, PrefixLen, OffMonotonic
<1> QED BY <1>3, <1>4, <1>6 DEF VectorLen

\* From the vector of a path each of its registers gets its own value back.
LEMMA SliceOfRegister ==
  ASSUME NEW p \in Paths, NEW r \in Registers \cap OnPath(p), next \in RegisterValues,
         NEW value \in RegisterValues
  PROVE  Slice(Concatenated(p, value), Offset(p, Scan(r)), Width[r]) = value[r]
<1> DEFINE V == Concatenated(p, value)
           n == VectorLen(p)
           w == Width[r]
<1>1. PICK i \in 1..Len(p) : /\ p[i] = Scan(r) /\ Offset(p, Scan(r)) = Off(p, i - 1)
                             /\ Off(p, i - 1) \in Nat /\ Off(p, i - 1) + w <= n
  BY RegisterOnPath
<1>2. p \in Seq(PathItems) /\ w \in Nat
  BY PathsAssumption, NodesAssumption
<1>3. V \in BitVectors(n) /\ n \in Nat /\ \A k \in 1..w : V[Off(p, i - 1) + k] = value[r][k]
  <2>1. V \in BitVectors(n) /\ \A k \in 1..w : V[Off(p, i - 1) + k] = value[r][k]
    BY <1>1, <1>2, VectorOfPath DEF VectorLen
  <2>2. n \in Nat
    <3>1. Len(p) \in 0..Len(p)
      BY <1>2, LenProperties
    <3> QED BY <1>2, <3>1, ZeroType, PrefixLen DEF VectorLen
  <2> QED BY <2>1, <2>2
<1> DEFINE o == Off(p, i - 1)
<1> HIDE DEF V, n, w, o
<1>4. Slice(V, o, w) \in BitVectors(w) /\ \A k \in 1..w : Slice(V, o, w)[k] = V[o + k]
  BY <1>1, <1>2, <1>3, SliceBits DEF o
<1>5. value[r] \in BitVectors(w)
  BY DEF RegisterValues, w
<1>6. Slice(V, o, w) = value[r]
  <2>1. \A k \in 1..w : Slice(V, o, w)[k] = value[r][k]
    BY <1>3, <1>4 DEF o
  <2> QED BY <1>4, <1>5, <2>1, SameBits
<1> QED BY <1>1, <1>6 DEF V, w, o

\* Registers get values of their width.
LEMMA DistributedType ==
  ASSUME NEW p \in Paths, next \in RegisterValues, NEW vector \in BitVectors(VectorLen(p)),
         NEW value \in RegisterValues
  PROVE  Distributed(p, vector, value) \in RegisterValues
<1>1. ASSUME NEW r \in Registers
      PROVE  /\ Distributed(p, vector, value)[r] \in BitVectors(Width[r])
             /\ Distributed(p, vector, value)[r] \in Seq(Bits)
  <2> DEFINE w == Width[r]
  <2>1. w \in Nat
    BY NodesAssumption
  <2>2. CASE r \in OnPath(p)
    <3>1. PICK i \in 1..Len(p) : /\ p[i] = Scan(r) /\ Offset(p, Scan(r)) = Off(p, i - 1)
                                 /\ Off(p, i - 1) \in Nat /\ Off(p, i - 1) + w <= VectorLen(p)
      BY <2>2, RegisterOnPath
    <3>2. VectorLen(p) \in Nat
      <4>1. p \in Seq(PathItems)
        BY PathsAssumption
      <4>2. Len(p) \in 0..Len(p)
        BY <4>1, LenProperties
      <4> QED BY <4>1, <4>2, ZeroType, PrefixLen DEF VectorLen
    <3>3. Slice(vector, Off(p, i - 1), w) \in BitVectors(w)
      <4> DEFINE o == Off(p, i - 1)
                 n == VectorLen(p)
      <4>1. o \in Nat /\ n \in Nat /\ o + w <= n /\ vector \in BitVectors(n)
        BY <3>1, <3>2
      <4> HIDE DEF o, n, w
      <4>2. Slice(vector, o, w) \in BitVectors(w)
        BY <2>1, <4>1, SliceBits
      <4> QED BY <4>2 DEF o
    <3>4. Distributed(p, vector, value)[r] = Slice(vector, Off(p, i - 1), w)
      BY <2>2, <3>1 DEF Distributed
    <3> HIDE DEF w
    <3> QED BY <2>1, <3>3, <3>4, BitVectorSeq DEF w
  <2>3. CASE r \notin OnPath(p)
    BY <2>3 DEF Distributed, RegisterValues
  <2> QED BY <2>2, <2>3
<1>2. Distributed(p, vector, value) \in [Registers -> Seq(Bits)]
  <2>1. Distributed(p, vector, value) = [r \in Registers |-> Distributed(p, vector, value)[r]]
    BY DEF Distributed
  <2> QED BY <1>1, <2>1
<1> QED BY <1>1, <1>2 DEF RegisterValues

\* At the end of a cycle the chain holds the values of the model, and the
\* deciphered answer those the SUT held.
LEMMA CycleEnd ==
  ASSUME Inv, phase = "shift", Len(fromSut) = Len(toSut)
  PROVE  /\ path \in Paths
         /\ chain = Concatenated(path, next) /\ chain \in BitVectors(VectorLen(path))
         /\ StreamersFromSut(path, fromSut, protocol) = Concatenated(path, sut)
<1> DEFINE p == path
           K == CycleKeys(path, key, clocks, Len(fromSut))
           n == VectorLen(path)
           plain == Concatenated(path, next)
           old == Concatenated(path, sut)
<1>1. next \in RegisterValues /\ sut \in RegisterValues
  BY DEF Inv, TypeInv
<1>2. /\ p \in Paths /\ Segments(p) /\ Masks(p, K, protocol, n)
      /\ toSut \in BitVectors(n) /\ chain \in BitVectors(n) /\ fromSut \in Seq(Bits)
      /\ \A i \in 1..n : toSut[i] = (plain[i] + Crossed(p, K, 0, i, (n + 1) - i)) % 2
      /\ \A i \in 1..n : chain[i] = CellAfter(p, K, toSut, old, n, Len(fromSut), i)
      /\ \A j \in 1..Len(fromSut) : fromSut[j] = OutOf(p, K, old, n, (n - Len(fromSut)) + j)
  BY DEF Inv, CycleInv, Shifting
<1>3. p \in Seq(PathItems) /\ n \in Nat
  <2>1. p \in Seq(PathItems)
    BY <1>2, PathsAssumption
  <2>2. Len(p) \in 0..Len(p)
    BY <2>1, LenProperties
  <2> QED BY <2>1, <2>2, ZeroType, PrefixLen DEF VectorLen
<1>4. Len(fromSut) = n /\ fromSut \in BitVectors(n)
  <2> HIDE DEF n
  <2> QED BY <1>2, <1>3, BitVectorSeq
<1>5. plain \in BitVectors(n) /\ old \in BitVectors(n)
  BY <1>1, <1>3, VectorOfPath DEF VectorLen
<1> HIDE DEF K, n, plain, old
<1>6. \A i \in 1..n : plain[i] \in {0, 1} /\ old[i] \in {0, 1}
  BY <1>5 DEF BitVectors, Bits
<1>7. \A lo, hi, d : Crossed(p, K, lo, hi, d) \in Nat
  BY <1>3, CrossedFinite DEF Crossed
<1>8. ASSUME NEW i \in 1..n PROVE chain[i] = plain[i]
  <2> DEFINE x == Crossed(p, K, 0, i, (n + 1) - i)
  <2>1. i <= n /\ (n - n) + i = i
    BY <1>3
  <2>2. chain[i] = (toSut[i] + x) % 2
    BY <1>2, <1>4, <2>1 DEF CellAfter
  <2>3. toSut[i] = (plain[i] + x) % 2
    BY <1>2
  <2>4. x \in Nat /\ plain[i] \in {0, 1}
    BY <1>6, <1>7
  <2> HIDE DEF x
  <2> QED BY <2>2, <2>3, <2>4
<1>9. chain = plain
  BY <1>2, <1>5, <1>8, SameBits
<1> DEFINE got == StreamersFromSut(p, fromSut, protocol)
<1>10. got \in BitVectors(n) /\ \A q \in 1..n : got[q] = (fromSut[q] + Crossed(p, K, q, n + 1, 1 - q)) % 2
  <2>1. p \in Paths /\ next \in RegisterValues /\ Segments(p) /\ n \in Nat /\ n = VectorLen(p)
        /\ Masks(p, K, protocol, n) /\ fromSut \in BitVectors(n)
    BY <1>1, <1>2, <1>3, <1>4 DEF n
  <2>2. /\ StreamersFromSut(p, fromSut, protocol) \in BitVectors(n)
        /\ \A q \in 1..n : StreamersFromSut(p, fromSut, protocol)[q]
                             = (fromSut[q] + Crossed(p, K, q, n + 1, 1 - q)) % 2
    <3> HIDE DEF got
    <3> QED BY <2>1, StreamersFromSutBits, SMTT(100)
  <2> QED BY <2>2
<1> HIDE DEF got
<1>11. ASSUME NEW q \in 1..n PROVE got[q] = old[q]
  <2> DEFINE x == Crossed(p, K, q, n + 1, 1 - q)
  <2>1. (n - n) + q = q
    BY <1>3
  <2>2. fromSut[q] = (old[q] + x) % 2
    BY <1>2, <1>4, <2>1 DEF OutOf
  <2>3. got[q] = (fromSut[q] + x) % 2
    BY <1>10
  <2>4. x \in Nat /\ old[q] \in {0, 1}
    BY <1>6, <1>7
  <2> HIDE DEF x
  <2> QED BY <2>2, <2>3, <2>4
<1>12. got = old
  BY <1>5, <1>10, <1>11, SameBits
<1> QED BY <1>2, <1>9, <1>12 DEF got, plain, old, n

-------------------------------------------------------------------------------
(* The steps *)

\* The length of a vector, for every path.
LEMMA VectorLenType ==
  ASSUME NEW p \in Paths
  PROVE  p \in Seq(PathItems) /\ VectorLen(p) \in Nat /\ VectorLen(p) <= LongestVector
<1>1. p \in Seq(PathItems)
  BY PathsAssumption
<1>2. Len(p) \in 0..Len(p)
  BY <1>1, LenProperties
<1>3. VectorLen(p) \in Nat
  BY <1>1, <1>2, ZeroType, PrefixLen DEF VectorLen
<1>4. Len(Concatenated(p, ZeroValues)) = VectorLen(p)
  BY <1>1, ZeroType, VectorOfPath DEF VectorLen
<1> QED BY <1>1, <1>3, <1>4, KeysAssumption

\* It holds at first.
LEMMA InitInv ==
  ASSUME Init
  PROVE  Inv
<1>1. TypeInv
  <2>1. protocol \in [Streamers -> Protocols]
    BY EmptySeq DEF Init, Protocols
  <2> QED BY <2>1, ZeroType, KeysAssumption DEF Init, TypeInv
<1>2. KeysInv
  <2>1. ASSUME NEW s \in Streamers
        PROVE  InStep(protocol[s], key[s], clocks[s], Ahead(phase, path, Len(toSut) - Len(fromSut), s), cycles)
    <3>1. Ahead(phase, path, Len(toSut) - Len(fromSut), s) = 0
      BY DEF Init, Ahead
    <3>2. protocol[s].generated = 0 /\ protocol[s].residual = <<>> /\ clocks[s] = 0 /\ cycles = 0
      BY DEF Init
    <3>3. Len(<<>>) = 0
      BY EmptySeq
    <3>4. 0 <= 0 * (LongestVector + ByteBits)
      BY KeysAssumption
    <3> QED BY <3>1, <3>2, <3>3, <3>4 DEF InStep
  <2> QED BY <2>1 DEF KeysInv
<1>3. CycleInv
  BY DEF Init, CycleInv
<1> QED BY <1>1, <1>2, <1>3 DEF Inv

\* A write changes the values of the model.
LEMMA iWriteInv ==
  ASSUME Inv, NEW r \in Registers, NEW v \in BitVectors(Width[r]), iWrite(r, v)
  PROVE  Inv'
<1> USE DEF iWrite, sutVars
<1>1. next' \in RegisterValues
  <2>1. next \in RegisterValues
    BY DEF Inv, TypeInv
  <2>2. v \in Seq(Bits)
    BY NodesAssumption, BitVectorSeq
  <2> QED BY <2>1, <2>2 DEF RegisterValues
<1>2. TypeInv'
  BY <1>1 DEF Inv, TypeInv
<1>3. KeysInv'
  BY DEF Inv, KeysInv
<1>4. CycleInv'
  BY DEF CycleInv
<1> QED BY <1>2, <1>3, <1>4 DEF Inv

\* An exception ends everything.
LEMMA SendVectorThrowsInv ==
  ASSUME Inv, NEW p \in Paths, SendVectorThrows(p)
  PROVE  Inv'
<1> USE DEF SendVectorThrows, sutVars
<1>1. TypeInv'
  BY DEF Inv, TypeInv
<1>2. KeysInv'
  <2>1. \A s : Ahead(phase', path', Len(toSut') - Len(fromSut'), s)
                 = Ahead(phase, path, Len(toSut) - Len(fromSut), s)
    BY DEF Ahead
  <2> QED BY <2>1 DEF Inv, KeysInv
<1>3. CycleInv'
  BY DEF CycleInv
<1> QED BY <1>1, <1>2, <1>3 DEF Inv

\* The end of a cycle.
LEMMA ReceiveVectorInv ==
  ASSUME Inv, ReceiveVector
  PROVE  Inv'
<1> USE DEF ReceiveVector
<1>1. next \in RegisterValues /\ sut \in RegisterValues
  BY DEF Inv, TypeInv
<1>2. path \in Paths /\ chain \in BitVectors(VectorLen(path))
  BY CycleEnd
<1>3. sut' \in RegisterValues
  BY <1>1, <1>2, DistributedType
<1>4. TypeInv'
  BY <1>3 DEF Inv, TypeInv
<1>5. KeysInv'
  <2>1. ASSUME NEW s \in Streamers, Kind[s] = "Trivium"
        PROVE  InStep(protocol[s], key[s], clocks[s], 0, cycles)
    <3>1. InStep(protocol[s], key[s], clocks[s],
                 Ahead(phase, path, Len(toSut) - Len(fromSut), s), cycles)
      BY <2>1 DEF Inv, KeysInv
    <3>2. Len(toSut) - Len(fromSut) = 0
      <4> DEFINE n == VectorLen(path)
      <4>1. toSut \in BitVectors(n) /\ n \in Nat
        BY <1>2, VectorLenType DEF Inv, CycleInv, Shifting
      <4> HIDE DEF n
      <4>2. Len(toSut) \in Nat
        BY <4>1, BitVectorSeq
      <4> QED BY <4>2
    <3>3. Ahead(phase, path, Len(toSut) - Len(fromSut), s) = 0
      BY <3>2 DEF Ahead
    <3> QED BY <3>1, <3>3
  <2>2. \A s : Ahead(phase', path', Len(toSut') - Len(fromSut'), s) = 0
    BY DEF Ahead
  <2> QED BY <2>1, <2>2 DEF KeysInv
<1>6. CycleInv'
  BY DEF CycleInv
<1> QED BY <1>4, <1>5, <1>6 DEF Inv

\* A clock.
LEMMA ClockInv ==
  ASSUME Inv, Clock
  PROVE  Inv'
<1> DEFINE p == path
           k == Len(fromSut)
           n == VectorLen(path)
           K == CycleKeys(path, key, clocks, k)
           L == CycleKeys(path, key, clocks', k + 1)
           old == Concatenated(path, sut)
           S == Streamers \cap OnPath(path)
<1> USE DEF sutVars
<1>1. next \in RegisterValues /\ sut \in RegisterValues /\ clocks \in [Streamers -> Nat]
  BY DEF Inv, TypeInv
<1>2. /\ phase = "shift" /\ Len(fromSut) < Len(toSut)
      /\ UNCHANGED <<phase, path, next, lastRead, protocol, toSut, sut, key, cycles>>
      /\ clocks' = [s \in Streamers |-> IF s \in OnPath(path) THEN clocks[s] + 1 ELSE clocks[s]]
  BY DEF Clock
<1>3. /\ p \in Paths /\ Segments(p) /\ Masks(p, K, protocol, n)
      /\ toSut \in BitVectors(n) /\ chain \in BitVectors(n) /\ fromSut \in Seq(Bits) /\ k <= n
      /\ \A i \in 1..n : toSut[i] = (Concatenated(p, next)[i] + Crossed(p, K, 0, i, (n + 1) - i)) % 2
      /\ \A i \in 1..n : chain[i] = CellAfter(p, K, toSut, old, n, k, i)
      /\ \A j \in 1..k : fromSut[j] = OutOf(p, K, old, n, (n - k) + j)
      /\ \A s \in S : clocks[s] >= k
  BY <1>2 DEF Inv, CycleInv, Shifting
<1>4. p \in Seq(PathItems) /\ n \in Nat /\ k \in Nat
  BY <1>3, VectorLenType, LenProperties
<1>5. Len(toSut) = n /\ Len(chain) = n /\ k < n
  <2>1. Len(toSut) = n /\ Len(chain) = n
    <3> HIDE DEF n
    <3> QED BY <1>3, <1>4, BitVectorSeq
  <2> QED BY <1>2, <2>1
<1>6. old \in BitVectors(n)
  BY <1>1, <1>4, VectorOfPath DEF VectorLen
<1>7. TypeInv'
  <2>1. clocks' \in [Streamers -> Nat]
    BY <1>1, <1>2
  <2> QED BY <1>2, <2>1 DEF Inv, TypeInv
<1>8. L = K
  <2>1. \A s \in S : clocks'[s] - (k + 1) = clocks[s] - k
    BY <1>1, <1>2, <1>4
  <2> QED BY <2>1 DEF CycleKeys
<1>9. \A s \in S : Kind[s] = "Trivium" =>
        K[s][k + 1] = key[s][clocks[s] + 1] /\ K[s][k + 1] \in Bits
  <2> TAKE s \in S
  <2> HAVE Kind[s] = "Trivium"
  <2>1. k + 1 \in 1..n /\ n - k \in 1..n /\ (n + 1) - (n - k) = k + 1
        /\ (clocks[s] - k) + (k + 1) = clocks[s] + 1
    BY <1>1, <1>4, <1>5
  <2>2. K[s][k + 1] = key[s][clocks[s] + 1]
    BY <2>1 DEF CycleKeys
  <2> HIDE DEF K
  <2>3. protocol[s].mask[n - k] = K[s][k + 1]
    BY <1>3, <2>1 DEF Masks
  <2>4. protocol[s].mask[n - k] \in Bits
    BY <1>3, <2>1 DEF Masks, MaskFor, BitVectors
  <2> QED BY <2>2, <2>3, <2>4
<1> HIDE DEF K, L, old, n, k
<1>10. ASSUME NEW bit \in Bits, NEW i \in Nat
       PROVE  Ciphered(bit, i) = (bit + Crossed(p, K, i, i + 1, (k + 1) - i)) % 2
  <2> DEFINE t == k + 1
  <2>1. t \in Int /\ \A s \in S : Kind[s] = "Trivium" => K[s][t] = key[s][clocks[s] + 1] /\ K[s][t] \in Bits
    BY <1>4, <1>9
  <2> HIDE DEF t
  <2>2. Ciphered(bit, i) = (bit + Crossed(p, K, i, i + 1, t - i)) % 2
    BY <1>1, <1>3, <2>1, CipheredBits
  <2> QED BY <2>2 DEF t
<1>11. ASSUME NEW bit \in Bits, NEW i \in Nat PROVE Ciphered(bit, i) \in Bits
  <2>1. Crossed(p, K, i, i + 1, (k + 1) - i) \in Nat
    BY <1>4, CrossedFinite DEF Crossed
  <2>2. bit \in Nat
    BY DEF Bits
  <2> QED BY <1>10, <2>1, <2>2 DEF Bits
<1>12. \A i \in 1..n : toSut[i] \in Bits /\ chain[i] \in Bits
  BY <1>3 DEF BitVectors
<1> DEFINE Prev(i) == IF i = 1 THEN toSut[n - k] ELSE chain[i - 1]
<1>13. \A i \in 1..n : Prev(i) \in Bits
  <2>1. n - k \in 1..n /\ \A i \in 1..n : i # 1 => i - 1 \in 1..n
    BY <1>4, <1>5
  <2> QED BY <1>12, <2>1
<1>14. chain' = [i \in 1..n |-> Ciphered(Prev(i), i - 1)]
       /\ fromSut' = <<Ciphered(chain[n], n)>> \o fromSut
  BY <1>5 DEF Clock, k
<1> HIDE DEF Prev
<1>15. chain' \in BitVectors(n)
  <2>1. \A i \in 1..n : i - 1 \in Nat
    BY <1>4
  <2>2. \A i \in 1..n : Ciphered(Prev(i), i - 1) \in Bits
    BY <1>11, <1>13, <2>1
  <2> QED BY <1>14, <2>2 DEF BitVectors
<1>16. ASSUME NEW i \in 1..n PROVE chain'[i] = CellAfter(p, K, toSut, old, n, k + 1, i)
  <2>1. i - 1 \in Nat /\ (i - 1) + 1 = i
    BY <1>4
  <2>2. chain'[i] = (Prev(i) + Crossed(p, K, i - 1, i, (k + 1) - (i - 1))) % 2
    <3>1. chain'[i] = Ciphered(Prev(i), i - 1)
      BY <1>14
    <3> DEFINE l == i - 1
    <3>2. l \in Nat /\ l + 1 = i
      BY <2>1
    <3> HIDE DEF l
    <3>3. Ciphered(Prev(i), l) = (Prev(i) + Crossed(p, K, l, l + 1, (k + 1) - l)) % 2
      BY <1>10, <1>13, <3>2
    <3> QED BY <3>1, <3>2, <3>3 DEF l
  <2>3. /\ i = 1 => Prev(i) = toSut[n - k]
        /\ i # 1 => Prev(i) = CellAfter(p, K, toSut, old, n, k, i - 1)
    <3>1. i # 1 => i - 1 \in 1..n
      BY <1>4
    <3> QED BY <1>3, <3>1 DEF Prev
  <2> DEFINE c == Prev(i)
  <2> HIDE DEF c
  <2>4. (c + Crossed(p, K, i - 1, i, (k + 1) - (i - 1))) % 2 = CellAfter(p, K, toSut, old, n, k + 1, i)
    <3>1. (i = 1 => c = toSut[n - k]) /\ (i # 1 => c = CellAfter(p, K, toSut, old, n, k, i - 1))
      BY <2>3 DEF c
    <3> QED BY <1>3, <1>4, <1>5, <1>6, <3>1, CellStep
  <2> QED BY <2>2, <2>4 DEF c
<1> DEFINE b == Ciphered(chain[n], n)
<1>17. b \in Bits /\ b = OutOf(p, K, old, n, n - k)
  <2>1. n \in 1..n
    BY <1>4, <1>5
  <2>2. chain[n] \in Bits /\ chain[n] = CellAfter(p, K, toSut, old, n, k, n)
    BY <1>3, <1>12, <2>1
  <2>3. b \in Bits
    BY <1>4, <1>11, <2>2
  <2>4. b = (chain[n] + Crossed(p, K, n, n + 1, (k + 1) - n)) % 2
    BY <1>4, <1>10, <2>2
  <2>5. b = OutOf(p, K, old, n, n - k)
    BY <1>4, <1>5, <1>6, <2>2, <2>4, OutStep
  <2> QED BY <2>3, <2>5
<1> HIDE DEF b
<1>18. /\ fromSut' \in Seq(Bits) /\ Len(fromSut') = k + 1
       /\ \A j \in 1..(k + 1) : fromSut'[j] = IF j = 1 THEN b ELSE fromSut[j - 1]
  <2>1. fromSut' = <<b>> \o fromSut
    BY <1>14 DEF b
  <2>2. <<b>> \in Seq(Bits) /\ Len(<<b>>) = 1 /\ <<b>>[1] = b
    BY <1>17
  <2>3. Len(fromSut) = k /\ fromSut \in Seq(Bits)
    BY <1>3 DEF k
  <2> DEFINE one == <<b>>
  <2>4. fromSut' \in Seq(Bits) /\ Len(fromSut') = 1 + k
        /\ \A j \in 1..(1 + k) : fromSut'[j] = IF j <= 1 THEN one[j] ELSE fromSut[j - 1]
    <3>1. one \in Seq(Bits) /\ Len(one) = 1 /\ fromSut' = one \o fromSut
      BY <2>1, <2>2
    <3> DEFINE rest == fromSut
               both == one \o rest
    <3>2. rest \in Seq(Bits) /\ Len(rest) = k
      BY <2>3
    <3> HIDE DEF one, rest
    <3>3. /\ both \in Seq(Bits) /\ Len(both) = Len(one) + Len(rest)
          /\ \A j \in 1..(Len(one) + Len(rest)) :
               both[j] = IF j <= Len(one) THEN one[j] ELSE rest[j - Len(one)]
      BY <3>1, <3>2, ConcatProperties
    <3> HIDE DEF both
    <3>4. both \in Seq(Bits) /\ Len(both) = 1 + k
          /\ \A j \in 1..(1 + k) : both[j] = IF j <= 1 THEN one[j] ELSE rest[j - 1]
      BY <3>1, <3>2, <3>3
    <3>5. fromSut' = both
      BY <3>1 DEF both, rest
    <3> QED BY <3>4, <3>5 DEF rest
  <2> QED BY <1>4, <2>2, <2>4
<1>19. ASSUME NEW j \in 1..(k + 1)
       PROVE  fromSut'[j] = OutOf(p, K, old, n, (n - (k + 1)) + j)
  <2>1. CASE j = 1
    <3>1. (n - (k + 1)) + j = n - k
      BY <1>4, <2>1
    <3> QED BY <1>17, <1>18, <2>1, <3>1
  <2>2. CASE j # 1
    <3>1. j - 1 \in 1..k /\ (n - k) + (j - 1) = (n - (k + 1)) + j
      BY <1>4, <2>2
    <3>2. fromSut'[j] = fromSut[j - 1]
      BY <1>18, <2>2
    <3>3. fromSut[j - 1] = OutOf(p, K, old, n, (n - k) + (j - 1))
      BY <1>3, <3>1
    <3> QED BY <3>1, <3>2, <3>3
  <2> QED BY <2>1, <2>2
<1>20. CycleInv'
  <2>1. \A s \in S : clocks'[s] >= k + 1
    BY <1>1, <1>2, <1>3, <1>4
  <2>2. k + 1 \in Nat /\ k + 1 <= n
    BY <1>4, <1>5
  <2>3. Shifting(p, K, protocol, next, sut, toSut, chain', fromSut')
    BY <1>3, <1>15, <1>16, <1>18, <1>19, <2>2 DEF Shifting, n, old
  <2>4. CycleKeys(path', key', clocks', Len(fromSut')) = K
    BY <1>2, <1>8, <1>18 DEF L
  <2> QED BY <1>2, <1>18, <2>1, <2>3, <2>4 DEF CycleInv
<1>21. KeysInv'
  <2>1. ASSUME NEW s \in Streamers, Kind[s] = "Trivium"
        PROVE  InStep(protocol[s], key[s], clocks'[s], Ahead(phase, path, n - (k + 1), s), cycles)
    <3>1. InStep(protocol[s], key[s], clocks[s], Ahead(phase, path, n - k, s), cycles)
      BY <1>5, <2>1 DEF Inv, KeysInv, k
    <3>2. clocks[s] + Ahead(phase, path, n - k, s) = clocks'[s] + Ahead(phase, path, n - (k + 1), s)
      <4>1. CASE s \in OnPath(path)
        <5>1. Ahead(phase, path, n - k, s) = n - k /\ Ahead(phase, path, n - (k + 1), s) = n - (k + 1)
          BY <1>2, <4>1 DEF Ahead
        <5>2. clocks'[s] = clocks[s] + 1 /\ clocks[s] \in Nat
          BY <1>1, <1>2, <4>1
        <5> QED BY <1>4, <5>1, <5>2
      <4>2. CASE s \notin OnPath(path)
        BY <1>1, <1>2, <4>2 DEF Ahead
      <4> QED BY <4>1, <4>2
    <3> QED BY <3>1, <3>2 DEF InStep
  <2>2. Len(toSut') - Len(fromSut') = n - (k + 1)
    BY <1>2, <1>5, <1>18
  <2> QED BY <1>2, <2>1, <2>2 DEF KeysInv
<1> QED BY <1>7, <1>20, <1>21 DEF Inv

\* The beginning of a cycle.
LEMMA SendVectorInv ==
  ASSUME Inv, NEW p \in Paths, SendVector(p)
  PROVE  Inv'
<1> DEFINE n == VectorLen(p)
           plain == Concatenated(p, next)
           old == Concatenated(p, sut)
           used == [s \in Streamers |-> IF s \in OnPath(p) THEN NewMask(s, Len(plain)) ELSE protocol[s]]
           K == CycleKeys(p, key, clocks, 0)
<1>1. /\ next \in RegisterValues /\ sut \in RegisterValues /\ clocks \in [Streamers -> Nat]
      /\ cycles \in 0..MaxCycles /\ key \in [Streamers -> KeyStreams]
      /\ protocol \in [Streamers -> Protocols]
  BY DEF Inv, TypeInv
<1>2. /\ phase = "idle" /\ cycles < MaxCycles /\ ~EmptySegment(p)
      /\ protocol' = used /\ toSut' = StreamersToSut(p, plain, used)
      /\ path' = p /\ phase' = "shift" /\ chain' = old /\ fromSut' = <<>> /\ cycles' = cycles + 1
      /\ UNCHANGED <<next, lastRead, sut, clocks, key>>
  BY DEF SendVector
<1>3. p \in Seq(PathItems) /\ n \in Nat /\ n <= LongestVector /\ MaxCycles \in Nat
  BY VectorLenType, KeysAssumption
<1>4. plain \in BitVectors(n) /\ Len(plain) = n /\ old \in BitVectors(n)
  BY <1>1, <1>3, VectorOfPath DEF VectorLen
<1>5. Segments(p)
  <2>1. ASSUME NEW s \in Streamers \cap OnPath(p) PROVE BeginOf(p, s) < EndOf(p, s)
    <3>1. BeginOf(p, s) \in Nat /\ EndOf(p, s) \in Nat /\ BeginOf(p, s) <= EndOf(p, s)
      BY EndsOfStreamer
    <3>2. BeginOf(p, s) # EndOf(p, s)
      BY <1>1, <1>2, BeginAndEnd DEF EmptySegment
    <3> QED BY <3>1, <3>2
  <2> QED BY <2>1 DEF Segments
<1>6. ASSUME NEW s \in Streamers, Kind[s] = "Trivium"
      PROVE  InStep(protocol[s], key[s], clocks[s], 0, cycles)
  BY <1>2, <1>6 DEF Inv, KeysInv, Ahead
<1>7. ASSUME NEW s \in Streamers \cap OnPath(p), Kind[s] = "Trivium"
      PROVE  /\ used[s] \in Protocols /\ used[s].mask \in BitVectors(n)
             /\ \A i \in 1..n : used[s].mask[i] = key[s][clocks[s] + ((n + 1) - i)]
             /\ InStep(used[s], key[s], clocks[s], n, cycles + 1)
  <2>1. used[s] = TriviumNewMask(s, n)
    BY <1>4, <1>7 DEF NewMask
  <2>2. InStep(protocol[s], key[s], clocks[s], 0, cycles)
    BY <1>6, <1>7
  <2> DEFINE c == cycles
             k == clocks[s]
  <2>3. protocol[s] \in Protocols /\ key[s] \in KeyStreams /\ k \in Nat /\ c \in Nat /\ c < MaxCycles
        /\ InStep(protocol[s], key[s], k, 0, c)
    BY <1>1, <1>2, <2>2
  <2> HIDE DEF n, used, c, k
  <2>4. /\ TriviumNewMask(s, n) \in Protocols
        /\ TriviumNewMask(s, n).mask \in BitVectors(n)
        /\ \A i \in 1..n : TriviumNewMask(s, n).mask[i] = key[s][k + ((n + 1) - i)]
        /\ InStep(TriviumNewMask(s, n), key[s], k, n, c + 1)
    BY <1>3, <2>3, TriviumNewMaskBits
  <2> QED BY <2>1, <2>4 DEF c, k
<1>8. ASSUME NEW s \in Streamers \cap OnPath(p), Kind[s] # "Trivium"
      PROVE  used[s] \in Protocols /\ used[s].mask = Zeroes(n) /\ used[s].mask \in BitVectors(n)
  <2>1. used[s] = [protocol[s] EXCEPT !.mask = Zeroes(n)]
    BY <1>4, <1>8 DEF NewMask
  <2>2. Zeroes(n) \in BitVectors(n)
    BY DEF Zeroes, BitVectors, Bits
  <2>3. Zeroes(n) \in Seq(Bits)
    BY <1>3, <2>2, BitVectorSeq
  <2>4. protocol[s] \in Protocols
    BY <1>1
  <2> HIDE DEF n, used
  <2> QED BY <2>1, <2>2, <2>3, <2>4 DEF Protocols
<1>9. used \in [Streamers -> Protocols]
  <2>1. ASSUME NEW s \in Streamers PROVE used[s] \in Protocols
    <3>1. CASE s \in OnPath(p)
      BY <1>7, <1>8, <3>1
    <3>2. CASE s \notin OnPath(p)
      BY <1>1, <3>2
    <3> QED BY <3>1, <3>2
  <2>2. used = [s \in Streamers |-> used[s]]
    OBVIOUS
  <2> HIDE DEF used
  <2> QED BY <2>1, <2>2
<1> HIDE DEF used
<1>10. TypeInv'
  <2>1. cycles' \in 0..MaxCycles
    BY <1>1, <1>2, <1>3
  <2> QED BY <1>1, <1>2, <1>9, <2>1 DEF TypeInv
<1>11. Masks(p, K, used, n)
  <2>1. ASSUME NEW s \in Streamers \cap OnPath(p)
        PROVE  /\ MaskFor(s, used[s].mask, n)
               /\ Kind[s] = "Trivium" => \A i \in 1..n : used[s].mask[i] = K[s][(n + 1) - i]
    <3>1. MaskFor(s, used[s].mask, n)
      BY <1>7, <1>8 DEF MaskFor
    <3>2. ASSUME Kind[s] = "Trivium", NEW i \in 1..n PROVE used[s].mask[i] = K[s][(n + 1) - i]
      <4>1. (n + 1) - i \in 1..n /\ clocks[s] - 0 = clocks[s]
        BY <1>1, <1>3
      <4>2. K[s][(n + 1) - i] = key[s][clocks[s] + ((n + 1) - i)]
        BY <4>1 DEF CycleKeys
      <4> QED BY <1>7, <3>2, <4>2
    <3> QED BY <3>1, <3>2
  <2> HIDE DEF K, n
  <2> QED BY <2>1 DEF Masks
<1> HIDE DEF K
<1>12. /\ toSut' \in BitVectors(n)
       /\ \A i \in 1..n : toSut'[i] = (plain[i] + Crossed(p, K, 0, i, (n + 1) - i)) % 2
  <2>1. p \in Paths /\ next \in RegisterValues /\ Segments(p) /\ n \in Nat /\ n = VectorLen(p)
        /\ Masks(p, K, used, n) /\ plain \in BitVectors(n) /\ toSut' = StreamersToSut(p, plain, used)
    BY <1>1, <1>2, <1>3, <1>4, <1>5, <1>11
  <2> QED BY <2>1, StreamersToSutBits, ZenonT(60)
<1>13. Len(fromSut') = 0 /\ fromSut' \in Seq(Bits)
  BY <1>2, EmptySeq
<1>14. \A i \in 1..n : chain'[i] = CellAfter(p, K, toSut', old, n, 0, i)
  BY <1>2, <1>3, <1>4, CellAtFirst
<1>15. CycleInv'
  <2>1. \A s \in Streamers \cap OnPath(p) : clocks'[s] >= 0
    BY <1>1, <1>2
  <2>2. Shifting(p, K, used, next, sut, toSut', chain', fromSut')
    <3>1. \A j \in 1..Len(fromSut') : fromSut'[j] = OutOf(p, K, old, n, (n - Len(fromSut')) + j)
      BY <1>13
    <3> QED BY <1>2, <1>3, <1>4, <1>5, <1>11, <1>12, <1>13, <1>14, <3>1 DEF Shifting
  <2>3. CycleKeys(path', key', clocks', Len(fromSut')) = K
    BY <1>2, <1>13 DEF K
  <2> QED BY <1>2, <1>13, <2>1, <2>2, <2>3 DEF CycleInv
<1>16. KeysInv'
  <2>1. Len(toSut') - Len(fromSut') = n
    <3> HIDE DEF n
    <3>1. Len(toSut') = n
      BY <1>3, <1>12, BitVectorSeq
    <3> QED BY <1>3, <1>13, <3>1
  <2>2. ASSUME NEW s \in Streamers, Kind[s] = "Trivium"
        PROVE  InStep(used[s], key[s], clocks[s], Ahead("shift", p, n, s), cycles + 1)
    <3>1. CASE s \in OnPath(p)
      BY <1>7, <2>2, <3>1 DEF Ahead
    <3>2. CASE s \notin OnPath(p)
      <4>1. used[s] = protocol[s] /\ Ahead("shift", p, n, s) = 0
        BY <3>2 DEF used, Ahead
      <4>2. InStep(protocol[s], key[s], clocks[s], 0, cycles)
        BY <1>6, <2>2
      <4>3. protocol[s].generated <= (cycles + 1) * (LongestVector + ByteBits)
        <5> DEFINE g == protocol[s].generated
                   c == cycles
        <5>1. g \in Nat /\ c \in Nat /\ c < MaxCycles /\ g <= c * (LongestVector + ByteBits)
          BY <1>1, <1>2, <4>2 DEF Protocols, InStep
        <5>2. 0 \in Nat /\ 0 <= LongestVector + ByteBits
          BY KeysAssumption
        <5> HIDE DEF g, c
        <5>3. g + 0 <= (c + 1) * (LongestVector + ByteBits)
          BY <5>1, <5>2, KeyBound
        <5>4. g + 0 = g
          BY <5>1
        <5> QED BY <5>3, <5>4 DEF g, c
      <4> QED BY <4>1, <4>2, <4>3 DEF InStep
    <3> QED BY <3>1, <3>2
  <2> QED BY <1>2, <2>1, <2>2 DEF KeysInv
<1> QED BY <1>10, <1>15, <1>16 DEF Inv

\* Every step preserves the invariant.
LEMMA NextInv ==
  ASSUME Inv, [Next]_vars
  PROVE  Inv'
<1>1. ASSUME NEW r \in Registers, NEW v \in BitVectors(Width[r]), iWrite(r, v) PROVE Inv'
  BY <1>1, iWriteInv
<1>2. ASSUME NEW p \in Paths, SendVector(p) PROVE Inv'
  BY <1>2, SendVectorInv
<1>3. ASSUME NEW p \in Paths, SendVectorThrows(p) PROVE Inv'
  BY <1>3, SendVectorThrowsInv
<1>4. CASE Clock
  BY <1>4, ClockInv
<1>5. CASE ReceiveVector
  BY <1>5, ReceiveVectorInv
<1>6. CASE UNCHANGED vars
  BY <1>6 DEF vars, sutVars, Inv, TypeInv, KeysInv, CycleInv
<1> QED BY <1>1, <1>2, <1>3, <1>4, <1>5, <1>6 DEF Next

-------------------------------------------------------------------------------
(* Theorems *)

\* The invariant holds in every reachable state.
LEMMA SpecInv == Spec => []Inv
<1>1. Init => Inv
  BY InitInv
<1>2. Inv /\ [Next]_vars => Inv'
  BY NextInv
<1> QED BY <1>1, <1>2, PTL DEF Spec

\* Between two data cycles the keystream that the model has used is exactly the
\* one the streamer of the SUT has used (KeystreamsInStep), for any streamers,
\* paths, register widths, keystreams and number of cycles: StreamerProtocol
\* makes its keystream by bytes and m_Residual_Xor_Mask loses none of it.
THEOREM StreamersStayInStep == Spec => []KeystreamsInStep
<1>1. Inv => KeystreamsInStep
  <2> SUFFICES ASSUME Inv, phase = "idle", NEW s \in Streamers, Kind[s] = "Trivium"
               PROVE  protocol[s].generated - Len(protocol[s].residual) = clocks[s]
    BY DEF KeystreamsInStep
  <2>1. InStep(protocol[s], key[s], clocks[s], 0, cycles)
    BY DEF Inv, KeysInv, Ahead
  <2>2. clocks[s] \in Nat /\ Len(protocol[s].residual) \in Nat
    <3>1. protocol[s].residual \in Seq(Bits)
      BY DEF Inv, TypeInv, Protocols
    <3> QED BY <3>1, LenProperties DEF Inv, TypeInv
  <2> QED BY <2>1, <2>2 DEF InStep
<1> QED BY <1>1, SpecInv, PTL

\* What a cycle leaves behind in the SUT and in the model.
LEMMA EndOfCycle ==
  ASSUME Inv, [Next]_vars, phase = "shift", phase' = "idle",
         NEW r \in Registers \cap OnPath(path)
  PROVE  sut'[r] = next[r] /\ lastRead'[r] = sut[r]
<1>1. ReceiveVector
  BY DEF Next, vars, sutVars, iWrite, SendVector, SendVectorThrows, Clock
<1>2. next \in RegisterValues /\ sut \in RegisterValues
  BY DEF Inv, TypeInv
<1>3. /\ path \in Paths
      /\ chain = Concatenated(path, next)
      /\ StreamersFromSut(path, fromSut, protocol) = Concatenated(path, sut)
  BY <1>1, CycleEnd DEF ReceiveVector
<1>4. /\ sut'[r] = Slice(Concatenated(path, next), Offset(path, Scan(r)), Width[r])
      /\ lastRead'[r] = Slice(Concatenated(path, sut), Offset(path, Scan(r)), Width[r])
  BY <1>1, <1>3 DEF ReceiveVector, Distributed
<1> QED BY <1>2, <1>3, <1>4, SliceOfRegister

\* A register on the path receives the value the model has for it, through any
\* number of streamers around, in front of and behind it (SutGetsPlainBits): what
\* ApplyStreamerToSut adds to a bit is what the bit meets on its way in.
THEOREM SutGetsPlain == Spec => SutGetsPlainBits
<1>1. Inv /\ [Next]_vars
        => [phase = "shift" /\ phase' = "idle"
              => \A r \in Registers \cap OnPath(path) : sut'[r] = next[r]]_vars
  BY EndOfCycle
<1> QED BY <1>1, SpecInv, PTL DEF Spec, SutGetsPlainBits

\* What a register reads is what the SUT held (ModelReadsPlainBits): what
\* ApplyStreamerFromSut adds to a bit is what it has met on its way out.
THEOREM ModelReadsPlain == Spec => ModelReadsPlainBits
<1>1. Inv /\ [Next]_vars
        => [phase = "shift" /\ phase' = "idle"
              => \A r \in Registers \cap OnPath(path) : lastRead'[r] = sut[r]]_vars
  BY EndOfCycle
<1> QED BY <1>1, SpecInv, PTL DEF Spec, ModelReadsPlainBits
====
