---------------------------- MODULE BinaryVector ----------------------------
(***************************************************************************)
(* Class BinaryVector: a vector of bits packed into bytes, most significant *)
(* bit first, the last byte left aligned.  Every value that goes to or      *)
(* comes from the SUT, and every expected value and mask, is one.           *)
(*                                                                         *)
(* A byte has ByteBits bits (8 in the code; every shift and mask of the      *)
(* code is written in terms of it) and is a function from the offset of a    *)
(* bit, 0 being the leftmost, to the bit.  A vector is the record of the     *)
(* three members of the class.  An operator with the name of a member        *)
(* function is that function, from the vector before the call to the one     *)
(* after it; what the function checks first is the guard of the action that  *)
(* calls it, a call that throws at that point leaving the vector alone.      *)
(*                                                                         *)
(* The state is one vector and, beside it, the sequence of bits it stands    *)
(* for: a step is one call, made on both.                                    *)
(***************************************************************************)
EXTENDS BitSequence, SequencesExt, FiniteSets

CONSTANTS
  ByteBits,            \* bits in a byte: 8 in the code
  MaxBits,             \* bound on the bits of the vector
  MaxArgBits,          \* bound on the bits of a vector passed to a call
  AppendBitsAnywhere   \* AppendBits is called with whole bytes on a vector that
                       \* does not end on a byte boundary

ASSUME ByteBitsAssumption == ByteBits \in Nat /\ ByteBits >= 2

VARIABLES
  vec,                 \* the vector
  bits                 \* the bits its callers take it for

vars == <<vec, bits>>

-----------------------------------------------------------------------------
(* Bytes: the shifts, and the tables LEFT_BITS_MASK_8, LEFT_BITS_CLEAR_MASK_8 *)
(* and RIGHT_BITS_MASK_8 as the functions that apply them.                    *)

BitPos == 0 .. ByteBits - 1
Byte   == [BitPos -> Bit]
Fill(b) == [i \in BitPos |-> b]

Shl(b, n)       == [i \in BitPos |-> IF i + n < ByteBits THEN b[i + n] ELSE 0]
Shr(b, n)       == [i \in BitPos |-> IF i >= n THEN b[i - n] ELSE 0]
KeepLeft(b, n)  == [i \in BitPos |-> IF i < n THEN b[i] ELSE 0]
ClearLeft(b, n) == [i \in BitPos |-> IF i < n THEN 0 ELSE b[i]]
KeepRight(b, n) == [i \in BitPos |-> IF i >= ByteBits - n THEN b[i] ELSE 0]
Merge(a, b)     == OrBits(a, b)

\* Bytes needed for n bits, and the bits used in the last of them.
BytesCountFromBitsCount(n) == (n + ByteBits - 1) \div ByteBits

LastByteBitsCount(n) == IF n = 0 THEN 0 ELSE ((n - 1) % ByteBits) + 1

-----------------------------------------------------------------------------
(* Construction, and the bits a vector stands for.                           *)

\* A vector with other bits, its size as fixed as before.
With(v, data, used) == [data |-> data, used |-> used, fixed |-> v.fixed]

BitAt(v, o) == v.data[o \div ByteBits + 1][o % ByteBits]

Bits(v) == [i \in 1 .. v.used |-> BitAt(v, i - 1)]

MaskLastByte(v) ==
  IF v.used % ByteBits = 0 THEN v
  ELSE With(v, Front(v.data) \o <<KeepLeft(Last(v.data), v.used % ByteBits)>>, v.used)

FromBytes(data, n, fixed) ==
  LET size == BytesCountFromBitsCount(n)
  IN  MaskLastByte([ data  |-> [j \in 1 .. size |-> IF j <= Len(data) THEN data[j] ELSE Fill(0)],
                     used  |-> n,
                     fixed |-> fixed ])

NewVector(n, pattern, fixed) ==
  FromBytes([j \in 1 .. BytesCountFromBitsCount(n) |-> pattern], n, fixed)

EmptyVector == NewVector(0, Fill(0), FALSE)

\* The vector of a sequence of bits: the arguments of the calls.
VectorOf(s) ==
  FromBytes([j \in 1 .. BytesCountFromBitsCount(Len(s)) |->
               [i \in BitPos |-> LET k == (j - 1) * ByteBits + i + 1
                                 IN  IF k <= Len(s) THEN s[k] ELSE 0]],
            Len(s), FALSE)

Clear(v) == With(v, <<>>, 0)

\* Copy and move assignment: the size property of the target stays.
Assign(v, rhs) == With(v, rhs.data, rhs.used)

CanAssign(v, n) == v.fixed => n = v.used

FixSize(v, fixed) == [data |-> v.data, used |-> v.used, fixed |-> fixed]

-----------------------------------------------------------------------------
(* Appending.                                                                *)

\* The n bits of a byte at its left end, the others being zero.
LeftAligned(value, n, alignment) ==
  KeepLeft(IF alignment = "Right" THEN Shl(value, ByteBits - n) ELSE value, n)

\* Appends the n leftmost or rightmost bits of a byte.
AppendByte(v, value, n, alignment) ==
  LET left  == LeftAligned(value, n, alignment)
      taken == v.used % ByteBits
      free  == ByteBits - taken
      mixed == Front(v.data) \o <<Merge(Last(v.data), Shr(left, taken))>>
  IN  With(v, IF taken = 0 THEN Append(v.data, left)
              ELSE IF free >= n THEN mixed
              ELSE Append(mixed, Shl(left, free)),
           v.used + n)

AppendBytes(v, bytes) ==
  FoldLeft(LAMBDA w, b : AppendByte(w, b, ByteBits, "Right"), v, bytes)

AppendVector(v, rhs) ==
  LET full == rhs.used \div ByteBits
      rest == rhs.used % ByteBits
      most == AppendBytes(v, SubSeq(rhs.data, 1, full))
  IN  IF rest = 0 THEN most ELSE AppendByte(most, rhs.data[full + 1], rest, "Left")

\* Appends n bits of an integer given as its bytes, most significant first.
AppendChunks(v, n, alignment, chunks) ==
  LET more    == (n - 1) \div ByteBits                  \* chunks after the first
      skipped == IF alignment = "Right" THEN Len(chunks) - 1 - more ELSE 0
      size(j) == IF alignment = "Left"
                   THEN IF n - j * ByteBits < ByteBits THEN n - j * ByteBits ELSE ByteBits
                   ELSE IF j = 0 THEN n - more * ByteBits ELSE ByteBits
  IN  FoldLeft(LAMBDA w, j : AppendByte(w, chunks[skipped + j + 1], size(j), alignment),
               v, [j \in 1 .. more + 1 |-> j - 1])

\* The whole bytes go to the end of the buffer without being shifted to the
\* first free bit.
AppendBits(v, bit, count) ==
  LET full == count \div ByteBits
      rest == count % ByteBits
      most == With(v, v.data \o Repeat(Fill(bit), full), v.used + full * ByteBits)
  IN  IF rest = 0 THEN most ELSE AppendByte(most, Fill(bit), rest, "Right")

PrependBits(v, n, pattern) == Assign(v, AppendVector(NewVector(n, pattern, FALSE), v))

-----------------------------------------------------------------------------
(* Slices.                                                                   *)

\* Mutant: the bits of the first byte are not brought to its left end.
SliceUnshifted(v, o, n) ==
  LET first == IF n < ByteBits - (o % ByteBits) THEN n ELSE ByteBits - (o % ByteBits)
      at    == o \div ByteBits + 1
      head  == AppendByte(EmptyVector, v.data[at], first, "Left")
      full  == (n - first) \div ByteBits
      rest  == (n - first) % ByteBits
      most  == AppendBytes(head, SubSeq(v.data, at + 1, at + full))
  IN  IF n = 0 THEN EmptyVector
      ELSE IF rest = 0 THEN most
      ELSE AppendByte(most, v.data[at + full + 1], rest, "Left")

Slice(v, o, n) ==
  LET first == IF n < ByteBits - (o % ByteBits) THEN n ELSE ByteBits - (o % ByteBits)
      at    == o \div ByteBits + 1
      head  == AppendByte(EmptyVector, Shl(v.data[at], o % ByteBits), first, "Left")
      full  == (n - first) \div ByteBits
      rest  == (n - first) % ByteBits
      most  == AppendBytes(head, SubSeq(v.data, at + 1, at + full))
  IN  IF n = 0 THEN EmptyVector
      ELSE IF rest = 0 THEN most
      ELSE AppendByte(most, v.data[at + full + 1], rest, "Left")

\* Mutant: a value that ends inside a byte of the target takes that whole byte.
SetSlice_ImplTakesLastByte(v, o, n, source, past) ==
  LET off == o % ByteBits
      fst == o \div ByteBits + 1
      src(k) == IF k <= Len(source) THEN source[k] ELSE past
      crossing(k) == Merge(Shl(KeepRight(src(k), off), ByteBits - off),
                           Shr(KeepLeft(src(k + 1), ByteBits - off), off))
      lastByte == (o + n - 1) \div ByteBits + 1
  IN  With(v, [j \in DOMAIN v.data |->
                 IF j \notin fst .. lastByte THEN v.data[j]
                 ELSE IF off = 0 THEN src(j - fst + 1)
                 ELSE IF j = fst THEN Merge(KeepLeft(v.data[j], off), Shr(src(1), off))
                 ELSE crossing(j - fst)], v.used)

\* Writes n bits of source at offset o.  The last byte of the target that a
\* split source reaches is put together from two source bytes, the second of
\* which may be the one after the source (past): the code reads it and masks
\* it off.
SetSlice_Impl(v, o, n, source, past) ==
  LET off  == o % ByteBits                       \* split point in the bytes of the target
      fst  == o \div ByteBits + 1
      src(k) == IF k <= Len(source) THEN source[k] ELSE past
      \* left aligned: whole bytes, then the rest of the last one
      full == n \div ByteBits
      rest == n % ByteBits
      aligned(j, old) ==
        IF j < fst + full THEN src(j - fst + 1)
        ELSE IF j = fst + full /\ rest # 0
               THEN Merge(ClearLeft(old, rest), KeepLeft(src(full + 1), rest))
               ELSE old
      \* inside one byte of the target
      within(j, old) ==
        IF j = fst THEN Merge(Merge(KeepLeft(old, off), ClearLeft(old, off + n)),
                              Shr(KeepLeft(src(1), n), off))
        ELSE old
      \* over several bytes of the target
      head == ByteBits - off
      crossing(k) == Merge(Shl(KeepRight(src(k), off), head),
                           Shr(KeepLeft(src(k + 1), head), off))
      left(k) == n - head - (k - 1) * ByteBits   \* bits remaining before byte fst + k
      split(j, old) ==
        IF j = fst THEN Merge(KeepLeft(old, off), Shr(KeepLeft(src(1), head), off))
        ELSE IF left(j - fst) >= ByteBits THEN crossing(j - fst)
        ELSE IF left(j - fst) > 0
               THEN Merge(ClearLeft(old, left(j - fst)),
                          KeepLeft(crossing(j - fst), left(j - fst)))
               ELSE old
  IN  With(v, [j \in DOMAIN v.data |->
                 IF j < fst THEN v.data[j]
                 ELSE IF off = 0 THEN aligned(j, v.data[j])
                 ELSE IF off + n < ByteBits THEN within(j, v.data[j])
                 ELSE split(j, v.data[j])], v.used)

\* Writes an integer, given as its bytes, into a range of n bits.
SetSlice_T(v, o, n, value, past) ==
  LET width == Len(value) * ByteBits
      asBinaryVector ==
        IF n > width THEN AppendChunks(AppendBits(EmptyVector, 0, n - width), width, "Right", value)
        ELSE AppendChunks(EmptyVector, n, "Right", value)
  IN  SetSlice_Impl(v, o, n, asBinaryVector.data, past)

\* Bytes whose first one is partly used, brought to the left: the vector of a
\* buffer that comes from a protocol.
ShiftBufferLeft(buffer, n) ==
  LET size   == BytesCountFromBitsCount(n)
      shift  == ByteBits - LastByteBitsCount(n)
      src(j) == buffer[Len(buffer) - size + j]
  IN  IF n = 0 THEN buffer
      ELSE IF shift = 0 THEN [j \in 1 .. size |-> src(j)]
      ELSE [j \in 1 .. size |->
              IF j = size THEN Shl(src(j), shift)
              ELSE Merge(Shl(src(j), shift), Shr(src(j + 1), ByteBits - shift))]

CreateFromRightAlignedBuffer(buffer, n) == FromBytes(ShiftBufferLeft(buffer, n), n, FALSE)

DataRightAligned(v) ==
  LET l == LastByteBitsCount(v.used)
  IN  IF l = 0 THEN v.data
      ELSE [j \in DOMAIN v.data |->
              IF j = 1 THEN KeepRight(Shr(v.data[1], ByteBits - l), l)
              ELSE Merge(KeepLeft(Shl(v.data[j - 1], l), ByteBits - l),
                         KeepRight(Shr(v.data[j], ByteBits - l), l))]

ReverseByte(b) == [i \in BitPos |-> b[ByteBits - 1 - i]]

ReverseSlice(v, o, n) ==
  LET slice == Slice(v, o, n)
      size  == Len(slice.data)
  IN  IF n = 0 THEN EmptyVector
      ELSE CreateFromRightAlignedBuffer([j \in 1 .. size |-> ReverseByte(slice.data[size + 1 - j])], n)

-----------------------------------------------------------------------------
(* Single bits, bitwise operations, leading zeroes.                          *)

SetBitAt(v, o, b) ==
  With(v, [v.data EXCEPT ![o \div ByteBits + 1] = [@ EXCEPT ![o % ByteBits] = b]], v.used)

SetBit(v, o)    == SetBitAt(v, o, 1)
ClearBit(v, o)  == SetBitAt(v, o, 0)
ToggleBit(v, o) == SetBitAt(v, o, 1 - BitAt(v, o))

ToggleBits(v) == MaskLastByte(With(v, [j \in DOMAIN v.data |-> Flip(v.data[j])], v.used))

Bytewise(v, rhs, Op(_, _)) ==
  MaskLastByte(With(v, [j \in DOMAIN v.data |-> Op(v.data[j], rhs.data[j])], v.used))

LeadingZeroesCount(v) ==
  IF \A j \in DOMAIN v.data : v.data[j] = Fill(0) THEN v.used
  ELSE LET j      == CHOOSE j \in DOMAIN v.data : /\ v.data[j] # Fill(0)
                                                 /\ \A k \in 1 .. j - 1 : v.data[k] = Fill(0)
           before == (j - 1) * ByteBits
           zeroes == CHOOSE i \in BitPos : v.data[j][i] = 1 /\ KeepLeft(v.data[j], i) = Fill(0)
       IN  before + (IF zeroes < v.used - before THEN zeroes ELSE v.used - before)

TruncateLeadingZeroes(v, n) == Assign(v, Slice(v, n, v.used - n))

-----------------------------------------------------------------------------
(* Integers: a value of k bytes, most significant first.                     *)

IsNegative(v) == v.data[1][0] = 1

\* Mutant: the sign is not extended into the first byte.
MergeToByteUnsigned(v, j, n, asSigned) ==
  LET low == Shr(v.data[j], ByteBits - n)
  IN  IF j = 1 THEN low ELSE Merge(Shl(v.data[j - 1], n), low)

\* The byte that ends with the n leftmost bits of byte j.
MergeToByte(v, j, n, asSigned) ==
  LET low == Shr(v.data[j], ByteBits - n)
  IN  IF j = 1 THEN IF asSigned /\ IsNegative(v)
                      THEN Merge(low, KeepLeft(Fill(1), ByteBits - n)) ELSE low
      ELSE Merge(Shl(v.data[j - 1], n), low)

\* Get into an integer of k bytes.
Get(v, k, asSigned) ==
  LET fill == Fill(IF asSigned /\ IsNegative(v) THEN 1 ELSE 0)
  IN  [i \in 1 .. k |->
         IF v.used > (k - i) * ByteBits
           THEN MergeToByte(v, Len(v.data) - (k - i), LastByteBitsCount(v.used), asSigned)
           ELSE fill]

\* SetSigned and SetUnsigned: a vector of fixed size keeps its size.
SetInteger(v, value, asSigned) ==
  LET width == Len(value) * ByteBits
      empty == Clear(FixSize(v, FALSE))
      sign  == IF asSigned THEN value[1][0] ELSE 0
  IN  IF ~v.fixed THEN AppendChunks(Clear(v), width, "Right", value)
      ELSE FixSize(IF v.used > width
                     THEN AppendChunks(AppendBits(empty, sign, v.used - width), width, "Right", value)
                     ELSE AppendChunks(empty, v.used, "Right", value), TRUE)

-----------------------------------------------------------------------------
(* Comparison.                                                               *)

CompareEqualTo(v, rhs) ==
  /\ v.used = rhs.used
  /\ v.used # 0 =>
       IF v.used % ByteBits = 0 THEN v.data = rhs.data
       ELSE /\ Front(v.data) = Front(rhs.data)
            /\ KeepLeft(Last(v.data), v.used % ByteBits) = KeepLeft(Last(rhs.data), v.used % ByteBits)

\* Mutant: the mask moves on only past bytes that differ.
CompareEqualToMaskedLate(v, rhs, mask) ==
  IF mask.data = <<>> THEN CompareEqualTo(v, rhs)
  ELSE /\ v.used = rhs.used
       /\ \A j \in DOMAIN v.data :
            LET m == Cardinality({k \in 1 .. j - 1 : v.data[k] # rhs.data[k]}) + 1
            IN  AndBits(XorBits(v.data[j], rhs.data[j]), mask.data[m]) = Fill(0)

\* The mask has as many bits as the vectors, or the call throws.
CompareEqualToMasked(v, rhs, mask) ==
  IF mask.data = <<>> THEN CompareEqualTo(v, rhs)
  ELSE /\ v.used = rhs.used
       /\ \A j \in DOMAIN v.data :
            AndBits(XorBits(v.data[j], rhs.data[j]), mask.data[j]) = Fill(0)

-----------------------------------------------------------------------------
(* The calls.  Each action makes one on the vector and on the bits.          *)

Args  == BitSeqsTo(MaxArgBits)
Words == [1 .. 1 -> Byte] \cup [1 .. 2 -> {Fill(1), [i \in BitPos |-> i % 2]}]

WordBits(value) == [i \in 1 .. Len(value) * ByteBits |->
                      value[(i - 1) \div ByteBits + 1][(i - 1) % ByteBits]]

Becomes(v, s) == Len(s) <= MaxBits /\ vec' = v /\ bits' = s

Init == \E s \in Args, fixed \in BOOLEAN :
          vec = FixSize(VectorOf(s), fixed) /\ bits = s

CallFixSize == \E fixed \in BOOLEAN : Becomes(FixSize(vec, fixed), bits)

CallClear == Becomes(Clear(vec), <<>>)

CallAssign == \E s \in Args : CanAssign(vec, Len(s)) /\ Becomes(Assign(vec, VectorOf(s)), s)

CallAppend == \E s \in Args : ~vec.fixed /\ Becomes(AppendVector(vec, VectorOf(s)), bits \o s)

\* Append of an integer of one, two... bytes, of which n bits are taken.
CallAppendInteger ==
  \E value \in Words, alignment \in {"Left", "Right"} :
    \E n \in 1 .. Len(value) * ByteBits :
      /\ ~vec.fixed
      /\ LET word == WordBits(value)
         IN  Becomes(AppendChunks(vec, n, alignment, value),
                     bits \o (IF alignment = "Left" THEN BitsAt(word, 0, n)
                              ELSE LowBits(word, n, 0)))

\* Without AppendBitsAnywhere, the vector ends on a byte boundary when whole
\* bytes are appended, as in the calls of SetInteger and SetSlice_T.  Whether the
\* size is fixed is looked at for the bits of the last, partial byte only: on a
\* vector of fixed size they throw, after the whole bytes have been added.
CallAppendBits ==
  \E bit \in Bit, n \in 1 .. MaxBits :
    LET added == IF vec.fixed THEN n - (n % ByteBits) ELSE n
    IN  /\ AppendBitsAnywhere \/ added < ByteBits \/ vec.used % ByteBits = 0
        /\ Becomes(AppendBits(vec, bit, added), bits \o Repeat(bit, added))

CallPrependBits ==
  \E n \in 1 .. MaxArgBits, b \in Bit :
    CanAssign(vec, vec.used + n) /\ Becomes(PrependBits(vec, n, Fill(b)), Repeat(b, n) \o bits)

CallSetBit ==
  \E o \in 0 .. vec.used - 1 :
    \/ Becomes(SetBit(vec, o),    Overwrite(bits, o, <<1>>))
    \/ Becomes(ClearBit(vec, o),  Overwrite(bits, o, <<0>>))
    \/ Becomes(ToggleBit(vec, o), Overwrite(bits, o, <<1 - bits[o + 1]>>))

CallToggleBits == Becomes(ToggleBits(vec), Flip(bits))

CallBitwise ==
  \E s \in BitSeqs(vec.used) :
    /\ vec.used <= MaxArgBits
    /\ \/ Becomes(Bytewise(vec, VectorOf(s), AndBits), AndBits(bits, s))
       \/ Becomes(Bytewise(vec, VectorOf(s), OrBits),  OrBits(bits, s))
       \/ Becomes(Bytewise(vec, VectorOf(s), XorBits), XorBits(bits, s))

\* An empty value has no data to point at: the call throws.
CallSetSlice ==
  \E s \in Args, past \in {Fill(0), Fill(1)} :
    \E o \in 0 .. vec.used - Len(s) :
      /\ s # <<>>
      /\ Becomes(SetSlice_Impl(vec, o, Len(s), VectorOf(s).data, past), Overwrite(bits, o, s))

\* SetSlice of a range (left, right), left <= right: the range starts at offset
\* left of the vector.  A range that decreases toward the right throws.
CallSetSliceInteger ==
  \E value \in Words, n \in 1 .. vec.used, past \in {Fill(0), Fill(1)} :
    \E o \in 0 .. vec.used - n :
      LET word == WordBits(value)
      IN  /\ \A i \in 1 .. Len(word) - n : word[i] = 0      \* the value fits the range
          /\ Becomes(SetSlice_T(vec, o, n, value, past), Overwrite(bits, o, LowBits(word, n, 0)))

\* On an empty vector of fixed size Append throws.
CallSet ==
  \E value \in Words, asSigned \in BOOLEAN :
    /\ vec.fixed => vec.used # 0
    /\ LET word == WordBits(value)
           sign == IF asSigned THEN word[1] ELSE 0
       IN  Becomes(SetInteger(vec, value, asSigned),
                   LowBits(word, IF vec.fixed THEN vec.used ELSE Len(word), sign))

CallTruncate ==
  \E n \in 1 .. LeadingZeroesCount(vec) :
    CanAssign(vec, vec.used - n) /\ Becomes(TruncateLeadingZeroes(vec, n), BitsAt(bits, n, Len(bits) - n))

Next ==
  \/ CallFixSize \/ CallClear \/ CallAssign \/ CallAppend \/ CallAppendInteger
  \/ CallAppendBits \/ CallPrependBits \/ CallSetBit \/ CallToggleBits
  \/ CallBitwise \/ CallSetSlice \/ CallSetSliceInteger \/ CallSet \/ CallTruncate

Spec == Init /\ [][Next]_vars

-----------------------------------------------------------------------------
(* Properties.                                                               *)

\* Any sequence of calls leaves in the buffer the bits that the same calls leave
\* in a sequence of bits, offsets and ranges being counted from the left as the
\* code and its unit tests count them (the comments on SetSlice of an IndexedRange
\* count from the right), whatever the alignment of the vector and of the
\* arguments, and whatever lies after the source of SetSlice_Impl.  There are as
\* many bytes as the bits need, and the unused bits of the last one are zero: the masked
\* CompareEqualTo, LeadingZeroesCount and ReverseSlice depend on it.
RepresentsBits ==
  /\ vec.used = Len(bits) /\ Bits(vec) = bits
  /\ Len(vec.data) = BytesCountFromBitsCount(vec.used)
  /\ \A o \in vec.used .. Len(vec.data) * ByteBits - 1 : BitAt(vec, o) = 0

\* Every slice, straight or reversed, and the right aligned buffer that goes to
\* a protocol and back, hold the bits they should.
SlicesAgree ==
  /\ \A o \in 0 .. vec.used : \A n \in 0 .. vec.used - o :
       /\ Bits(Slice(vec, o, n)) = BitsAt(bits, o, n)
       /\ Bits(ReverseSlice(vec, o, n)) = BitsAtReversed(bits, o, n)
  /\ Bits(CreateFromRightAlignedBuffer(DataRightAligned(vec), vec.used)) = bits

\* Reading the vector as an integer of any size gives its least significant
\* bits, extended with zeroes or with the sign; and the leading zeroes are
\* counted right.
IntegersAgree ==
  /\ vec.used # 0 => \A k \in 1 .. 3, asSigned \in BOOLEAN :
       WordBits(Get(vec, k, asSigned)) = LowBits(bits, k * ByteBits, IF asSigned THEN bits[1] ELSE 0)
  /\ LET zeroes == LeadingZeroesCount(vec)
     IN  /\ \A i \in 1 .. zeroes : bits[i] = 0
         /\ zeroes < Len(bits) => bits[zeroes + 1] = 1

\* The comparisons that decide whether a read counts as a mismatch say what the
\* bits say, under every mask.
ComparisonsAgree ==
  vec.used <= MaxArgBits =>
    \A s \in BitSeqs(vec.used) :
      /\ CompareEqualTo(vec, VectorOf(s)) <=> (bits = s)
      /\ \A mask \in BitSeqs(vec.used) :
           CompareEqualToMasked(vec, VectorOf(s), VectorOf(mask)) <=> AgreeUnder(bits, s, mask)
===============================================================================
