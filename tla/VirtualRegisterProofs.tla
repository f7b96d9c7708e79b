------------------------- MODULE VirtualRegisterProofs -------------------------
(***************************************************************************)
(* Proofs about VirtualRegister, for every register and width, for views     *)
(* made of any slices, which may overlap, and for both orderings.            *)
(*                                                                         *)
(* The work is in the loops over the slices.  After each slice the registers *)
(* are the ones the loop began with, except for the bits the slices so far   *)
(* stand for (Written), and the next bit of the value is the one after those *)
(* that are used up; at the end the bits are those of the definition of the  *)
(* view.  The invariants of the specification follow from that.              *)
(***************************************************************************)
EXTENDS VirtualRegister, SequenceTheorems, TLAPS

-------------------------------------------------------------------------------
(* The loops over the slices of a view *)

\* The slice of a vector, for a bits ordering.
SliceOf(o, left, right, vector) ==
  BitsAt(vector, IF o = "Upto" THEN left ELSE Len(vector) - 1 - left, RangeWidth(left, right))

\* Number of the first bit of a value.
FirstLeft(v) == IF ordering = "Upto" THEN 0 ELSE BitsCount(v) - 1

\* What each loop does with one slice: BitsCount.
CountStep(c, n, s) == n + RangeWidth(s.left, s.right)

\* The bits a view stands for.
BitsStep(o, bits, s) == bits \o SliceBits(s, o)

\* GetView, c being the ordering and the vectors of the registers.
GetStep(c, bits, s) == bits \o SliceOf(c[1], s.left, s.right, c[2][s.reg])

\* SetToSut: the registers so far and the next bit of the value.
ToSutStep(sequence, acc, s) ==
  [ regs |-> [acc.regs EXCEPT ![s.reg].next =
                SetSlice(s, @, GetSlice(acc.left, ValueRight(s, acc.left), sequence))],
    left |-> NextLeft(ValueRight(s, acc.left)) ]

\* SetMaskedExpected, c being the value expected and its mask.
MaskedStep(c, acc, s) ==
  [ regs |-> SetMaskedSlice(acc.regs, s, acc.left, ValueRight(s, acc.left), c[1], c[2]),
    left |-> NextLeft(ValueRight(s, acc.left)) ]

\* SetUnmaskedExpected.
UnmaskedStep(sequence, acc, s) ==
  [ regs |-> [acc.regs EXCEPT ![s.reg].expected =
                SetSlice(s, @, GetSlice(acc.left, ValueRight(s, acc.left), sequence))],
    left |-> NextLeft(ValueRight(s, acc.left)) ]

\* The lemmas about folds for each of them.
Count    == INSTANCE FoldLemmas WITH Op <- CountStep
Bits     == INSTANCE FoldLemmas WITH Op <- BitsStep
Get      == INSTANCE FoldLemmas WITH Op <- GetStep
ToSut    == INSTANCE FoldLemmas WITH Op <- ToSutStep
Masked   == INSTANCE FoldLemmas WITH Op <- MaskedStep
Unmasked == INSTANCE FoldLemmas WITH Op <- UnmaskedStep

\* BitsCount as a fold of its step.
LEMMA CountFold ==
  ASSUME NEW v, NEW o
  PROVE  BitsCountFor(v, o) = Count!FoldOfSeq(0, 0, Slices(v, o))
BY SMTT(30) DEF BitsCountFor, FoldLeft, MapThenFoldSet, Max, CountStep,
       Count!FoldOfSeq, Count!FoldLeft, Count!MapThenFoldSet, Count!Max

\* The bits of a view as a fold of their step.
LEMMA BitsFold ==
  ASSUME NEW v \in ViewNames, NEW o \in Orderings
  PROVE  ViewBitsFor[v][o] = Bits!FoldOfSeq(o, <<>>, Slices(v, o))
BY SMTT(30) DEF ViewBitsFor, FoldLeft, MapThenFoldSet, Max, BitsStep,
       Bits!FoldOfSeq, Bits!FoldLeft, Bits!MapThenFoldSet, Bits!Max

\* GetView as a fold of its step.
LEMMA GetFold ==
  ASSUME NEW v, NEW getter
  PROVE  GetView(v, getter) = Get!FoldOfSeq(<<ordering, getter>>, <<>>, Slices(v, ordering))
BY SMTT(30) DEF GetView, GetSlice, RangeOffset, SliceOf, FoldLeft, MapThenFoldSet, Max, GetStep,
       Get!FoldOfSeq, Get!FoldLeft, Get!MapThenFoldSet, Get!Max

\* SetToSut as a fold of its step.
LEMMA ToSutFold ==
  ASSUME NEW v, NEW sequence
  PROVE  SetToSut(v, sequence) =
           ToSut!FoldOfSeq(sequence, [regs |-> regs, left |-> FirstLeft(v)], Slices(v, ordering)).regs
BY SMTT(30) DEF SetToSut, UpdateRegisters, FirstLeft, FoldLeft, MapThenFoldSet, Max, ToSutStep,
       ToSut!FoldOfSeq, ToSut!FoldLeft, ToSut!MapThenFoldSet, ToSut!Max

\* SetMaskedExpected as a fold of its step.
LEMMA MaskedFold ==
  ASSUME NEW v, NEW sequence, NEW mask
  PROVE  SetMaskedExpected(v, sequence, mask) =
           Masked!FoldOfSeq(<<sequence, mask>>, [regs |-> regs, left |-> FirstLeft(v)],
                            Slices(v, ordering)).regs
BY SMTT(30) DEF SetMaskedExpected, UpdateRegisters, FirstLeft, FoldLeft, MapThenFoldSet, Max, MaskedStep,
       Masked!FoldOfSeq, Masked!FoldLeft, Masked!MapThenFoldSet, Masked!Max

\* SetUnmaskedExpected as a fold of its step.
LEMMA UnmaskedFold ==
  ASSUME NEW v, NEW sequence
  PROVE  SetUnmaskedExpected(v, sequence) =
           Unmasked!FoldOfSeq(sequence, [regs |-> regs, left |-> FirstLeft(v)], Slices(v, ordering)).regs
BY SMTT(30) DEF SetUnmaskedExpected, UpdateRegisters, FirstLeft, FoldLeft, MapThenFoldSet, Max, UnmaskedStep,
       Unmasked!FoldOfSeq, Unmasked!FoldLeft, Unmasked!MapThenFoldSet, Unmasked!Max

-------------------------------------------------------------------------------
(* Slices and the bits they stand for *)

\* A slice inside its register, numbered in the direction of the register.
GoodSlice(s, o) ==
  /\ s \in [reg : Registers, left : Nat, right : Nat]
  /\ s.left < Width(s.reg) /\ s.right < Width(s.reg)
  /\ IF o = "Upto" THEN s.left <= s.right ELSE s.left >= s.right

\* Offset of the slice in its register.
SliceStart(s, o) == IF o = "Upto" THEN s.left ELSE Width(s.reg) - 1 - s.left

\* A bit of a register: the register and the position.
BitNames == {<<r, i>> : r \in Registers, i \in Nat}

\* The slices of a view are as ViewAssumption says.
LEMMA SlicesGood ==
  ASSUME NEW v \in ViewNames, NEW o \in Orderings
  PROVE  /\ Len(Slices(v, o)) \in Nat /\ DOMAIN Slices(v, o) = 1..Len(Slices(v, o))
         /\ \A k \in 1..Len(Slices(v, o)) : GoodSlice(Slices(v, o)[k], o)
<1> DEFINE S == [reg : Registers, left : Nat, right : Nat]
<1>1. Slices(v, o) \in Seq(S)
  BY ViewAssumption
<1>2. Len(Slices(v, o)) \in Nat /\ DOMAIN Slices(v, o) = 1..Len(Slices(v, o))
  BY <1>1, LenProperties
<1>3. ASSUME NEW k \in 1..Len(Slices(v, o)) PROVE Slices(v, o)[k] \in S
  <2> HIDE DEF S
  <2> QED BY <1>1, <1>2, <1>3, ElementOfSeq
<1> QED BY <1>2, <1>3, ViewAssumption DEF GoodSlice

\* A slice has at least one bit and lies inside its register.
LEMMA SliceRange ==
  ASSUME NEW o \in Orderings, NEW s, GoodSlice(s, o)
  PROVE  /\ s.reg \in Registers /\ Width(s.reg) \in Nat /\ s.left \in Nat /\ s.right \in Nat
         /\ RangeWidth(s.left, s.right) \in Nat \ {0} /\ SliceStart(s, o) \in Nat
         /\ SliceStart(s, o) + RangeWidth(s.left, s.right) <= Width(s.reg)
<1>1. s.reg \in Registers /\ s.left \in Nat /\ s.right \in Nat
  BY DEF GoodSlice
<1>2. Width(s.reg) \in Nat
  BY <1>1, ValuesAssumption
<1> QED BY <1>1, <1>2 DEF GoodSlice, RangeWidth, SliceStart, Orderings

\* A slice stands for the bits from its offset on, from left to right, whatever the
\* ordering.
LEMMA SliceBitsAre ==
  ASSUME NEW o \in Orderings, NEW s, GoodSlice(s, o)
  PROVE  /\ SliceBits(s, o) \in Seq(BitNames)
         /\ Len(SliceBits(s, o)) = RangeWidth(s.left, s.right)
         /\ \A k \in 1..RangeWidth(s.left, s.right) :
              SliceBits(s, o)[k] = <<s.reg, SliceStart(s, o) + k>>
<1> DEFINE w == RangeWidth(s.left, s.right)
           b == [k \in 1..w |-> <<s.reg, SliceStart(s, o) + k>>]
<1>1. w \in Nat /\ SliceStart(s, o) \in Nat /\ s.reg \in Registers /\ Width(s.reg) \in Nat /\ s.left \in Nat
  BY SliceRange
<1>2. \A k \in 1..w : (IF o = "Upto" THEN s.left + k ELSE Width(s.reg) - s.left + k - 1) = SliceStart(s, o) + k
  BY <1>1 DEF SliceStart
<1>3. SliceBits(s, o) = b
  BY <1>2 DEF SliceBits
<1> HIDE DEF w
<1>4. b \in [1..w -> BitNames]
  BY <1>1 DEF BitNames
<1>5. b \in Seq(BitNames) /\ Len(b) = w
  BY <1>1, <1>4
<1> QED BY <1>3, <1>5 DEF w

-------------------------------------------------------------------------------
(* What the loop over the slices has written after some of them *)

\* Where bit i of register r is among the bits of a view.
Places(bits, r, i) == {k \in 1..Len(bits) : bits[k] = <<r, i>>}

\* Vector x of register r with the bits named by bits replaced by those of value.
Written(bits, value, x, r) ==
  [i \in 1..Width(r) |->
     IF Places(bits, r, i) = {} THEN x[i] ELSE value[Max(Places(bits, r, i))]]

\* The last place is the one no other is above.
LEMMA LastPlace ==
  ASSUME NEW S \in SUBSET Nat, NEW m \in S, \A k \in S : k <= m
  PROVE  Max(S) = m
<1>1. \A x \in S : (\A y \in S : x >= y) => x = m
  OBVIOUS
<1> QED BY <1>1 DEF Max

\* A bit that is in a view has a last place there.
LEMMA LastPlaceExists ==
  ASSUME NEW n \in Nat, NEW S \in SUBSET (1..n), S # {}
  PROVE  Max(S) \in S
<1>1. Max(S) = Count!Max(S)
  BY DEF Max, Count!Max
<1> QED BY <1>1, Count!MaxIsMember

\* A part of a value.
LEMMA PartOfValue ==
  ASSUME NEW value \in Seq(Bit), NEW m \in Nat, NEW w \in Nat, m + w <= Len(value)
  PROVE  /\ BitsAt(value, m, w) \in Seq(Bit) /\ Len(BitsAt(value, m, w)) = w
         /\ \A k \in 1..w : BitsAt(value, m, w)[k] = value[m + k]
<1>1. Len(value) \in Nat /\ m + 1 \in 1..Len(value) + 1 /\ m + w \in m..Len(value)
  BY LenProperties
<1>2. SubSeq(value, m + 1, m + w) \in Seq(Bit)
  <2>1. \A k \in m + 1..m + w : value[k] \in Bit
    BY <1>1, LenProperties, ElementOfSeq
  <2> QED BY <2>1, <1>1, SubSeqProperties
<1> QED BY <1>1, <1>2, SubSeqProperties DEF BitsAt

\* The places of a bit when a slice is added: those before, and the one in the
\* slice, which is the last.
LEMMA PlacesInSlice ==
  ASSUME NEW o \in Orderings, NEW s, GoodSlice(s, o), NEW bits \in Seq(BitNames),
         NEW r \in Registers, NEW i \in Nat
  PROVE  LET new == bits \o SliceBits(s, o)
             st  == SliceStart(s, o)
             w   == RangeWidth(s.left, s.right)
         IN  IF r = s.reg /\ i \in st + 1..st + w
               THEN Places(new, r, i) # {} /\ Max(Places(new, r, i)) = Len(bits) + (i - st)
               ELSE Places(new, r, i) = Places(bits, r, i)
<1> DEFINE new == bits \o SliceBits(s, o)
           st  == SliceStart(s, o)
           w   == RangeWidth(s.left, s.right)
           m   == Len(bits)
           P   == Places(new, r, i)
           sb  == SliceBits(s, o)
<1>1. w \in Nat /\ st \in Nat /\ m \in Nat
  BY SliceRange, LenProperties
<1>2. sb \in Seq(BitNames) /\ Len(sb) = w /\ \A k \in 1..w : sb[k] = <<s.reg, st + k>>
  BY SliceBitsAre
<1> HIDE DEF sb, st, w
<1>3. new \in Seq(BitNames) /\ Len(new) = m + w
  BY <1>2, ConcatProperties DEF sb
<1>4. \A k \in 1..m : new[k] = bits[k]
  BY <1>1, <1>2, ConcatProperties DEF sb
<1>5. \A k \in m + 1..m + w : new[k] = <<s.reg, st + (k - m)>>
  <2> TAKE k \in m + 1..m + w
  <2>1. k \in 1..m + Len(sb) /\ k > m /\ k - m \in 1..w
    BY <1>1, <1>2
  <2>2. new[k] = sb[k - m]
    BY <1>1, <1>2, <2>1, ConcatProperties DEF sb
  <2> QED BY <1>2, <2>1, <2>2
<1> HIDE DEF new, m
<1>6. CASE r = s.reg /\ i \in st + 1..st + w
  <2> DEFINE k0 == m + (i - st)
  <2>1. k0 \in m + 1..m + w /\ k0 \in 1..m + w /\ st + (k0 - m) = i
    BY <1>1, <1>6
  <2>2. k0 \in P
    BY <1>3, <1>5, <1>6, <2>1 DEF Places
  <2>3. ASSUME NEW k \in P PROVE k <= k0
    <3>1. k \in 1..m + w /\ new[k] = <<r, i>>
      BY <1>3 DEF Places
    <3>2. k \in m + 1..m + w => st + (k - m) = i
      BY <1>5, <3>1
    <3> QED BY <1>1, <2>1, <3>1, <3>2
  <2>4. P \in SUBSET Nat
    BY <1>1, <1>3 DEF Places
  <2> HIDE DEF P, k0
  <2>5. P # {} /\ Max(P) = k0
    BY <2>2, <2>3, <2>4, LastPlace
  <2> QED BY <1>6, <2>5 DEF P, k0, new, st, w, m
<1>7. CASE ~(r = s.reg /\ i \in st + 1..st + w)
  <2>1. ASSUME NEW k \in m + 1..m + w PROVE new[k] # <<r, i>>
    <3>1. new[k] = <<s.reg, st + (k - m)>> /\ st + (k - m) \in st + 1..st + w
      BY <1>1, <1>5, <2>1
    <3> QED BY <1>7, <3>1
  <2>2. 1..m + w = 1..m \cup (m + 1..m + w)
    BY <1>1
  <2>3. P = Places(bits, r, i)
    BY <1>3, <1>4, <2>1, <2>2 DEF Places, m
  <2> QED BY <1>7, <2>3 DEF new, st, w, m
<1> QED BY <1>6, <1>7

\* One turn of the loop: the slice is written into its register, nothing into the
\* others.
LEMMA WriteSlice ==
  ASSUME NEW o \in Orderings, NEW s, GoodSlice(s, o), NEW bits \in Seq(BitNames),
         NEW value \in Seq(Bit), Len(bits) + RangeWidth(s.left, s.right) <= Len(value),
         NEW r \in Registers, NEW x
  PROVE  Written(bits \o SliceBits(s, o), value, x, r) =
           IF r = s.reg
             THEN Overwrite(Written(bits, value, x, r), SliceStart(s, o),
                            BitsAt(value, Len(bits), RangeWidth(s.left, s.right)))
             ELSE Written(bits, value, x, r)
<1> DEFINE new == bits \o SliceBits(s, o)
           st  == SliceStart(s, o)
           w   == RangeWidth(s.left, s.right)
           m   == Len(bits)
           part == BitsAt(value, m, w)
<1>1. w \in Nat /\ st \in Nat /\ m \in Nat /\ Width(r) \in Nat
  BY SliceRange, LenProperties, ValuesAssumption
<1>2. part \in Seq(Bit) /\ Len(part) = w /\ \A k \in 1..w : part[k] = value[m + k]
  BY <1>1, PartOfValue
<1>3. \A i \in 1..Width(r) :
        IF r = s.reg /\ i \in st + 1..st + w
          THEN Places(new, r, i) # {} /\ Max(Places(new, r, i)) = m + (i - st)
          ELSE Places(new, r, i) = Places(bits, r, i)
  <2> TAKE i \in 1..Width(r)
  <2>1. i \in Nat
    BY <1>1
  <2> QED BY <2>1, PlacesInSlice
<1> HIDE DEF new, st, w, m, part
<1>4. CASE r = s.reg
  <2> DEFINE old == Written(bits, value, x, r)
  <2>1. Overwrite(old, st, part) =
          [i \in 1..Width(r) |-> IF i \in st + 1..st + w THEN part[i - st] ELSE old[i]]
    BY <1>2 DEF Overwrite, Written
  <2>2. ASSUME NEW i \in 1..Width(r)
        PROVE  Written(new, value, x, r)[i] = Overwrite(old, st, part)[i]
    <3>1. CASE i \in st + 1..st + w
      <4>1. i - st \in 1..w
        BY <1>1, <3>1
      <4> QED BY <1>2, <1>3, <1>4, <2>1, <3>1, <4>1 DEF Written
    <3>2. CASE i \notin st + 1..st + w
      BY <1>3, <1>4, <2>1, <3>2 DEF Written
    <3> QED BY <3>1, <3>2
  <2>3. Written(new, value, x, r) = Overwrite(old, st, part)
    <3>1. Written(new, value, x, r) = [i \in 1..Width(r) |-> Written(new, value, x, r)[i]]
      BY DEF Written
    <3>2. Overwrite(old, st, part) = [i \in 1..Width(r) |-> Overwrite(old, st, part)[i]]
      BY <2>1
    <3> HIDE DEF old
    <3> QED BY <2>2, <3>1, <3>2
  <2> QED BY <1>4, <2>3 DEF new, st, w, m, part
<1>5. CASE r # s.reg
  BY <1>3, <1>5 DEF Written, new
<1> QED BY <1>4, <1>5

\* A vector that has been written into keeps its size.
LEMMA WrittenType ==
  ASSUME NEW bits \in Seq(BitNames), NEW value \in Seq(Bit), Len(bits) <= Len(value),
         NEW r \in Registers, NEW x \in BitSeqs(Width(r))
  PROVE  Written(bits, value, x, r) \in BitSeqs(Width(r))
<1>1. ASSUME NEW i \in 1..Width(r), Places(bits, r, i) # {}
      PROVE  value[Max(Places(bits, r, i))] \in Bit
  <2>1. Len(bits) \in Nat /\ Len(value) \in Nat
    BY LenProperties
  <2>2. Places(bits, r, i) \in SUBSET (1..Len(bits))
    BY DEF Places
  <2>3. Max(Places(bits, r, i)) \in 1..Len(bits)
    BY <1>1, <2>1, <2>2, LastPlaceExists
  <2> QED BY <2>1, <2>3, ElementOfSeq
<1>2. \A i \in 1..Width(r) : x[i] \in Bit
  BY DEF BitSeqs
<1> QED BY <1>1, <1>2 DEF Written, BitSeqs

\* Before the first slice nothing is written.
LEMMA NothingWritten ==
  ASSUME NEW value, NEW r \in Registers, NEW x \in BitSeqs(Width(r))
  PROVE  Written(<<>>, value, x, r) = x
<1>1. \A i \in 1..Width(r) : Places(<<>>, r, i) = {}
  BY DEF Places
<1>2. Written(<<>>, value, x, r) = [i \in 1..Width(r) |-> x[i]]
  BY <1>1 DEF Written
<1> QED BY <1>2 DEF BitSeqs

-------------------------------------------------------------------------------
(* The bits of a view, slice by slice *)

\* count and bits give the number of bits, and the bits, of the first slices of a
\* view.
ViewSteps(count, bits, v, o) ==
  /\ count[0] = 0 /\ bits[0] = <<>>
  /\ \A i \in 1..Len(Slices(v, o)) :
       LET s == Slices(v, o)[i]
       IN  /\ count[i] = count[i - 1] + RangeWidth(s.left, s.right)
           /\ bits[i] = bits[i - 1] \o SliceBits(s, o)
  /\ \A i \in 0..Len(Slices(v, o)) :
       /\ count[i] \in Nat /\ count[i] <= BitsCountFor(v, o)
       /\ bits[i] \in Seq(BitNames) /\ Len(bits[i]) = count[i]
  /\ BitsCountFor(v, o) \in Nat
  /\ count[Len(Slices(v, o))] = BitsCountFor(v, o)
  /\ bits[Len(Slices(v, o))] = ViewBitsFor[v][o]

\* Every view has such counts and bits.
LEMMA ViewStepsExist ==
  ASSUME NEW v \in ViewNames, NEW o \in Orderings
  PROVE  \E count, bits : ViewSteps(count, bits, v, o)
<1> DEFINE q == Slices(v, o)
           n == Len(q)
<1>1. n \in Nat /\ DOMAIN q = 1..n /\ \A k \in 1..n : GoodSlice(q[k], o)
  BY SlicesGood
<1>2. PICK count : Count!SeqSteps(count, 0, 0, q, BitsCountFor(v, o))
  BY <1>1, CountFold, Count!FoldLeftSteps
<1>3. PICK bits : Bits!SeqSteps(bits, o, <<>>, q, ViewBitsFor[v][o])
  BY <1>1, BitsFold, Bits!FoldLeftSteps
<1>4. /\ count[0] = 0 /\ bits[0] = <<>>
      /\ count[n] = BitsCountFor(v, o) /\ bits[n] = ViewBitsFor[v][o]
  BY <1>2, <1>3 DEF Count!SeqSteps, Bits!SeqSteps
<1>5. \A i \in 1..n : /\ count[i] = count[i - 1] + RangeWidth(q[i].left, q[i].right)
                      /\ bits[i] = bits[i - 1] \o SliceBits(q[i], o)
  BY <1>2, <1>3 DEF Count!SeqSteps, Bits!SeqSteps, CountStep, BitsStep
<1> DEFINE Good(i) == /\ count[i] \in Nat /\ bits[i] \in Seq(BitNames) /\ Len(bits[i]) = count[i]
                      /\ \A j \in 0..i : count[j] \in Nat /\ count[j] <= count[i]
           T == {i \in Nat : i <= n => Good(i)}
<1> HIDE DEF q, n
<1>6. 0 \in T
  <2>1. <<>> \in Seq(BitNames) /\ Len(<<>>) = 0 /\ \A j \in 0..0 : j = 0
    BY EmptySeq
  <2>2. count[0] = 0 /\ bits[0] = <<>>
    BY <1>4
  <2>3. Good(0)
    BY <2>1, <2>2
  <2> HIDE DEF Good
  <2> QED BY <2>3
<1>7. ASSUME NEW i \in T PROVE i + 1 \in T
  <2> SUFFICES ASSUME i + 1 <= n PROVE Good(i + 1)
    OBVIOUS
  <2>1. i \in Nat /\ i + 1 \in 1..n /\ (i + 1) - 1 = i /\ Good(i)
    BY <1>1, <1>7
  <2> DEFINE s == q[i + 1]
             w == RangeWidth(s.left, s.right)
             sb == SliceBits(s, o)
  <2>2. w \in Nat /\ sb \in Seq(BitNames) /\ Len(sb) = w
    BY <1>1, <2>1, SliceRange, SliceBitsAre
  <2>3. count[i + 1] = count[i] + w /\ bits[i + 1] = bits[i] \o sb
    BY <1>5, <2>1
  <2> HIDE DEF sb, w
  <2>4. bits[i + 1] \in Seq(BitNames) /\ Len(bits[i + 1]) = Len(bits[i]) + w
    <3> DEFINE b == bits[i]
    <3>1. b \in Seq(BitNames) /\ bits[i + 1] = b \o sb
      BY <2>1, <2>3
    <3> HIDE DEF b, s
    <3>2. b \o sb \in Seq(BitNames) /\ Len(b \o sb) = Len(b) + Len(sb)
      BY <2>2, <3>1, ConcatProperties
    <3> QED BY <2>2, <3>1, <3>2 DEF b
  <2>5. count[i + 1] \in Nat /\ count[i] <= count[i + 1]
    BY <2>1, <2>2, <2>3
  <2>6. ASSUME NEW j \in 0..i + 1 PROVE count[j] \in Nat /\ count[j] <= count[i + 1]
    <3>1. CASE j = i + 1
      BY <2>5, <3>1
    <3>2. CASE j # i + 1
      <4>1. j \in 0..i
        BY <2>1, <3>2
      <4>2. count[j] \in Nat /\ count[j] <= count[i] /\ count[i] \in Nat
        BY <2>1, <4>1
      <4> HIDE DEF Good
      <4> QED BY <2>5, <4>2
    <3> QED BY <3>1, <3>2
  <2> QED BY <2>1, <2>3, <2>4, <2>5, <2>6
<1>8. \A i \in 0..n : Good(i)
  <2> HIDE DEF Good
  <2>1. T = Nat
    <3>1. T \in SUBSET Nat
      OBVIOUS
    <3> HIDE DEF T
    <3> QED BY <1>6, <1>7, <3>1, Count!NatSetInduction
  <2> TAKE i \in 0..n
  <2>2. i \in Nat /\ i <= n
    BY <1>1
  <2>3. i \in T
    BY <2>1, <2>2
  <2> QED BY <2>2, <2>3
<1>9. n \in 0..n
  BY <1>1
<1> QED BY <1>4, <1>5, <1>8, <1>9 DEF ViewSteps, q, n

-------------------------------------------------------------------------------
(* The members of the registers that a call on a view sets *)

\* Number of the bit of a value of n bits that m bits precede.
LeftAt(m, n) == IF ordering = "Upto" THEN m ELSE n - 1 - m

\* A slice takes the bits of the value after those of the slices before it.
LEMMA ValueSlice ==
  ASSUME ordering \in Orderings, NEW s, GoodSlice(s, ordering), NEW value \in Seq(Bit),
         NEW m \in Nat, m + RangeWidth(s.left, s.right) <= Len(value)
  PROVE  LET left == LeftAt(m, Len(value))
             w    == RangeWidth(s.left, s.right)
         IN  /\ GetSlice(left, ValueRight(s, left), value) = BitsAt(value, m, w)
             /\ NextLeft(ValueRight(s, left)) = LeftAt(m + w, Len(value))
<1> DEFINE n     == Len(value)
           w     == RangeWidth(s.left, s.right)
           left  == LeftAt(m, n)
           right == ValueRight(s, left)
<1>1. n \in Nat /\ w \in Nat \ {0} /\ m + w <= n
  BY SliceRange, LenProperties
<1>2. left = (IF ordering = "Upto" THEN m ELSE n - 1 - m) /\ left \in Int
  BY <1>1 DEF LeftAt
<1>3. right = IF ordering = "Upto" THEN left + (w - 1) ELSE left - (w - 1)
  BY DEF ValueRight
<1> HIDE DEF n, w, left, right
<1>4. RangeWidth(left, right) = w
  BY <1>1, <1>2, <1>3 DEF RangeWidth
<1>5. RangeOffset(left, n) = m
  BY <1>1, <1>2 DEF RangeOffset
<1>6. NextLeft(right) = LeftAt(m + w, n)
  BY <1>1, <1>2, <1>3 DEF NextLeft, LeftAt
<1> QED BY <1>4, <1>5, <1>6 DEF GetSlice, n, w, left, right

\* A slice is written at its offset in the register.
LEMMA SetSliceAt ==
  ASSUME ordering \in Orderings, NEW s, GoodSlice(s, ordering),
         NEW x \in BitSeqs(Width(s.reg)), NEW part
  PROVE  SetSlice(s, x, part) = Overwrite(x, SliceStart(s, ordering), part)
<1>1. Width(s.reg) \in Nat /\ s.left \in Nat
  BY SliceRange
<1>2. Len(x) = Width(s.reg)
  BY <1>1 DEF BitSeqs
<1> QED BY <1>1, <1>2 DEF SetSlice, RangeOffset, SliceStart

\* The values of the members of register r.
RegisterValues(r) ==
  [ next : BitSeqs(Width(r)), expected : BitSeqs(Width(r)), mask : BitSeqs(Width(r)) \cup {<<>>},
    lastRead : BitSeqs(Width(r)), pendingRead : BOOLEAN, mustCheck : BOOLEAN, mismatches : Nat ]

\* Every register has members of its width.
RegistersOK(rs) ==
  /\ rs = [r \in Registers |-> rs[r]]
  /\ \A r \in Registers : rs[r] \in RegisterValues(r)

\* One turn of the loop over the slices: of the value it takes the bits that come
\* next, and of the registers it changes the one of the slice.
LEMMA TurnWrites ==
  ASSUME NEW v \in ViewNames, ordering \in Orderings,
         NEW count, NEW bits, ViewSteps(count, bits, v, ordering),
         NEW value \in Seq(Bit), Len(value) = BitsCount(v),
         NEW i \in Nat, i + 1 <= Len(Slices(v, ordering)),
         NEW r \in Registers, NEW x \in BitSeqs(Width(r))
  PROVE  LET s    == Slices(v, ordering)[i + 1]
             left == LeftAt(count[i], Len(value))
             part == GetSlice(left, ValueRight(s, left), value)
             old  == Written(bits[i], value, x, r)
         IN  /\ old \in BitSeqs(Width(r))
             /\ Written(bits[i + 1], value, x, r) = IF r = s.reg THEN SetSlice(s, old, part) ELSE old
             /\ NextLeft(ValueRight(s, left)) = LeftAt(count[i + 1], Len(value))
<1> DEFINE s    == Slices(v, ordering)[i + 1]
           N    == Len(value)
           w    == RangeWidth(s.left, s.right)
           m    == count[i]
           left == LeftAt(m, N)
           part == GetSlice(left, ValueRight(s, left), value)
           old  == Written(bits[i], value, x, r)
<1>1. N \in Nat /\ N = BitsCountFor(v, ordering)
  BY LenProperties DEF BitsCount
<1>2. i + 1 \in 1..Len(Slices(v, ordering)) /\ i \in 0..Len(Slices(v, ordering))
      /\ i + 1 \in 0..Len(Slices(v, ordering)) /\ (i + 1) - 1 = i
  BY SlicesGood
<1>3. GoodSlice(s, ordering) /\ s.reg \in Registers /\ w \in Nat
  BY <1>2, SlicesGood, SliceRange
<1>4. /\ m \in Nat /\ Len(bits[i]) = m /\ bits[i] \in Seq(BitNames) /\ m + w <= N
      /\ count[i + 1] = m + w /\ bits[i + 1] = bits[i] \o SliceBits(s, ordering)
  BY <1>1, <1>2 DEF ViewSteps
<1> HIDE DEF s
<1>5. part = BitsAt(value, m, w) /\ NextLeft(ValueRight(s, left)) = LeftAt(m + w, N)
  BY <1>3, <1>4, ValueSlice
<1>6. Len(bits[i]) <= Len(value) /\ Len(bits[i]) + w <= Len(value)
  BY <1>1, <1>3, <1>4
<1>7. old \in BitSeqs(Width(r))
  BY <1>4, <1>6, WrittenType
<1> HIDE DEF part
<1>8. Written(bits[i + 1], value, x, r) =
        IF r = s.reg THEN Overwrite(old, SliceStart(s, ordering), part) ELSE old
  BY <1>3, <1>4, <1>5, <1>6, WriteSlice
<1>9. r = s.reg => SetSlice(s, old, part) = Overwrite(old, SliceStart(s, ordering), part)
  <2> HIDE DEF old
  <2> QED BY <1>3, <1>7, SetSliceAt
<1> QED BY <1>4, <1>5, <1>7, <1>8, <1>9 DEF s, part

\* The registers with bits of the values to send replaced.
NextWritten(rs, bits, value) ==
  [r \in Registers |-> [rs[r] EXCEPT !.next = Written(bits, value, @, r)]]

\* SetToSut writes the bits of the view into the values to send, and nothing else.
LEMMA SetToSutWrites ==
  ASSUME NEW v \in ViewNames, ordering \in Orderings, RegistersOK(regs),
         NEW value \in Seq(Bit), Len(value) = BitsCount(v)
  PROVE  SetToSut(v, value) = NextWritten(regs, ViewBits(v), value)
<1> DEFINE q == Slices(v, ordering)
           n == Len(q)
           N == Len(value)
<1>1. n \in Nat /\ DOMAIN q = 1..n /\ \A k \in 1..n : GoodSlice(q[k], ordering)
  BY SlicesGood
<1>2. PICK count, bits : ViewSteps(count, bits, v, ordering)
  BY ViewStepsExist
<1>3. PICK st : ToSut!SeqSteps(st, value, [regs |-> regs, left |-> FirstLeft(v)], q,
                  ToSut!FoldOfSeq(value, [regs |-> regs, left |-> FirstLeft(v)], q))
  BY <1>1, ToSut!FoldLeftSteps
<1> DEFINE Done(i) == [regs |-> NextWritten(regs, bits[i], value), left |-> LeftAt(count[i], N)]
           T == {i \in Nat : i <= n => st[i] = Done(i)}
<1>4. N \in Nat /\ N = BitsCountFor(v, ordering)
  BY LenProperties DEF BitsCount
<1> HIDE DEF q, n, N
<1>5. 0 \in T
  <2>1. count[0] = 0 /\ bits[0] = <<>>
    BY <1>2 DEF ViewSteps
  <2>2. NextWritten(regs, <<>>, value) = regs
    <3>1. ASSUME NEW r \in Registers
          PROVE  [regs[r] EXCEPT !.next = Written(<<>>, value, @, r)] = regs[r]
      <4>1. regs[r] \in RegisterValues(r) /\ regs[r].next \in BitSeqs(Width(r))
        BY DEF RegistersOK, RegisterValues
      <4>2. Written(<<>>, value, regs[r].next, r) = regs[r].next
        BY <4>1, NothingWritten
      <4> QED BY <4>1, <4>2 DEF RegisterValues
    <3> QED BY <3>1 DEF NextWritten, RegistersOK
  <2>3. FirstLeft(v) = LeftAt(0, N)
    BY <1>4 DEF FirstLeft, LeftAt, BitsCount
  <2>4. st[0] = [regs |-> regs, left |-> FirstLeft(v)]
    BY <1>3 DEF ToSut!SeqSteps
  <2> QED BY <2>1, <2>2, <2>3, <2>4
<1>6. ASSUME NEW i \in T PROVE i + 1 \in T
  <2> SUFFICES ASSUME i + 1 <= n PROVE st[i + 1] = Done(i + 1)
    OBVIOUS
  <2>1. i \in Nat /\ i + 1 \in 1..n /\ (i + 1) - 1 = i /\ i \in 0..n /\ i + 1 \in 0..n /\ st[i] = Done(i)
    BY <1>1, <1>6
  <2> DEFINE s    == q[i + 1]
             left == LeftAt(count[i], N)
             part == GetSlice(left, ValueRight(s, left), value)
             rs   == NextWritten(regs, bits[i], value)
             old(r) == Written(bits[i], value, regs[r].next, r)
  <2>2. s.reg \in Registers
    BY <1>1, <2>1, SliceRange
  <2>3. ASSUME NEW r \in Registers
        PROVE  /\ regs[r] \in RegisterValues(r) /\ old(r) \in BitSeqs(Width(r))
               /\ Written(bits[i + 1], value, regs[r].next, r) =
                    IF r = s.reg THEN SetSlice(s, old(r), part) ELSE old(r)
               /\ NextLeft(ValueRight(s, left)) = LeftAt(count[i + 1], N)
    <3>1. regs[r] \in RegisterValues(r) /\ regs[r].next \in BitSeqs(Width(r))
      BY DEF RegistersOK, RegisterValues
    <3> QED BY <1>2, <2>1, <3>1, TurnWrites DEF q, n, N
  <2>4. st[i + 1] = ToSutStep(value, st[i], s)
    BY <1>3, <2>1 DEF ToSut!SeqSteps, n
  <2>5. st[i].regs = rs /\ st[i].left = left
    BY <2>1
  <2>6. st[i + 1] = [regs |-> [rs EXCEPT ![s.reg].next = SetSlice(s, @, part)], left |-> LeftAt(count[i + 1], N)]
    <3> HIDE DEF s, rs, left, old
    <3> QED BY <2>2, <2>3, <2>4, <2>5 DEF ToSutStep
  <2> HIDE DEF part, left
  <2>7. [rs EXCEPT ![s.reg].next = SetSlice(s, @, part)] = NextWritten(regs, bits[i + 1], value)
    <3>1. \A r \in Registers : rs[r] = [regs[r] EXCEPT !.next = old(r)]
      BY DEF NextWritten
    <3>2. ASSUME NEW r \in Registers PROVE rs[r].next = old(r)
      <4> HIDE DEF old
      <4> QED BY <2>3, <3>1 DEF RegisterValues
    <3> DEFINE new == [rs EXCEPT ![s.reg].next = SetSlice(s, @, part)]
    <3>3. new = [r \in Registers |-> IF r = s.reg THEN [rs[r] EXCEPT !.next = SetSlice(s, old(r), part)] ELSE rs[r]]
      <4>1. rs = [r \in Registers |-> rs[r]]
        BY DEF NextWritten
      <4>2. rs[s.reg].next = old(s.reg)
        BY <2>2, <3>2
      <4> HIDE DEF rs, old, s, part
      <4> QED BY <2>2, <4>1, <4>2
    <3>4. ASSUME NEW r \in Registers
          PROVE  new[r] = [regs[r] EXCEPT !.next = Written(bits[i + 1], value, @, r)]
      <4> HIDE DEF old, part, rs, s
      <4>1. CASE r = s.reg
        <5>1. new[r] = [rs[r] EXCEPT !.next = SetSlice(s, old(r), part)]
          BY <3>3, <4>1
        <5>2. Written(bits[i + 1], value, regs[r].next, r) = SetSlice(s, old(r), part)
          BY <2>3, <4>1
        <5>3. rs[r] = [regs[r] EXCEPT !.next = old(r)] /\ regs[r] \in RegisterValues(r)
          BY <2>3, <3>1
        <5> HIDE DEF new
        <5> QED BY <5>1, <5>2, <5>3 DEF RegisterValues
      <4>2. CASE r # s.reg
        BY <2>3, <3>1, <3>3, <4>2
      <4> QED BY <4>1, <4>2
    <3>5. new = [r \in Registers |-> new[r]]
      BY <3>3
    <3> HIDE DEF new
    <3>6. new = NextWritten(regs, bits[i + 1], value)
      BY <3>4, <3>5 DEF NextWritten
    <3> QED BY <3>6 DEF new
  <2> HIDE DEF s, rs
  <2> QED BY <2>6, <2>7
<1>7. st[n] = Done(n)
  <2>1. T = Nat
    <3>1. T \in SUBSET Nat
      OBVIOUS
    <3> HIDE DEF T
    <3> QED BY <1>5, <1>6, <3>1, Count!NatSetInduction
  <2>2. n \in T
    BY <1>1, <2>1
  <2> QED BY <1>1, <2>2
<1>8. st[n].regs = SetToSut(v, value)
  BY <1>3, ToSutFold DEF ToSut!SeqSteps, q, n
<1>9. bits[n] = ViewBits(v)
  BY <1>2 DEF ViewSteps, ViewBits, q, n
<1> QED BY <1>7, <1>8, <1>9

\* The registers with bits of the expected values replaced.
ExpectedWritten(rs, bits, value) ==
  [r \in Registers |-> [rs[r] EXCEPT !.expected = Written(bits, value, @, r)]]

\* Without a mask SetExpectedFromSut writes the bits of the view into the expected
\* values, and nothing else.
LEMMA SetUnmaskedExpectedWrites ==
  ASSUME NEW v \in ViewNames, ordering \in Orderings, RegistersOK(regs),
         NEW value \in Seq(Bit), Len(value) = BitsCount(v)
  PROVE  SetUnmaskedExpected(v, value) = ExpectedWritten(regs, ViewBits(v), value)
<1> DEFINE q == Slices(v, ordering)
           n == Len(q)
           N == Len(value)
<1>1. n \in Nat /\ DOMAIN q = 1..n /\ \A k \in 1..n : GoodSlice(q[k], ordering)
  BY SlicesGood
<1>2. PICK count, bits : ViewSteps(count, bits, v, ordering)
  BY ViewStepsExist
<1>3. PICK st : Unmasked!SeqSteps(st, value, [regs |-> regs, left |-> FirstLeft(v)], q,
                  Unmasked!FoldOfSeq(value, [regs |-> regs, left |-> FirstLeft(v)], q))
  BY <1>1, Unmasked!FoldLeftSteps
<1> DEFINE Done(i) == [regs |-> ExpectedWritten(regs, bits[i], value), left |-> LeftAt(count[i], N)]
           T == {i \in Nat : i <= n => st[i] = Done(i)}
<1>4. N \in Nat /\ N = BitsCountFor(v, ordering)
  BY LenProperties DEF BitsCount
<1> HIDE DEF q, n, N
<1>5. 0 \in T
  <2>1. count[0] = 0 /\ bits[0] = <<>>
    BY <1>2 DEF ViewSteps
  <2>2. ExpectedWritten(regs, <<>>, value) = regs
    <3>1. ASSUME NEW r \in Registers
          PROVE  [regs[r] EXCEPT !.expected = Written(<<>>, value, @, r)] = regs[r]
      <4>1. regs[r] \in RegisterValues(r) /\ regs[r].expected \in BitSeqs(Width(r))
        BY DEF RegistersOK, RegisterValues
      <4>2. Written(<<>>, value, regs[r].expected, r) = regs[r].expected
        BY <4>1, NothingWritten
      <4> QED BY <4>1, <4>2 DEF RegisterValues
    <3> QED BY <3>1 DEF ExpectedWritten, RegistersOK
  <2>3. FirstLeft(v) = LeftAt(0, N)
    BY <1>4 DEF FirstLeft, LeftAt, BitsCount
  <2>4. st[0] = [regs |-> regs, left |-> FirstLeft(v)]
    BY <1>3 DEF Unmasked!SeqSteps
  <2> QED BY <2>1, <2>2, <2>3, <2>4
<1>6. ASSUME NEW i \in T PROVE i + 1 \in T
  <2> SUFFICES ASSUME i + 1 <= n PROVE st[i + 1] = Done(i + 1)
    OBVIOUS
  <2>1. i \in Nat /\ i + 1 \in 1..n /\ (i + 1) - 1 = i /\ i \in 0..n /\ i + 1 \in 0..n /\ st[i] = Done(i)
    BY <1>1, <1>6
  <2> DEFINE s    == q[i + 1]
             left == LeftAt(count[i], N)
             part == GetSlice(left, ValueRight(s, left), value)
             rs   == ExpectedWritten(regs, bits[i], value)
             old(r) == Written(bits[i], value, regs[r].expected, r)
  <2>2. s.reg \in Registers
    BY <1>1, <2>1, SliceRange
  <2>3. ASSUME NEW r \in Registers
        PROVE  /\ regs[r] \in RegisterValues(r) /\ old(r) \in BitSeqs(Width(r))
               /\ Written(bits[i + 1], value, regs[r].expected, r) =
                    IF r = s.reg THEN SetSlice(s, old(r), part) ELSE old(r)
               /\ NextLeft(ValueRight(s, left)) = LeftAt(count[i + 1], N)
    <3>1. regs[r] \in RegisterValues(r) /\ regs[r].expected \in BitSeqs(Width(r))
      BY DEF RegistersOK, RegisterValues
    <3> QED BY <1>2, <2>1, <3>1, TurnWrites DEF q, n, N
  <2>4. st[i + 1] = UnmaskedStep(value, st[i], s)
    BY <1>3, <2>1 DEF Unmasked!SeqSteps, n
  <2>5. st[i].regs = rs /\ st[i].left = left
    BY <2>1
  <2>6. st[i + 1] = [regs |-> [rs EXCEPT ![s.reg].expected = SetSlice(s, @, part)], left |-> LeftAt(count[i + 1], N)]
    <3> HIDE DEF s, rs, left, old
    <3> QED BY <2>2, <2>3, <2>4, <2>5 DEF UnmaskedStep
  <2> HIDE DEF part, left
  <2>7. [rs EXCEPT ![s.reg].expected = SetSlice(s, @, part)] = ExpectedWritten(regs, bits[i + 1], value)
    <3>1. \A r \in Registers : rs[r] = [regs[r] EXCEPT !.expected = old(r)]
      BY DEF ExpectedWritten
    <3>2. ASSUME NEW r \in Registers PROVE rs[r].expected = old(r)
      <4> HIDE DEF old
      <4> QED BY <2>3, <3>1 DEF RegisterValues
    <3> DEFINE new == [rs EXCEPT ![s.reg].expected = SetSlice(s, @, part)]
    <3>3. new = [r \in Registers |-> IF r = s.reg THEN [rs[r] EXCEPT !.expected = SetSlice(s, old(r), part)] ELSE rs[r]]
      <4>1. rs = [r \in Registers |-> rs[r]]
        BY DEF ExpectedWritten
      <4>2. rs[s.reg].expected = old(s.reg)
        BY <2>2, <3>2
      <4> HIDE DEF rs, old, s, part
      <4> QED BY <2>2, <4>1, <4>2
    <3>4. ASSUME NEW r \in Registers
          PROVE  new[r] = [regs[r] EXCEPT !.expected = Written(bits[i + 1], value, @, r)]
      <4> HIDE DEF old, part, rs, s
      <4>1. CASE r = s.reg
        <5>1. new[r] = [rs[r] EXCEPT !.expected = SetSlice(s, old(r), part)]
          BY <3>3, <4>1
        <5>2. Written(bits[i + 1], value, regs[r].expected, r) = SetSlice(s, old(r), part)
          BY <2>3, <4>1
        <5>3. rs[r] = [regs[r] EXCEPT !.expected = old(r)] /\ regs[r] \in RegisterValues(r)
          BY <2>3, <3>1
        <5> HIDE DEF new
        <5> QED BY <5>1, <5>2, <5>3 DEF RegisterValues
      <4>2. CASE r # s.reg
        BY <2>3, <3>1, <3>3, <4>2
      <4> QED BY <4>1, <4>2
    <3>5. new = [r \in Registers |-> new[r]]
      BY <3>3
    <3> HIDE DEF new
    <3>6. new = ExpectedWritten(regs, bits[i + 1], value)
      BY <3>4, <3>5 DEF ExpectedWritten
    <3> QED BY <3>6 DEF new
  <2> HIDE DEF s, rs
  <2> QED BY <2>6, <2>7
<1>7. st[n] = Done(n)
  <2>1. T = Nat
    <3>1. T \in SUBSET Nat
      OBVIOUS
    <3> HIDE DEF T
    <3> QED BY <1>5, <1>6, <3>1, Count!NatSetInduction
  <2>2. n \in T
    BY <1>1, <2>1
  <2> QED BY <1>1, <2>2
<1>8. st[n].regs = SetUnmaskedExpected(v, value)
  BY <1>3, UnmaskedFold DEF Unmasked!SeqSteps, q, n
<1>9. bits[n] = ViewBits(v)
  BY <1>2 DEF ViewSteps, ViewBits, q, n
<1> QED BY <1>7, <1>8, <1>9

\* The mask SetExpectedFromSut starts from.
BaseMask(reg, r) == IF reg.mask = <<>> THEN Repeat(0, Width(r)) ELSE reg.mask

\* The registers ids with bits of the expected values and of the masks replaced.
MaskedWritten(rs, bits, value, mask, ids) ==
  [r \in Registers |->
     IF r \in ids
       THEN [rs[r] EXCEPT !.expected = Written(bits, value, @, r),
                          !.mask     = Written(bits, mask, BaseMask(rs[r], r), r)]
       ELSE rs[r]]

\* With a mask SetExpectedFromSut writes the bits of the view into the expected
\* values and the masks of the registers of the view, and nothing else.
LEMMA SetMaskedExpectedWrites ==
  ASSUME NEW v \in ViewNames, ordering \in Orderings, RegistersOK(regs),
         NEW value \in Seq(Bit), Len(value) = BitsCount(v),
         NEW mask \in Seq(Bit), Len(mask) = BitsCount(v)
  PROVE  SetMaskedExpected(v, value, mask) = MaskedWritten(regs, ViewBits(v), value, mask, RegistersOf(v))
<1> DEFINE q == Slices(v, ordering)
           n == Len(q)
           N == Len(value)
           c == <<value, mask>>
           ids(i) == {q[k].reg : k \in 1..i}
<1>1. n \in Nat /\ DOMAIN q = 1..n /\ \A k \in 1..n : GoodSlice(q[k], ordering)
  BY SlicesGood
<1>2. PICK count, bits : ViewSteps(count, bits, v, ordering)
  BY ViewStepsExist
<1>3. PICK st : Masked!SeqSteps(st, c, [regs |-> regs, left |-> FirstLeft(v)], q,
                  Masked!FoldOfSeq(c, [regs |-> regs, left |-> FirstLeft(v)], q))
  BY <1>1, Masked!FoldLeftSteps
<1> DEFINE E(i, r) == Written(bits[i], value, regs[r].expected, r)
           M(i, r) == Written(bits[i], mask, BaseMask(regs[r], r), r)
           Same(i) == \A r \in Registers \ ids(i) :
                        E(i, r) = regs[r].expected /\ M(i, r) = BaseMask(regs[r], r)
           Done(i) == [regs |-> MaskedWritten(regs, bits[i], value, mask, ids(i)),
                       left |-> LeftAt(count[i], N)]
           T == {i \in Nat : i <= n => st[i] = Done(i) /\ Same(i)}
<1>4. N \in Nat /\ N = BitsCountFor(v, ordering)
  BY LenProperties DEF BitsCount
<1>5. ASSUME NEW r \in Registers
      PROVE  /\ regs[r] \in RegisterValues(r) /\ regs[r].expected \in BitSeqs(Width(r))
             /\ BaseMask(regs[r], r) \in BitSeqs(Width(r))
  <2>1. regs[r] \in RegisterValues(r)
    BY DEF RegistersOK
  <2>2. Repeat(0, Width(r)) \in BitSeqs(Width(r))
    BY DEF Repeat, BitSeqs, Bit
  <2>3. regs[r].expected \in BitSeqs(Width(r)) /\ regs[r].mask \in BitSeqs(Width(r)) \cup {<<>>}
    BY <2>1 DEF RegisterValues
  <2> QED BY <2>1, <2>2, <2>3 DEF BaseMask
<1> HIDE DEF q, n, N, c
<1>6. 0 \in T
  <2>1. count[0] = 0 /\ bits[0] = <<>>
    BY <1>2 DEF ViewSteps
  <2>2. ids(0) = {}
    OBVIOUS
  <2>3. MaskedWritten(regs, <<>>, value, mask, {}) = regs
    BY DEF MaskedWritten, RegistersOK
  <2>4. FirstLeft(v) = LeftAt(0, N)
    BY <1>4 DEF FirstLeft, LeftAt, BitsCount
  <2>5. st[0] = [regs |-> regs, left |-> FirstLeft(v)]
    BY <1>3 DEF Masked!SeqSteps
  <2>6. Same(0)
    BY <1>5, <2>1, NothingWritten
  <2>7. st[0] = Done(0)
    BY <2>1, <2>2, <2>3, <2>4, <2>5
  <2> HIDE DEF Same, Done
  <2> QED BY <2>6, <2>7
<1>7. ASSUME NEW i \in T PROVE i + 1 \in T
  <2> SUFFICES ASSUME i + 1 <= n PROVE st[i + 1] = Done(i + 1) /\ Same(i + 1)
    OBVIOUS
  <2>1. i \in Nat /\ i + 1 \in 1..n /\ (i + 1) - 1 = i /\ st[i] = Done(i) /\ Same(i)
    <3> HIDE DEF Done, Same
    <3> QED BY <1>1, <1>7
  <2> DEFINE s     == q[i + 1]
             left  == LeftAt(count[i], N)
             right == ValueRight(s, left)
             ePart == GetSlice(left, right, value)
             mPart == GetSlice(left, right, mask)
             rs    == MaskedWritten(regs, bits[i], value, mask, ids(i))
  <2>2. s.reg \in Registers
    BY <1>1, <2>1, SliceRange
  <2>3. ASSUME NEW r \in Registers
        PROVE  /\ E(i, r) \in BitSeqs(Width(r)) /\ M(i, r) \in BitSeqs(Width(r))
               /\ E(i + 1, r) = IF r = s.reg THEN SetSlice(s, E(i, r), ePart) ELSE E(i, r)
               /\ M(i + 1, r) = IF r = s.reg THEN SetSlice(s, M(i, r), mPart) ELSE M(i, r)
               /\ NextLeft(right) = LeftAt(count[i + 1], N)
    <3>1. N = Len(mask)
      BY DEF N
    <3>2. /\ E(i, r) \in BitSeqs(Width(r)) /\ NextLeft(right) = LeftAt(count[i + 1], N)
          /\ E(i + 1, r) = IF r = s.reg THEN SetSlice(s, E(i, r), ePart) ELSE E(i, r)
      BY <1>2, <1>5, <2>1, TurnWrites DEF q, n, N
    <3>3. /\ M(i, r) \in BitSeqs(Width(r))
          /\ M(i + 1, r) = IF r = s.reg THEN SetSlice(s, M(i, r), mPart) ELSE M(i, r)
      BY <1>2, <1>5, <2>1, <3>1, TurnWrites DEF q, n
    <3> QED BY <3>2, <3>3
  <2>4. st[i + 1] = MaskedStep(c, st[i], s)
    BY <1>3, <2>1 DEF Masked!SeqSteps, n
  <2>5. st[i].regs = rs /\ st[i].left = left /\ c[1] = value /\ c[2] = mask
    BY <2>1 DEF c
  <2>6. st[i + 1] = [regs |-> SetMaskedSlice(rs, s, left, right, value, mask),
                     left |-> LeftAt(count[i + 1], N)]
    <3>1. NextLeft(right) = LeftAt(count[i + 1], N)
      BY <2>2, <2>3
    <3> HIDE DEF s, rs, left, Done, Same
    <3> QED BY <2>4, <2>5, <3>1 DEF MaskedStep
  <2>7. \A r : r \in ids(i + 1) <=> r \in ids(i) \/ r = s.reg
    <3>1. 1..i + 1 = 1..i \cup {i + 1}
      BY <2>1
    <3> QED BY <3>1
  <2> HIDE DEF s, left, right, ePart, mPart, E, M, ids, Done
  <2>8. Same(i + 1)
    BY <2>1, <2>3, <2>7
  <2>9. ASSUME NEW r \in Registers
        PROVE  /\ r \in ids(i) => rs[r] = [regs[r] EXCEPT !.expected = E(i, r), !.mask = M(i, r)]
               /\ r \notin ids(i) => rs[r] = regs[r]
               /\ rs[r].expected = E(i, r)
               /\ BaseMask(rs[r], r) = M(i, r)
    <3>1. regs[r] \in RegisterValues(r)
      BY <1>5
    <3>2. CASE r \in ids(i)
      <4>1. rs[r] = [regs[r] EXCEPT !.expected = E(i, r), !.mask = M(i, r)]
        BY <3>2 DEF MaskedWritten, E, M
      <4>2. M(i, r) # <<>>
        <5>1. 1 \in DOMAIN M(i, r)
          BY <2>3, ValuesAssumption DEF BitSeqs
        <5> QED BY <5>1
      <4>3. rs[r].expected = E(i, r) /\ rs[r].mask = M(i, r)
        <5> HIDE DEF rs
        <5> QED BY <3>1, <4>1 DEF RegisterValues
      <4> HIDE DEF rs
      <4> QED BY <3>2, <4>1, <4>2, <4>3 DEF BaseMask
    <3>3. CASE r \notin ids(i)
      <4>1. rs[r] = regs[r]
        BY <3>3 DEF MaskedWritten
      <4>2. E(i, r) = regs[r].expected /\ M(i, r) = BaseMask(regs[r], r)
        BY <2>1, <3>3
      <4> HIDE DEF rs
      <4> QED BY <3>3, <4>1, <4>2
    <3> QED BY <3>2, <3>3
  <2> DEFINE new == SetMaskedSlice(rs, s, left, right, value, mask)
  <2>10. rs = [r \in Registers |-> rs[r]]
    BY DEF MaskedWritten
  <2> HIDE DEF rs
  <2>11. new = [rs EXCEPT ![s.reg] = [rs[s.reg] EXCEPT !.expected = SetSlice(s, E(i, s.reg), ePart),
                                                      !.mask = SetSlice(s, M(i, s.reg), mPart)]]
    <3>1. rs[s.reg].expected = E(i, s.reg) /\ BaseMask(rs[s.reg], s.reg) = M(i, s.reg)
      BY <2>2, <2>9
    <3> QED BY <3>1 DEF SetMaskedSlice, SetRegisterExpected, BaseMask, ePart, mPart
  <2>12. ASSUME NEW r \in Registers
         PROVE  new[r] = IF r \in ids(i + 1)
                           THEN [regs[r] EXCEPT !.expected = E(i + 1, r), !.mask = M(i + 1, r)]
                           ELSE regs[r]
    <3> HIDE DEF new
    <3>1. CASE r = s.reg
      <4>1. new[r] = [rs[r] EXCEPT !.expected = E(i + 1, r), !.mask = M(i + 1, r)]
        BY <2>3, <2>10, <2>11, <3>1
      <4>2. \/ rs[r] = [regs[r] EXCEPT !.expected = E(i, r), !.mask = M(i, r)]
            \/ rs[r] = regs[r]
        BY <2>9
      <4>3. regs[r] \in RegisterValues(r)
        BY <1>5
      <4>4. new[r] = [regs[r] EXCEPT !.expected = E(i + 1, r), !.mask = M(i + 1, r)]
        BY <4>1, <4>2, <4>3 DEF RegisterValues
      <4> QED BY <2>7, <3>1, <4>4
    <3>2. CASE r # s.reg
      <4>1. new[r] = rs[r]
        BY <2>10, <2>11, <3>2
      <4>2. E(i + 1, r) = E(i, r) /\ M(i + 1, r) = M(i, r) /\ (r \in ids(i + 1) <=> r \in ids(i))
        BY <2>3, <2>7, <3>2
      <4> QED BY <2>9, <4>1, <4>2
    <3> QED BY <3>1, <3>2
  <2>13. new = MaskedWritten(regs, bits[i + 1], value, mask, ids(i + 1))
    <3>1. new = [r \in Registers |-> new[r]]
      BY <2>10, <2>11
    <3> HIDE DEF new
    <3> QED BY <2>12, <3>1 DEF MaskedWritten, E, M
  <2> HIDE DEF new
  <2>14. st[i + 1] = Done(i + 1)
    BY <2>6, <2>13 DEF Done, new
  <2> QED BY <2>8, <2>14
<1>8. st[n] = Done(n)
  <2>1. T = Nat
    <3>1. T \in SUBSET Nat
      OBVIOUS
    <3> HIDE DEF T
    <3> QED BY <1>6, <1>7, <3>1, Count!NatSetInduction
  <2>2. n \in T
    BY <1>1, <2>1
  <2> HIDE DEF Done, Same
  <2> QED BY <1>1, <2>2
<1>9. st[n].regs = SetMaskedExpected(v, value, mask)
  BY <1>3, MaskedFold DEF Masked!SeqSteps, q, n, c
<1>10. bits[n] = ViewBits(v)
  BY <1>2 DEF ViewSteps, ViewBits, q, n
<1>11. ids(n) = RegistersOf(v)
  BY <1>1 DEF RegistersOf, q
<1> HIDE DEF ids
<1>12. st[n].regs = MaskedWritten(regs, bits[n], value, mask, ids(n))
  BY <1>8
<1> QED BY <1>9, <1>10, <1>11, <1>12

-------------------------------------------------------------------------------
(* The value of a view *)

\* The bits of the registers that bits names, getter giving the vector of each.
NamedBits(bits, getter) == [k \in 1..Len(bits) |-> getter[bits[k][1]][bits[k][2]]]

\* GetView for a bits ordering.
GetViewFor(v, o, getter) == Get!FoldOfSeq(<<o, getter>>, <<>>, Slices(v, o))

\* A slice of a register is the bits it stands for.
LEMMA SliceOfRegister ==
  ASSUME NEW o \in Orderings, NEW s, GoodSlice(s, o), NEW x \in BitSeqs(Width(s.reg))
  PROVE  LET part == SliceOf(o, s.left, s.right, x)
         IN  /\ part \in Seq(Bit) /\ Len(part) = RangeWidth(s.left, s.right)
             /\ \A k \in 1..RangeWidth(s.left, s.right) : part[k] = x[SliceStart(s, o) + k]
<1> DEFINE st == SliceStart(s, o)
           w  == RangeWidth(s.left, s.right)
<1>1. Width(s.reg) \in Nat /\ w \in Nat /\ st \in Nat /\ st + w <= Width(s.reg)
  BY SliceRange
<1>2. x \in Seq(Bit) /\ Len(x) = Width(s.reg)
  BY <1>1 DEF BitSeqs
<1>3. SliceOf(o, s.left, s.right, x) = BitsAt(x, st, w)
  BY <1>2 DEF SliceOf, SliceStart
<1> HIDE DEF st, w
<1>4. BitsAt(x, st, w) \in Seq(Bit) /\ Len(BitsAt(x, st, w)) = w /\ \A k \in 1..w : BitsAt(x, st, w)[k] = x[st + k]
  BY <1>1, <1>2, PartOfValue
<1> QED BY <1>3, <1>4 DEF st, w

\* GetView gives the bits of the view in their order.
LEMMA GetViewBits ==
  ASSUME NEW v \in ViewNames, NEW o \in Orderings, NEW getter,
         \A r \in Registers : getter[r] \in BitSeqs(Width(r))
  PROVE  /\ GetViewFor(v, o, getter) = NamedBits(ViewBitsFor[v][o], getter)
         /\ Len(ViewBitsFor[v][o]) = BitsCountFor(v, o) /\ BitsCountFor(v, o) \in Nat
<1> DEFINE q == Slices(v, o)
           n == Len(q)
<1>1. n \in Nat /\ DOMAIN q = 1..n /\ \A k \in 1..n : GoodSlice(q[k], o)
  BY SlicesGood
<1>2. PICK count, bits : ViewSteps(count, bits, v, o)
  BY ViewStepsExist
<1>3. PICK st : Get!SeqSteps(st, <<o, getter>>, <<>>, q, GetViewFor(v, o, getter))
  BY <1>1, Get!FoldLeftSteps DEF GetViewFor
<1> DEFINE Done(i) == st[i] \in Seq(Bit) /\ st[i] = NamedBits(bits[i], getter)
           T == {i \in Nat : i <= n => Done(i)}
<1> HIDE DEF q, n
<1>5. 0 \in T
  <2>1. st[0] = <<>> /\ bits[0] = <<>>
    BY <1>2, <1>3 DEF ViewSteps, Get!SeqSteps
  <2>2. NamedBits(<<>>, getter) = <<>> /\ <<>> \in Seq(Bit)
    BY EmptySeq DEF NamedBits
  <2>3. Done(0)
    BY <2>1, <2>2
  <2> HIDE DEF Done
  <2> QED BY <2>3
<1>6. ASSUME NEW i \in T PROVE i + 1 \in T
  <2> SUFFICES ASSUME i + 1 <= n PROVE Done(i + 1)
    OBVIOUS
  <2>1. i \in Nat /\ i + 1 \in 1..n /\ (i + 1) - 1 = i /\ i \in 0..n /\ i + 1 \in 0..n /\ Done(i)
    BY <1>1, <1>6
  <2> DEFINE s  == q[i + 1]
             w  == RangeWidth(s.left, s.right)
             sb == SliceBits(s, o)
             b  == bits[i]
             m  == Len(b)
             x  == getter[s.reg]
             part == SliceOf(o, s.left, s.right, x)
             new == b \o sb
  <2>2. GoodSlice(s, o) /\ s.reg \in Registers /\ w \in Nat
    BY <1>1, <2>1, SliceRange
  <2>3. m \in Nat /\ b \in Seq(BitNames) /\ bits[i + 1] = new
    BY <1>2, <2>1, LenProperties DEF ViewSteps, q, n
  <2>4. st[i + 1] = st[i] \o part
    BY <1>3, <2>1 DEF Get!SeqSteps, GetStep, n
  <2>5. sb \in Seq(BitNames) /\ Len(sb) = w /\ \A k \in 1..w : sb[k] = <<s.reg, SliceStart(s, o) + k>>
    <3> HIDE DEF s
    <3> QED BY <2>2, SliceBitsAre
  <2>6. part \in Seq(Bit) /\ Len(part) = w /\ \A k \in 1..w : part[k] = x[SliceStart(s, o) + k]
    <3>1. x \in BitSeqs(Width(s.reg))
      BY <2>2
    <3> HIDE DEF s, x
    <3> QED BY <2>2, <3>1, SliceOfRegister
  <2> HIDE DEF s, w, sb, b, m, x, part
  <2>7. st[i] \in Seq(Bit) /\ Len(st[i]) = m /\ \A k \in 1..m : st[i][k] = getter[b[k][1]][b[k][2]]
    <3>1. st[i] \in Seq(Bit) /\ st[i] = [k \in 1..m |-> getter[b[k][1]][b[k][2]]]
      BY <2>1 DEF NamedBits, b, m
    <3>2. Len(st[i]) = m
      BY <2>3, <3>1
    <3> HIDE DEF Done
    <3> QED BY <3>1, <3>2
  <2>8. /\ st[i + 1] \in Seq(Bit) /\ Len(st[i + 1]) = m + w
        /\ \A k \in 1..m + w : st[i + 1][k] = IF k <= m THEN st[i][k] ELSE part[k - m]
    <3> HIDE DEF Done
    <3> DEFINE a == st[i]
    <3>1. a \in Seq(Bit) /\ Len(a) = m /\ st[i + 1] = a \o part
      BY <2>4, <2>7
    <3> HIDE DEF a
    <3>2. /\ a \o part \in Seq(Bit) /\ Len(a \o part) = m + w
          /\ \A k \in 1..m + w : (a \o part)[k] = IF k <= m THEN a[k] ELSE part[k - m]
      BY <2>6, <3>1, ConcatProperties
    <3> QED BY <3>1, <3>2 DEF a
  <2>9. /\ new \in Seq(BitNames) /\ Len(new) = m + w
        /\ \A k \in 1..m + w : new[k] = IF k <= m THEN b[k] ELSE sb[k - m]
    BY <2>3, <2>5, ConcatProperties DEF m
  <2> HIDE DEF new, Done
  <2>10. ASSUME NEW k \in 1..m + w PROVE st[i + 1][k] = getter[new[k][1]][new[k][2]]
    <3>1. CASE k <= m
      <4>1. k \in 1..m
        BY <2>2, <2>3, <3>1
      <4> QED BY <2>7, <2>8, <2>9, <3>1, <4>1
    <3>2. CASE ~(k <= m)
      <4>1. k - m \in 1..w
        BY <2>2, <2>3, <3>2
      <4>2. new[k] = <<s.reg, SliceStart(s, o) + (k - m)>>
        BY <2>5, <2>9, <3>2, <4>1
      <4>3. st[i + 1][k] = x[SliceStart(s, o) + (k - m)]
        BY <2>6, <2>8, <3>2, <4>1
      <4> QED BY <4>2, <4>3 DEF x
    <3> QED BY <3>1, <3>2
  <2>11. st[i + 1] = [k \in 1..m + w |-> st[i + 1][k]]
    BY <2>2, <2>3, <2>8
  <2>12. st[i + 1] = NamedBits(new, getter)
    <3> DEFINE D == 1..m + w
    <3>1. st[i + 1] = [k \in D |-> st[i + 1][k]] /\ \A k \in D : st[i + 1][k] = getter[new[k][1]][new[k][2]]
      BY <2>10, <2>11
    <3>2. NamedBits(new, getter) = [k \in D |-> getter[new[k][1]][new[k][2]]]
      BY <2>9 DEF NamedBits
    <3> HIDE DEF D
    <3> QED BY <3>1, <3>2
  <2> QED BY <2>3, <2>8, <2>12 DEF Done
<1>7. Done(n)
  <2>1. T = Nat
    <3>1. T \in SUBSET Nat
      OBVIOUS
    <3> HIDE DEF T
    <3> QED BY <1>5, <1>6, <3>1, Count!NatSetInduction
  <2>2. n \in T
    BY <1>1, <2>1
  <2> QED BY <1>1, <2>2
<1>8. st[n] = GetViewFor(v, o, getter)
  BY <1>3 DEF Get!SeqSteps, n
<1>9. n \in 0..n /\ bits[n] = ViewBitsFor[v][o] /\ Len(bits[n]) = BitsCountFor(v, o) /\ BitsCountFor(v, o) \in Nat
  BY <1>1, <1>2 DEF ViewSteps, q, n
<1> QED BY <1>7, <1>8, <1>9

\* The bits of a view are bits of its registers.
LEMMA ViewBitsInRegisters ==
  ASSUME NEW v \in ViewNames, NEW o \in Orderings, NEW k \in 1..BitsCountFor(v, o)
  PROVE  \E j \in DOMAIN Slices(v, o), i \in Nat :
           /\ ViewBitsFor[v][o][k] = <<Slices(v, o)[j].reg, i>>
           /\ Slices(v, o)[j].reg \in Registers /\ i \in 1..Width(Slices(v, o)[j].reg)
<1> DEFINE q == Slices(v, o)
           n == Len(q)
           Named(b) == \E j \in 1..n, i \in Nat :
                         b = <<q[j].reg, i>> /\ q[j].reg \in Registers /\ i \in 1..Width(q[j].reg)
<1>1. n \in Nat /\ DOMAIN q = 1..n /\ \A j \in 1..n : GoodSlice(q[j], o)
  BY SlicesGood
<1>2. PICK count, bits : ViewSteps(count, bits, v, o)
  BY ViewStepsExist
<1> DEFINE Done(i) == \A x \in 1..Len(bits[i]) : Named(bits[i][x])
           T == {i \in Nat : i <= n => Done(i)}
<1>3. \A i \in 1..n : bits[i] = bits[i - 1] \o SliceBits(q[i], o)
  BY <1>2 DEF ViewSteps
<1>4. \A i \in 0..n : bits[i] \in Seq(BitNames) /\ Len(bits[i]) \in Nat
  BY <1>2, LenProperties DEF ViewSteps
<1> HIDE DEF q, n, Named
<1>5. 0 \in T
  <2>1. bits[0] = <<>>
    BY <1>2 DEF ViewSteps
  <2> QED BY <2>1
<1>6. ASSUME NEW i \in T PROVE i + 1 \in T
  <2> SUFFICES ASSUME i + 1 <= n PROVE Done(i + 1)
    OBVIOUS
  <2>1. i \in Nat /\ i + 1 \in 1..n /\ (i + 1) - 1 = i /\ i \in 0..n /\ Done(i)
    BY <1>1, <1>6
  <2> DEFINE s  == q[i + 1]
             sb == SliceBits(s, o)
             b  == bits[i]
             m  == Len(b)
             w  == RangeWidth(s.left, s.right)
             st == SliceStart(s, o)
  <2>2. GoodSlice(s, o)
    BY <1>1, <2>1
  <2>3. s.reg \in Registers /\ Width(s.reg) \in Nat /\ w \in Nat /\ st \in Nat /\ st + w <= Width(s.reg)
    <3> HIDE DEF s
    <3> QED BY <2>2, SliceRange
  <2>4. sb \in Seq(BitNames) /\ Len(sb) = w /\ \A x \in 1..w : sb[x] = <<s.reg, st + x>>
    <3> HIDE DEF s
    <3> QED BY <2>2, SliceBitsAre
  <2>5. bits[i + 1] = b \o sb /\ b \in Seq(BitNames) /\ m \in Nat
    BY <1>3, <1>4, <2>1
  <2> HIDE DEF sb, w, st, b, m
  <2>6. Len(b \o sb) = m + w /\ \A x \in 1..m + w : (b \o sb)[x] = IF x <= m THEN b[x] ELSE sb[x - m]
    BY <2>4, <2>5, ConcatProperties DEF m
  <2>7. ASSUME NEW x \in 1..m + w PROVE Named((b \o sb)[x])
    <3>1. CASE x <= m
      <4>1. x \in 1..m
        BY <2>3, <2>5, <3>1
      <4> QED BY <2>1, <2>6, <3>1, <4>1 DEF b, m
    <3>2. CASE ~(x <= m)
      <4>1. x - m \in 1..w
        BY <2>3, <2>5, <3>2
      <4>2. (b \o sb)[x] = <<s.reg, st + (x - m)>>
        BY <2>4, <2>6, <3>2, <4>1
      <4>3. st + (x - m) \in Nat /\ st + (x - m) \in 1..Width(s.reg)
        BY <2>3, <4>1
      <4> QED BY <2>1, <2>3, <4>2, <4>3 DEF Named
    <3> QED BY <3>1, <3>2
  <2> QED BY <2>5, <2>6, <2>7
<1>7. Done(n)
  <2>1. T = Nat
    <3>1. T \in SUBSET Nat
      OBVIOUS
    <3> HIDE DEF T
    <3> QED BY <1>5, <1>6, <3>1, Count!NatSetInduction
  <2>2. n \in T
    BY <1>1, <2>1
  <2> HIDE DEF Done
  <2> QED BY <1>1, <2>2
<1>8. n \in 0..n /\ bits[n] = ViewBitsFor[v][o] /\ Len(bits[n]) = BitsCountFor(v, o)
  BY <1>1, <1>2 DEF ViewSteps, q, n
<1>9. Named(ViewBitsFor[v][o][k])
  BY <1>7, <1>8
<1> QED BY <1>1, <1>9 DEF Named, q

-------------------------------------------------------------------------------
(* Types *)

\* One vector of its width per register.
Vectors(x) == x = [r \in Registers |-> x[r]] /\ \A r \in Registers : x[r] \in BitSeqs(Width(r))

\* Every member of every register has its width, and so has what is asked for.
TypeInv ==
  /\ ordering \in Orderings
  /\ RegistersOK(regs)
  /\ Vectors(goal)
  /\ want = [r \in Registers |-> want[r]]
  /\ \A r \in Registers : want[r] \in [value : BitSeqs(Width(r)), mask : BitSeqs(Width(r))]

\* A vector of bits is a sequence of its length.
LEMMA BitSeqsAre ==
  ASSUME NEW n \in Nat, NEW x \in BitSeqs(n)
  PROVE  x \in Seq(Bit) /\ Len(x) = n
BY DEF BitSeqs

\* The numbers of bits of a view.
LEMMA CountIsNat ==
  ASSUME NEW v \in ViewNames, NEW o \in Orderings
  PROVE  BitsCountFor(v, o) \in Nat /\ Len(ViewBitsFor[v][o]) = BitsCountFor(v, o)
         /\ ViewBitsFor[v][o] \in Seq(BitNames)
<1>1. PICK count, bits : ViewSteps(count, bits, v, o)
  BY ViewStepsExist
<1>2. Len(Slices(v, o)) \in 0..Len(Slices(v, o))
  BY SlicesGood
<1> QED BY <1>1, <1>2 DEF ViewSteps

\* What a view takes and gives are vectors of its size.
LEMMA SampleTypes ==
  ASSUME ordering \in Orderings, NEW v \in ViewNames
  PROVE  /\ \A x \in Samples(BitsCount(v)) : x \in BitSeqs(BitsCount(v)) /\ x \in Seq(Bit) /\ Len(x) = BitsCount(v)
         /\ \A x \in Masks(BitsCount(v)) : x # <<>> =>
              x \in BitSeqs(BitsCount(v)) /\ x \in Seq(Bit) /\ Len(x) = BitsCount(v)
<1> DEFINE n == BitsCount(v)
<1>1. n = BitsCountFor(v, ordering) /\ n \in Nat
  BY CountIsNat DEF BitsCount
<1>2. Samples(n) \subseteq BitSeqs(n) /\ Masks(n) \subseteq BitSeqs(n) \cup {<<>>}
  <2>1. n \in {BitsCountFor(y, o) : y \in ViewNames, o \in Orderings}
    BY <1>1
  <2> QED BY <2>1, ValuesAssumption
<1> HIDE DEF n
<1> QED BY <1>1, <1>2, BitSeqsAre DEF n

\* Spread writes the bits of the view into each vector.
LEMMA SpreadIsWritten ==
  ASSUME ordering \in Orderings, NEW v \in ViewNames, NEW value \in Seq(Bit), Len(value) = BitsCount(v),
         NEW old, NEW r \in Registers
  PROVE  /\ Spread(v, value, old)[r] = Written(ViewBits(v), value, old[r], r)
         /\ old[r] \in BitSeqs(Width(r)) => Spread(v, value, old)[r] \in BitSeqs(Width(r))
<1>1. Len(ViewBits(v)) = Len(value) /\ ViewBits(v) \in Seq(BitNames) /\ DOMAIN value = 1..Len(value)
      /\ Len(value) \in Nat
  BY CountIsNat, LenProperties DEF ViewBits, BitsCount
<1>2. Spread(v, value, old)[r] = Written(ViewBits(v), value, old[r], r)
  BY <1>1 DEF Spread, Written, Places
<1>3. Len(ViewBits(v)) <= Len(value)
  BY <1>1
<1> QED BY <1>1, <1>2, <1>3, WrittenType

-------------------------------------------------------------------------------
(* What each action does to a register *)

\* A write sets bits of the value to send, and what the application asked for.
LEMMA WriteEffect ==
  ASSUME TypeInv, NEW v \in ViewNames, NEW value \in Samples(BitsCount(v)), iWrite(v, value)
  PROVE  /\ TypeInv'
         /\ \A r \in Registers :
              /\ regs'[r].next = Written(ViewBits(v), value, regs[r].next, r)
              /\ goal'[r] = Written(ViewBits(v), value, goal[r], r)
              /\ regs'[r].mismatches = regs[r].mismatches /\ regs'[r].mustCheck = regs[r].mustCheck
              /\ regs'[r].pendingRead = regs[r].pendingRead /\ regs'[r].expected = regs[r].expected
              /\ regs'[r].mask = regs[r].mask
<1>1. ordering \in Orderings /\ RegistersOK(regs) /\ Vectors(goal) /\ ordering' = ordering /\ want' = want
  BY DEF TypeInv, iWrite
<1>2. value \in Seq(Bit) /\ Len(value) = BitsCount(v)
  BY <1>1, SampleTypes
<1>3. regs' = NextWritten(regs, ViewBits(v), value)
  BY <1>1, <1>2, SetToSutWrites DEF iWrite
<1>4. Len(ViewBits(v)) <= Len(value) /\ ViewBits(v) \in Seq(BitNames)
  BY <1>1, <1>2, CountIsNat DEF ViewBits, BitsCount
<1>5. ASSUME NEW r \in Registers
      PROVE  /\ regs'[r] \in RegisterValues(r)
             /\ regs'[r].next = Written(ViewBits(v), value, regs[r].next, r)
             /\ regs'[r].mismatches = regs[r].mismatches /\ regs'[r].mustCheck = regs[r].mustCheck
             /\ regs'[r].pendingRead = regs[r].pendingRead /\ regs'[r].expected = regs[r].expected
             /\ regs'[r].mask = regs[r].mask
  <2> DEFINE new == Written(ViewBits(v), value, regs[r].next, r)
  <2>1. regs[r] \in RegisterValues(r) /\ regs[r].next \in BitSeqs(Width(r))
    BY <1>1 DEF RegistersOK, RegisterValues
  <2>2. new \in BitSeqs(Width(r))
    BY <1>2, <1>4, <2>1, WrittenType
  <2>3. regs'[r] = [regs[r] EXCEPT !.next = new]
    BY <1>3 DEF NextWritten
  <2> HIDE DEF new
  <2>4. /\ regs'[r] \in RegisterValues(r) /\ regs'[r].next = new
        /\ regs'[r].mismatches = regs[r].mismatches /\ regs'[r].mustCheck = regs[r].mustCheck
        /\ regs'[r].pendingRead = regs[r].pendingRead /\ regs'[r].expected = regs[r].expected
        /\ regs'[r].mask = regs[r].mask
    BY <2>1, <2>2, <2>3 DEF RegisterValues
  <2> QED BY <2>4 DEF new
<1>6. RegistersOK(regs')
  <2>1. regs' = [r \in Registers |-> regs'[r]]
    BY <1>3 DEF NextWritten
  <2> QED BY <1>5, <2>1 DEF RegistersOK
<1>7. ASSUME NEW r \in Registers
      PROVE  goal'[r] = Written(ViewBits(v), value, goal[r], r) /\ goal'[r] \in BitSeqs(Width(r))
  <2>1. goal[r] \in BitSeqs(Width(r)) /\ goal' = Spread(v, value, goal)
    BY <1>1 DEF Vectors, iWrite
  <2> QED BY <1>1, <1>2, <2>1, SpreadIsWritten
<1>8. Vectors(goal')
  <2>1. goal' = [r \in Registers |-> goal'[r]]
    BY DEF iWrite, Spread
  <2> QED BY <1>7, <2>1 DEF Vectors
<1> QED BY <1>1, <1>5, <1>6, <1>7, <1>8 DEF TypeInv

\* What SetExpectedFromSut makes of the registers.
LEMMA ExpectEffect ==
  ASSUME TypeInv, NEW v \in ViewNames, NEW value \in Samples(BitsCount(v)), NEW mask \in Masks(BitsCount(v))
  PROVE  LET rs == SetExpectedFromSut(v, value, mask)
         IN  /\ RegistersOK(rs)
             /\ \A r \in Registers :
                  /\ rs[r].next = regs[r].next /\ rs[r].mismatches = regs[r].mismatches
                  /\ rs[r].mustCheck = regs[r].mustCheck
                  /\ mask # <<>> /\ r \notin RegistersOf(v) => rs[r] = regs[r]
                  /\ mask # <<>> /\ r \in RegistersOf(v) =>
                       /\ rs[r].expected = Written(ViewBits(v), value, regs[r].expected, r)
                       /\ rs[r].mask = Written(ViewBits(v), mask, BaseMask(regs[r], r), r)
                       /\ rs[r].mask # <<>>
<1> DEFINE rs == SetExpectedFromSut(v, value, mask)
<1>1. ordering \in Orderings /\ RegistersOK(regs)
  BY DEF TypeInv
<1>2. /\ value \in Seq(Bit) /\ Len(value) = BitsCount(v)
      /\ mask # <<>> => mask \in Seq(Bit) /\ Len(mask) = BitsCount(v)
  BY <1>1, SampleTypes
<1>3. Len(ViewBits(v)) = BitsCount(v) /\ BitsCount(v) \in Nat /\ ViewBits(v) \in Seq(BitNames)
  BY <1>1, CountIsNat DEF ViewBits, BitsCount
<1>4. CASE mask = <<>>
  <2>1. rs = ExpectedWritten(regs, ViewBits(v), value)
    BY <1>1, <1>2, <1>4, SetUnmaskedExpectedWrites DEF SetExpectedFromSut
  <2>2. ASSUME NEW r \in Registers
        PROVE  /\ rs[r] \in RegisterValues(r)
               /\ rs[r].next = regs[r].next /\ rs[r].mismatches = regs[r].mismatches
               /\ rs[r].mustCheck = regs[r].mustCheck
    <3> DEFINE new == Written(ViewBits(v), value, regs[r].expected, r)
    <3>1. regs[r] \in RegisterValues(r) /\ regs[r].expected \in BitSeqs(Width(r))
      BY <1>1 DEF RegistersOK, RegisterValues
    <3>2. Len(ViewBits(v)) <= Len(value)
      BY <1>2, <1>3
    <3>3. new \in BitSeqs(Width(r))
      BY <1>2, <1>3, <3>1, <3>2, WrittenType
    <3>4. rs[r] = [regs[r] EXCEPT !.expected = new]
      BY <2>1 DEF ExpectedWritten
    <3> HIDE DEF new, rs
    <3> QED BY <3>1, <3>3, <3>4 DEF RegisterValues
  <2>3. rs = [r \in Registers |-> rs[r]]
    BY <2>1 DEF ExpectedWritten
  <2> HIDE DEF rs
  <2>4. RegistersOK(rs)
    BY <2>2, <2>3 DEF RegistersOK
  <2> QED BY <1>4, <2>2, <2>4 DEF rs
<1>5. CASE mask # <<>>
  <2>1. rs = MaskedWritten(regs, ViewBits(v), value, mask, RegistersOf(v))
    BY <1>1, <1>2, <1>5, SetMaskedExpectedWrites DEF SetExpectedFromSut
  <2>2. ASSUME NEW r \in Registers
        PROVE  /\ rs[r] \in RegisterValues(r)
               /\ rs[r].next = regs[r].next /\ rs[r].mismatches = regs[r].mismatches
               /\ rs[r].mustCheck = regs[r].mustCheck
               /\ r \notin RegistersOf(v) => rs[r] = regs[r]
               /\ r \in RegistersOf(v) =>
                    /\ rs[r].expected = Written(ViewBits(v), value, regs[r].expected, r)
                    /\ rs[r].mask = Written(ViewBits(v), mask, BaseMask(regs[r], r), r)
                    /\ rs[r].mask # <<>>
    <3> DEFINE e == Written(ViewBits(v), value, regs[r].expected, r)
               m == Written(ViewBits(v), mask, BaseMask(regs[r], r), r)
    <3>1. regs[r] \in RegisterValues(r)
      BY <1>1 DEF RegistersOK
    <3>2. regs[r].expected \in BitSeqs(Width(r)) /\ BaseMask(regs[r], r) \in BitSeqs(Width(r))
      <4>1. Repeat(0, Width(r)) \in BitSeqs(Width(r))
        BY DEF Repeat, BitSeqs, Bit
      <4>2. regs[r].expected \in BitSeqs(Width(r)) /\ regs[r].mask \in BitSeqs(Width(r)) \cup {<<>>}
        BY <3>1 DEF RegisterValues
      <4> QED BY <4>1, <4>2 DEF BaseMask
    <3>3. Len(ViewBits(v)) <= Len(value) /\ Len(ViewBits(v)) <= Len(mask)
      BY <1>2, <1>3, <1>5
    <3>4. e \in BitSeqs(Width(r)) /\ m \in BitSeqs(Width(r))
      BY <1>2, <1>3, <1>5, <3>2, <3>3, WrittenType
    <3>5. m # <<>>
      <4>1. 1 \in DOMAIN m
        BY <3>4, ValuesAssumption DEF BitSeqs
      <4> HIDE DEF m
      <4> QED BY <4>1
    <3>6. rs[r] = IF r \in RegistersOf(v) THEN [regs[r] EXCEPT !.expected = e, !.mask = m] ELSE regs[r]
      BY <2>1 DEF MaskedWritten
    <3> HIDE DEF e, m, rs
    <3>7. /\ rs[r] \in RegisterValues(r)
          /\ rs[r].next = regs[r].next /\ rs[r].mismatches = regs[r].mismatches
          /\ rs[r].mustCheck = regs[r].mustCheck
          /\ r \notin RegistersOf(v) => rs[r] = regs[r]
          /\ r \in RegistersOf(v) => rs[r].expected = e /\ rs[r].mask = m
      BY <3>1, <3>4, <3>6 DEF RegisterValues
    <3> QED BY <3>5, <3>7 DEF e, m
  <2>3. rs = [r \in Registers |-> rs[r]]
    BY <2>1 DEF MaskedWritten
  <2> HIDE DEF rs
  <2>4. RegistersOK(rs)
    BY <2>2, <2>3 DEF RegistersOK
  <2> QED BY <1>5, <2>2, <2>4 DEF rs
<1> QED BY <1>4, <1>5

\* What a read of a view is remembered as.
LEMMA WantEffect ==
  ASSUME TypeInv, NEW v \in ViewNames, NEW value \in Samples(BitsCount(v)), NEW mask \in Masks(BitsCount(v)),
         NEW r \in Registers
  PROVE  LET new == WantAfterRead(v, value, mask)
             zero == Repeat(0, Width(r))
         IN  /\ new = [s \in Registers |-> new[s]]
             /\ new[r] \in [value : BitSeqs(Width(r)), mask : BitSeqs(Width(r))]
             /\ r \notin RegistersOf(v) => new[r] = want[r]
             /\ mask # <<>> /\ r \in RegistersOf(v) =>
                  /\ new[r].value = Written(ViewBits(v), value, zero, r)
                  /\ new[r].mask = Written(ViewBits(v), mask, zero, r)
<1> DEFINE new == WantAfterRead(v, value, mask)
           zeros == [s \in Registers |-> Repeat(0, Width(s))]
           m == IF mask = <<>> THEN AllOnes(Len(value)) ELSE mask
<1>1. ordering \in Orderings /\ want[r] \in [value : BitSeqs(Width(r)), mask : BitSeqs(Width(r))]
  BY DEF TypeInv
<1>2. /\ value \in Seq(Bit) /\ Len(value) = BitsCount(v)
      /\ mask # <<>> => mask \in Seq(Bit) /\ Len(mask) = BitsCount(v)
  BY <1>1, SampleTypes
<1>3. m \in Seq(Bit) /\ Len(m) = BitsCount(v)
  <2>1. Len(value) \in Nat
    BY <1>2, LenProperties
  <2>2. AllOnes(Len(value)) \in BitSeqs(Len(value))
    BY DEF AllOnes, Repeat, BitSeqs, Bit
  <2>3. AllOnes(Len(value)) \in Seq(Bit) /\ Len(AllOnes(Len(value))) = Len(value)
    BY <2>1, <2>2, BitSeqsAre
  <2> QED BY <1>2, <2>3
<1>4. zeros[r] = Repeat(0, Width(r)) /\ zeros[r] \in BitSeqs(Width(r))
  BY DEF Repeat, BitSeqs, Bit
<1>5. new = [s \in Registers |-> IF s \in RegistersOf(v)
                                   THEN [value |-> Spread(v, value, zeros)[s], mask |-> Spread(v, m, zeros)[s]]
                                   ELSE want[s]]
  BY DEF WantAfterRead
<1> HIDE DEF new, zeros, m
<1>6. /\ Spread(v, value, zeros)[r] = Written(ViewBits(v), value, zeros[r], r)
      /\ Spread(v, value, zeros)[r] \in BitSeqs(Width(r))
  BY <1>1, <1>2, <1>4, SpreadIsWritten
<1>7. /\ Spread(v, m, zeros)[r] = Written(ViewBits(v), m, zeros[r], r)
      /\ Spread(v, m, zeros)[r] \in BitSeqs(Width(r))
  BY <1>1, <1>3, <1>4, SpreadIsWritten
<1>8. mask # <<>> => m = mask
  BY DEF m
<1>9. new = [s \in Registers |-> new[s]]
  BY <1>5
<1>10. new[r] = IF r \in RegistersOf(v)
                  THEN [value |-> Spread(v, value, zeros)[r], mask |-> Spread(v, m, zeros)[r]] ELSE want[r]
  BY <1>5
<1> QED BY <1>1, <1>4, <1>6, <1>7, <1>8, <1>9, <1>10 DEF new

-------------------------------------------------------------------------------
(* The invariants *)

\* A register that a cycle will check holds what the reads ask for.
ReadInv ==
  \A r \in Registers : regs[r].mustCheck =>
    /\ regs[r].pendingRead
    /\ regs[r].expected = want[r].value
    /\ want[r].mask = IF regs[r].mask = <<>> THEN AllOnes(Width(r)) ELSE regs[r].mask

\* A step that ends no cycle of register r.
NoCycle(r) ==
  /\ ~(regs'[r].mismatches > regs[r].mismatches)
  /\ regs[r].mustCheck => regs'[r].mustCheck

\* The bits written through a view that covers a register do not depend on what
\* was there.
LEMMA CoveredWritten ==
  ASSUME ReadsCover, ordering \in Orderings, NEW v \in ReadableViews, NEW r \in RegistersOf(v),
         NEW value, NEW x, NEW y
  PROVE  Written(ViewBits(v), value, x, r) = Written(ViewBits(v), value, y, r)
<1>1. v \in ViewNames
  BY ValuesAssumption
<1>2. Len(ViewBits(v)) = BitsCountFor(v, ordering)
  BY <1>1, CountIsNat DEF ViewBits
<1>3. ASSUME NEW i \in 1..Width(r) PROVE Places(ViewBits(v), r, i) # {}
  <2>1. PICK j \in DOMAIN Slices(v, ordering) : r = Slices(v, ordering)[j].reg
    BY DEF RegistersOf
  <2>2. PICK k \in 1..BitsCountFor(v, ordering) : ViewBitsFor[v][ordering][k] = <<r, i>>
    BY <2>1 DEF ReadsCover
  <2> QED BY <1>2, <2>2 DEF Places, ViewBits
<1> QED BY <1>3 DEF Written

\* A write keeps the invariants.
LEMMA WriteKeeps ==
  ASSUME TypeInv, WritesReachTheirBits, NEW v \in ViewNames, NEW value \in Samples(BitsCount(v)),
         iWrite(v, value)
  PROVE  /\ TypeInv' /\ WritesReachTheirBits' /\ \A r \in Registers : NoCycle(r)
         /\ ReadInv => ReadInv'
<1>1. /\ TypeInv'
      /\ \A r \in Registers :
           /\ regs'[r].next = Written(ViewBits(v), value, regs[r].next, r)
           /\ goal'[r] = Written(ViewBits(v), value, goal[r], r)
           /\ regs'[r].mismatches = regs[r].mismatches /\ regs'[r].mustCheck = regs[r].mustCheck
           /\ regs'[r].pendingRead = regs[r].pendingRead /\ regs'[r].expected = regs[r].expected
           /\ regs'[r].mask = regs[r].mask
  BY WriteEffect
<1>2. WritesReachTheirBits'
  BY <1>1 DEF WritesReachTheirBits
<1>3. \A r \in Registers : NoCycle(r)
  <2> TAKE r \in Registers
  <2>1. regs[r].mismatches \in Nat
    BY DEF TypeInv, RegistersOK, RegisterValues
  <2> QED BY <1>1, <2>1 DEF NoCycle
<1>4. want' = want
  BY DEF iWrite
<1>5. ReadInv => ReadInv'
  BY <1>1, <1>4 DEF ReadInv
<1> QED BY <1>1, <1>2, <1>3, <1>5

\* A read of a view keeps the invariants.
LEMMA ReadKeeps ==
  ASSUME TypeInv, WritesReachTheirBits, NEW v \in ReadableViews, NEW value \in Samples(BitsCount(v)),
         NEW mask \in Masks(BitsCount(v)), iRead(v, value, mask)
  PROVE  /\ TypeInv' /\ WritesReachTheirBits' /\ \A r \in Registers : NoCycle(r)
         /\ ReadsCover /\ ReadInv => ReadInv'
<1> DEFINE rs == SetExpectedFromSut(v, value, mask)
           ids == RegistersOf(v)
<1>1. v \in ViewNames /\ ordering \in Orderings /\ ordering' = ordering /\ goal' = goal
  BY ValuesAssumption DEF TypeInv, iRead
<1>2. /\ RegistersOK(rs)
      /\ \A r \in Registers :
           /\ rs[r].next = regs[r].next /\ rs[r].mismatches = regs[r].mismatches
           /\ rs[r].mustCheck = regs[r].mustCheck
           /\ mask # <<>> /\ r \notin ids => rs[r] = regs[r]
           /\ mask # <<>> /\ r \in ids =>
                /\ rs[r].expected = Written(ViewBits(v), value, regs[r].expected, r)
                /\ rs[r].mask = Written(ViewBits(v), mask, BaseMask(regs[r], r), r)
                /\ rs[r].mask # <<>>
  BY <1>1, ExpectEffect
<1>3. regs' = MarkRead(rs, ids, TRUE) /\ want' = WantAfterRead(v, value, mask)
  BY DEF iRead
<1> HIDE DEF rs
<1>4. ASSUME NEW r \in Registers
      PROVE  /\ regs'[r] \in RegisterValues(r)
             /\ regs'[r].next = rs[r].next /\ regs'[r].expected = rs[r].expected /\ regs'[r].mask = rs[r].mask
             /\ regs'[r].mismatches = rs[r].mismatches
             /\ r \in ids => regs'[r].pendingRead = TRUE /\ regs'[r].mustCheck = TRUE
             /\ r \notin ids => regs'[r] = rs[r]
  <2>1. rs[r] \in RegisterValues(r)
    BY <1>2 DEF RegistersOK
  <2>2. regs'[r] = IF r \in ids THEN [rs[r] EXCEPT !.pendingRead = TRUE, !.mustCheck = TRUE] ELSE rs[r]
    <3>1. (TRUE \/ rs[r].mustCheck) = TRUE
      OBVIOUS
    <3> HIDE DEF ids
    <3> QED BY <1>3, <3>1 DEF MarkRead
  <2> HIDE DEF ids
  <2> QED BY <2>1, <2>2 DEF RegisterValues
<1>5. RegistersOK(regs')
  <2>1. regs' = [r \in Registers |-> regs'[r]]
    BY <1>3 DEF MarkRead
  <2> QED BY <1>4, <2>1 DEF RegistersOK
<1>6. ASSUME NEW r \in Registers
      PROVE  /\ want' = [s \in Registers |-> want'[s]]
             /\ want'[r] \in [value : BitSeqs(Width(r)), mask : BitSeqs(Width(r))]
             /\ r \notin ids => want'[r] = want[r]
             /\ mask # <<>> /\ r \in ids =>
                  /\ want'[r].value = Written(ViewBits(v), value, Repeat(0, Width(r)), r)
                  /\ want'[r].mask = Written(ViewBits(v), mask, Repeat(0, Width(r)), r)
  BY <1>1, <1>3, WantEffect
<1>7. TypeInv'
  <2>1. want' = [r \in Registers |-> want'[r]]
    BY <1>3 DEF WantAfterRead
  <2> QED BY <1>1, <1>5, <1>6, <2>1 DEF TypeInv
<1>8. WritesReachTheirBits'
  BY <1>1, <1>2, <1>4 DEF WritesReachTheirBits
<1>9. ASSUME NEW r \in Registers PROVE NoCycle(r)
  <2>1. regs[r].mismatches \in Nat
    BY DEF TypeInv, RegistersOK, RegisterValues
  <2>2. regs'[r].mismatches = regs[r].mismatches
    BY <1>2, <1>4
  <2>3. regs[r].mustCheck => regs'[r].mustCheck
    <3>1. regs[r].mustCheck \in BOOLEAN
      BY DEF TypeInv, RegistersOK, RegisterValues
    <3>2. regs'[r].mustCheck = TRUE \/ regs'[r].mustCheck = regs[r].mustCheck
      BY <1>2, <1>4
    <3> QED BY <3>1, <3>2, Zenon
  <2> QED BY <2>1, <2>2, <2>3 DEF NoCycle
<1>10. ASSUME ReadsCover, ReadInv PROVE ReadInv'
  <2>1. mask # <<>>
    BY <1>10 DEF iRead, ReadsCover
  <2>2. ASSUME NEW r \in Registers, regs'[r].mustCheck
        PROVE  /\ regs'[r].pendingRead /\ regs'[r].expected = want'[r].value
               /\ want'[r].mask = IF regs'[r].mask = <<>> THEN AllOnes(Width(r)) ELSE regs'[r].mask
    <3>1. CASE r \in ids
      <4>1. /\ Written(ViewBits(v), value, regs[r].expected, r) = Written(ViewBits(v), value, Repeat(0, Width(r)), r)
            /\ Written(ViewBits(v), mask, BaseMask(regs[r], r), r) = Written(ViewBits(v), mask, Repeat(0, Width(r)), r)
        BY <1>1, <1>10, <3>1, CoveredWritten
      <4>2. regs'[r].pendingRead
        <5>1. regs'[r].pendingRead = TRUE
          BY <1>4, <3>1
        <5> QED BY <5>1, Zenon
      <4>3. regs'[r].expected = want'[r].value /\ want'[r].mask = regs'[r].mask /\ regs'[r].mask # <<>>
        <5>1. /\ rs[r].expected = Written(ViewBits(v), value, regs[r].expected, r)
              /\ rs[r].mask = Written(ViewBits(v), mask, BaseMask(regs[r], r), r)
              /\ rs[r].mask # <<>>
          BY <1>2, <2>1, <3>1
        <5>2. regs'[r].expected = rs[r].expected /\ regs'[r].mask = rs[r].mask
          BY <1>4
        <5>3. /\ want'[r].value = Written(ViewBits(v), value, Repeat(0, Width(r)), r)
              /\ want'[r].mask = Written(ViewBits(v), mask, Repeat(0, Width(r)), r)
          BY <1>6, <2>1, <3>1
        <5> QED BY <4>1, <5>1, <5>2, <5>3
      <4> QED BY <4>2, <4>3
    <3>2. CASE r \notin ids
      <4>1. regs'[r] = regs[r] /\ want'[r] = want[r]
        BY <1>2, <1>4, <1>6, <2>1, <3>2
      <4> QED BY <1>10, <2>2, <4>1 DEF ReadInv
    <3> QED BY <3>1, <3>2
  <2> QED BY <2>2 DEF ReadInv
<1> QED BY <1>7, <1>8, <1>9, <1>10

\* A read of a register keeps the invariants.
LEMMA ReadRegisterKeeps ==
  ASSUME TypeInv, WritesReachTheirBits, NEW q \in Registers, NEW value \in Samples(Width(q)),
         NEW mask \in Masks(Width(q)), iReadRegister(q, value, mask)
  PROVE  /\ TypeInv' /\ WritesReachTheirBits' /\ \A r \in Registers : NoCycle(r)
         /\ ReadInv => ReadInv'
<1> DEFINE wanted == [value |-> value, mask |-> IF mask = <<>> THEN AllOnes(Width(q)) ELSE mask]
           rs == [regs EXCEPT ![q] = SetRegisterExpected(@, value, mask)]
<1>1. /\ ordering \in Orderings /\ ordering' = ordering /\ goal' = goal
      /\ regs' = MarkRead(rs, {q}, TRUE) /\ want' = [want EXCEPT ![q] = wanted]
  BY DEF TypeInv, iReadRegister
<1>2. value \in BitSeqs(Width(q)) /\ mask \in BitSeqs(Width(q)) \cup {<<>>} /\ Width(q) \in Nat
  BY ValuesAssumption
<1>3. AllOnes(Width(q)) \in BitSeqs(Width(q))
  BY DEF AllOnes, Repeat, BitSeqs, Bit
<1>4. regs = [r \in Registers |-> regs[r]] /\ \A r \in Registers : regs[r] \in RegisterValues(r)
  BY DEF TypeInv, RegistersOK
<1>5. regs' = [r \in Registers |->
                 IF r = q THEN [regs[q] EXCEPT !.expected = value, !.mask = mask,
                                               !.pendingRead = TRUE, !.mustCheck = TRUE]
                 ELSE regs[r]]
  <2>1. rs = [r \in Registers |-> IF r = q THEN [regs[q] EXCEPT !.expected = value, !.mask = mask] ELSE regs[r]]
    BY <1>4 DEF SetRegisterExpected
  <2> HIDE DEF rs
  <2>2. \A r \in Registers : (TRUE \/ rs[r].mustCheck) = TRUE
    OBVIOUS
  <2>3. regs' = [r \in Registers |->
                   IF r \in {q} THEN [rs[r] EXCEPT !.pendingRead = TRUE, !.mustCheck = TRUE] ELSE rs[r]]
    BY <1>1, <2>2 DEF MarkRead
  <2>4. ASSUME NEW r \in Registers
        PROVE  regs'[r] = IF r = q THEN [regs[q] EXCEPT !.expected = value, !.mask = mask,
                                                        !.pendingRead = TRUE, !.mustCheck = TRUE]
                          ELSE regs[r]
    <3>1. CASE r = q
      <4>1. rs[q] = [regs[q] EXCEPT !.expected = value, !.mask = mask]
        BY <2>1
      <4>2. regs'[q] = [rs[q] EXCEPT !.pendingRead = TRUE, !.mustCheck = TRUE]
        BY <2>3
      <4>3. regs[q] \in RegisterValues(q)
        BY <1>4
      <4>4. regs'[q] = [regs[q] EXCEPT !.expected = value, !.mask = mask,
                                       !.pendingRead = TRUE, !.mustCheck = TRUE]
        BY <4>1, <4>2, <4>3 DEF RegisterValues
      <4> QED BY <3>1, <4>4
    <3>2. CASE r # q
      BY <2>1, <2>3, <3>2
    <3> QED BY <3>1, <3>2
  <2>5. regs' = [r \in Registers |-> regs'[r]]
    BY <2>3
  <2> QED BY <2>4, <2>5
<1> HIDE DEF rs
<1>6. ASSUME NEW r \in Registers
      PROVE  /\ regs'[r] \in RegisterValues(r)
             /\ regs'[r].next = regs[r].next /\ regs'[r].mismatches = regs[r].mismatches
             /\ r = q => /\ regs'[r].pendingRead = TRUE /\ regs'[r].mustCheck = TRUE
                         /\ regs'[r].expected = value /\ regs'[r].mask = mask
             /\ r # q => regs'[r] = regs[r]
  <2>1. regs[r] \in RegisterValues(r)
    BY <1>4
  <2>2. CASE r = q
    <3>1. regs'[r] = [regs[r] EXCEPT !.expected = value, !.mask = mask, !.pendingRead = TRUE, !.mustCheck = TRUE]
      BY <1>5, <2>2
    <3>2. value \in BitSeqs(Width(r)) /\ mask \in BitSeqs(Width(r)) \cup {<<>>}
      BY <1>2, <2>2
    <3> QED BY <2>1, <2>2, <3>1, <3>2 DEF RegisterValues
  <2>3. CASE r # q
    BY <1>5, <2>1, <2>3
  <2> QED BY <2>2, <2>3
<1>7. wanted \in [value : BitSeqs(Width(q)), mask : BitSeqs(Width(q))]
  BY <1>2, <1>3
<1>8. /\ want' = [r \in Registers |-> IF r = q THEN wanted ELSE want[r]]
      /\ \A r \in Registers : want[r] \in [value : BitSeqs(Width(r)), mask : BitSeqs(Width(r))]
  <2> HIDE DEF wanted
  <2> QED BY <1>1 DEF TypeInv
<1>9. TypeInv'
  <2> HIDE DEF wanted
  <2>1. RegistersOK(regs')
    BY <1>5, <1>6 DEF RegistersOK
  <2>2. want' = [r \in Registers |-> want'[r]]
        /\ \A r \in Registers : want'[r] \in [value : BitSeqs(Width(r)), mask : BitSeqs(Width(r))]
    BY <1>7, <1>8
  <2> QED BY <1>1, <2>1, <2>2 DEF TypeInv
<1>10. WritesReachTheirBits'
  BY <1>1, <1>6 DEF WritesReachTheirBits
<1>11. ASSUME NEW r \in Registers PROVE NoCycle(r)
  <2>1. regs[r].mismatches \in Nat /\ regs[r].mustCheck \in BOOLEAN
    BY <1>4 DEF RegisterValues
  <2>2. regs'[r].mismatches = regs[r].mismatches
    BY <1>6
  <2>3. regs'[r].mustCheck = TRUE \/ regs'[r].mustCheck = regs[r].mustCheck
    BY <1>6
  <2>4. regs[r].mustCheck => regs'[r].mustCheck
    BY <2>1, <2>3, Zenon
  <2> QED BY <2>1, <2>2, <2>4 DEF NoCycle
<1>12. ASSUME ReadInv PROVE ReadInv'
  <2>1. ASSUME NEW r \in Registers, regs'[r].mustCheck
        PROVE  /\ regs'[r].pendingRead /\ regs'[r].expected = want'[r].value
               /\ want'[r].mask = IF regs'[r].mask = <<>> THEN AllOnes(Width(r)) ELSE regs'[r].mask
    <3>1. CASE r = q
      <4>1. want'[r] = wanted /\ regs'[r].expected = value /\ regs'[r].mask = mask
        BY <1>6, <1>8, <3>1
      <4>2. regs'[r].pendingRead
        <5>1. regs'[r].pendingRead = TRUE
          BY <1>6, <3>1
        <5> QED BY <5>1, Zenon
      <4> QED BY <3>1, <4>1, <4>2
    <3>2. CASE r # q
      <4>1. regs'[r] = regs[r] /\ want'[r] = want[r]
        <5> HIDE DEF wanted
        <5> QED BY <1>6, <1>8, <3>2
      <4> QED BY <1>12, <2>1, <4>1 DEF ReadInv
    <3> QED BY <3>1, <3>2
  <2> QED BY <2>1 DEF ReadInv
<1> QED BY <1>9, <1>10, <1>11, <1>12

\* A refresh keeps the invariants.
LEMMA RefreshKeeps ==
  ASSUME TypeInv, WritesReachTheirBits, NEW v \in ViewNames, iRefresh(v)
  PROVE  /\ TypeInv' /\ WritesReachTheirBits' /\ \A r \in Registers : NoCycle(r)
         /\ ReadInv => ReadInv'
<1> DEFINE ids == RegistersOf(v)
<1>1. /\ ordering \in Orderings /\ ordering' = ordering /\ goal' = goal /\ want' = want
      /\ regs' = MarkRead(regs, ids, FALSE)
  BY DEF TypeInv, iRefresh
<1> HIDE DEF ids
<1>2. ASSUME NEW r \in Registers
      PROVE  /\ regs'[r] \in RegisterValues(r)
             /\ regs'[r].next = regs[r].next /\ regs'[r].mismatches = regs[r].mismatches
             /\ regs'[r].expected = regs[r].expected /\ regs'[r].mask = regs[r].mask
             /\ regs'[r].mustCheck = regs[r].mustCheck
             /\ regs'[r].pendingRead = TRUE \/ regs'[r].pendingRead = regs[r].pendingRead
  <2> DEFINE c == FALSE \/ regs[r].mustCheck
  <2>1. regs[r] \in RegisterValues(r)
    BY DEF TypeInv, RegistersOK
  <2>2. regs[r].mustCheck \in BOOLEAN
    BY <2>1 DEF RegisterValues
  <2>3. c = regs[r].mustCheck
    BY <2>2, Zenon
  <2>4. regs'[r] = IF r \in ids THEN [regs[r] EXCEPT !.pendingRead = TRUE, !.mustCheck = c] ELSE regs[r]
    BY <1>1 DEF MarkRead
  <2> HIDE DEF c
  <2> QED BY <2>1, <2>3, <2>4 DEF RegisterValues
<1>3. RegistersOK(regs')
  <2>1. regs' = [r \in Registers |-> regs'[r]]
    BY <1>1 DEF MarkRead
  <2> QED BY <1>2, <2>1 DEF RegistersOK
<1>4. TypeInv'
  BY <1>1, <1>3 DEF TypeInv
<1>5. WritesReachTheirBits'
  BY <1>1, <1>2 DEF WritesReachTheirBits
<1>6. ASSUME NEW r \in Registers PROVE NoCycle(r)
  <2>1. regs[r].mismatches \in Nat
    BY DEF TypeInv, RegistersOK, RegisterValues
  <2>2. regs'[r].mismatches = regs[r].mismatches /\ regs'[r].mustCheck = regs[r].mustCheck
    BY <1>2
  <2>3. regs[r].mustCheck => regs'[r].mustCheck
    BY <2>2, Zenon
  <2> QED BY <2>1, <2>2, <2>3 DEF NoCycle
<1>7. ASSUME ReadInv PROVE ReadInv'
  <2>1. ASSUME NEW r \in Registers, regs'[r].mustCheck
        PROVE  /\ regs'[r].pendingRead /\ regs'[r].expected = want'[r].value
               /\ want'[r].mask = IF regs'[r].mask = <<>> THEN AllOnes(Width(r)) ELSE regs'[r].mask
    <3>1. /\ regs[r].pendingRead /\ regs[r].expected = want[r].value
          /\ want[r].mask = IF regs[r].mask = <<>> THEN AllOnes(Width(r)) ELSE regs[r].mask
      BY <1>2, <1>7, <2>1 DEF ReadInv
    <3>2. regs'[r].pendingRead = TRUE \/ regs'[r].pendingRead = regs[r].pendingRead
      BY <1>2
    <3>3. regs'[r].pendingRead
      BY <3>1, <3>2, Zenon
    <3> QED BY <1>1, <1>2, <3>1, <3>3
  <2> QED BY <2>1 DEF ReadInv
<1> QED BY <1>4, <1>5, <1>6, <1>7

\* The mask a comparison goes by: all the bits when there is none.
EffectiveMask(mask, n) == IF mask = <<>> THEN AllOnes(n) ELSE mask

\* CompareEqualTo compares the bits its mask cares for.
LEMMA CompareIsAgree ==
  ASSUME NEW n \in Nat, NEW a \in BitSeqs(n), NEW b \in BitSeqs(n), NEW mask \in BitSeqs(n) \cup {<<>>}
  PROVE  CompareEqualTo(a, b, mask) <=> AgreeUnder(a, b, EffectiveMask(mask, n))
<1>1. CASE mask = <<>>
  <2> DEFINE D == 1..n
  <2>1. Len(a) = n /\ Len(b) = n /\ DOMAIN a = D
    BY BitSeqsAre DEF BitSeqs
  <2>2. \A i \in D : AllOnes(n)[i] = 1
    BY DEF AllOnes, Repeat
  <2>3. a \in [D -> Bit] /\ b \in [D -> Bit]
    BY DEF BitSeqs
  <2> HIDE DEF D
  <2>4. (a = b) <=> \A i \in D : a[i] = b[i]
    BY <2>3
  <2>5. AgreeUnder(a, b, AllOnes(n)) <=> \A i \in D : a[i] = b[i]
    BY <2>1, <2>2 DEF AgreeUnder
  <2> QED BY <1>1, <2>4, <2>5 DEF CompareEqualTo, EffectiveMask
<1>2. CASE mask # <<>>
  BY <1>2 DEF CompareEqualTo, EffectiveMask
<1> QED BY <1>1, <1>2

\* LastCompareResult of a register has a 1 where the mask cares and the value read
\* is not the one expected.
LEMMA CompareResultBits ==
  ASSUME NEW n \in Nat, NEW reg, reg.lastRead \in BitSeqs(n), reg.expected \in BitSeqs(n),
         reg.mask \in BitSeqs(n) \cup {<<>>}
  PROVE  /\ RegisterCompareResult(reg) \in BitSeqs(n)
         /\ \A i \in 1..n : RegisterCompareResult(reg)[i] =
              IF EffectiveMask(reg.mask, n)[i] = 1 /\ reg.lastRead[i] # reg.expected[i] THEN 1 ELSE 0
<1> DEFINE x == XorBits(reg.lastRead, reg.expected)
<1>1. x = [i \in 1..n |-> (reg.lastRead[i] + reg.expected[i]) % 2]
  BY DEF XorBits, BitSeqs
<1>2. \A i \in 1..n : reg.lastRead[i] \in {0, 1} /\ reg.expected[i] \in {0, 1}
  BY DEF BitSeqs, Bit
<1>3. \A a, b \in {0, 1} : (a + b) % 2 = IF a # b THEN 1 ELSE 0
  OBVIOUS
<1>4. \A i \in 1..n : x[i] = IF reg.lastRead[i] # reg.expected[i] THEN 1 ELSE 0
  BY <1>1, <1>2, <1>3
<1>5. DOMAIN x = 1..n /\ x = [i \in 1..n |-> x[i]]
  BY <1>1
<1> HIDE DEF x
<1>6. CASE reg.mask = <<>>
  <2>1. RegisterCompareResult(reg) = x
    BY <1>6 DEF RegisterCompareResult, x
  <2>2. \A i \in 1..n : EffectiveMask(reg.mask, n)[i] = 1
    BY <1>6 DEF EffectiveMask, AllOnes, Repeat
  <2> QED BY <1>4, <1>5, <2>1, <2>2 DEF BitSeqs, Bit
<1>7. CASE reg.mask # <<>>
  <2> DEFINE y == AndBits(x, reg.mask)
  <2>1. RegisterCompareResult(reg) = y
    BY <1>7 DEF RegisterCompareResult, x
  <2>2. \A i \in 1..n : reg.mask[i] \in {0, 1}
    BY <1>7 DEF BitSeqs, Bit
  <2>3. y = [i \in 1..n |-> x[i] * reg.mask[i]]
    BY <1>5 DEF AndBits
  <2>4. \A a, b \in {0, 1} : a * b = IF b = 1 /\ a = 1 THEN 1 ELSE 0
    OBVIOUS
  <2>5. \A i \in 1..n : x[i] \in {0, 1} /\ (x[i] = 1 <=> reg.lastRead[i] # reg.expected[i])
    BY <1>4
  <2> HIDE DEF y
  <2>6. \A i \in 1..n : y[i] = IF reg.mask[i] = 1 /\ reg.lastRead[i] # reg.expected[i] THEN 1 ELSE 0
    <3> TAKE i \in 1..n
    <3>1. y[i] = x[i] * reg.mask[i]
      BY <2>3
    <3>2. x[i] * reg.mask[i] = IF reg.mask[i] = 1 /\ x[i] = 1 THEN 1 ELSE 0
      BY <2>2, <2>4, <2>5
    <3> QED BY <2>5, <3>1, <3>2
  <2>7. y \in BitSeqs(n)
    BY <2>3, <2>6 DEF BitSeqs, Bit
  <2> QED BY <1>7, <2>1, <2>6, <2>7 DEF EffectiveMask
<1> QED BY <1>6, <1>7

\* The end of a cycle of a register.
LEMMA FromSutEffect ==
  ASSUME TypeInv, NEW q \in Registers, NEW value \in Samples(Width(q)), FromSut(q, value)
  PROVE  /\ TypeInv' /\ goal' = goal
         /\ \A r \in Registers \ {q} : regs'[r] = regs[r] /\ want'[r] = want[r]
         /\ regs'[q].next = regs[q].next /\ regs'[q].expected = regs[q].expected
         /\ regs'[q].mask = regs[q].mask /\ regs'[q].mustCheck = FALSE
         /\ regs'[q].lastRead = IF regs[q].pendingRead THEN value ELSE regs[q].lastRead
         /\ regs'[q].mismatches = IF regs[q].mustCheck /\ ~CompareEqualTo(value, regs[q].expected, regs[q].mask)
                                    THEN regs[q].mismatches + 1 ELSE regs[q].mismatches
<1> DEFINE g == regs[q]
           new == IF g.pendingRead THEN value ELSE g.lastRead
           count == IF g.mustCheck /\ ~CompareEqualTo(value, g.expected, g.mask)
                      THEN g.mismatches + 1 ELSE g.mismatches
<1>1. regs = [r \in Registers |-> regs[r]] /\ \A r \in Registers : regs[r] \in RegisterValues(r)
  BY DEF TypeInv, RegistersOK
<1>2. value \in BitSeqs(Width(q))
  BY ValuesAssumption
<1>3. g \in RegisterValues(q)
  BY <1>1
<1>4. new \in BitSeqs(Width(q)) /\ count \in Nat
  <2>1. g.lastRead \in BitSeqs(Width(q)) /\ g.mismatches \in Nat
    BY <1>3 DEF RegisterValues
  <2> HIDE DEF g
  <2> QED BY <1>2, <2>1
<1>5. regs' = [regs EXCEPT ![q] = [g EXCEPT !.lastRead = new, !.mismatches = count,
                                            !.pendingRead = FALSE, !.mustCheck = FALSE]]
  BY DEF FromSut, UpdateFromSut
<1> HIDE DEF new, count
<1>6. regs'[q] = [g EXCEPT !.lastRead = new, !.mismatches = count, !.pendingRead = FALSE, !.mustCheck = FALSE]
  <2> HIDE DEF g
  <2> QED BY <1>1, <1>5
<1>7. \A r \in Registers \ {q} : regs'[r] = regs[r]
  <2> HIDE DEF g
  <2> QED BY <1>1, <1>5
<1>8. /\ regs'[q] \in RegisterValues(q)
      /\ regs'[q].next = g.next /\ regs'[q].expected = g.expected /\ regs'[q].mask = g.mask
      /\ regs'[q].mustCheck = FALSE /\ regs'[q].lastRead = new /\ regs'[q].mismatches = count
  <2> HIDE DEF g
  <2> QED BY <1>3, <1>4, <1>6 DEF RegisterValues
<1>9. RegistersOK(regs')
  <2>1. regs' = [r \in Registers |-> regs'[r]]
    <3> HIDE DEF g
    <3> QED BY <1>1, <1>5
  <2> QED BY <1>1, <1>7, <1>8, <2>1 DEF RegistersOK
<1>10. NotRead[q] \in [value : BitSeqs(Width(q)), mask : BitSeqs(Width(q))]
  BY DEF NotRead, Repeat, BitSeqs, Bit
<1>11. /\ want' = [r \in Registers |-> IF r = q THEN NotRead[q] ELSE want[r]]
       /\ \A r \in Registers : want[r] \in [value : BitSeqs(Width(r)), mask : BitSeqs(Width(r))]
       /\ ordering' = ordering /\ goal' = goal
  BY DEF TypeInv, FromSut
<1>12. TypeInv'
  <2>1. want' = [r \in Registers |-> want'[r]]
        /\ \A r \in Registers : want'[r] \in [value : BitSeqs(Width(r)), mask : BitSeqs(Width(r))]
    BY <1>10, <1>11
  <2> QED BY <1>9, <1>11, <2>1 DEF TypeInv
<1> QED BY <1>7, <1>8, <1>11, <1>12 DEF new, count

\* The end of a cycle keeps the invariants; the register is not checked again.
LEMMA FromSutKeeps ==
  ASSUME TypeInv, WritesReachTheirBits, NEW q \in Registers, NEW value \in Samples(Width(q)), FromSut(q, value)
  PROVE  /\ TypeInv' /\ WritesReachTheirBits'
         /\ ReadInv => ReadInv'
<1>1. /\ TypeInv' /\ goal' = goal
      /\ \A r \in Registers \ {q} : regs'[r] = regs[r] /\ want'[r] = want[r]
      /\ regs'[q].next = regs[q].next /\ regs'[q].mustCheck = FALSE
  BY FromSutEffect
<1>2. WritesReachTheirBits'
  BY <1>1 DEF WritesReachTheirBits
<1>3. ASSUME ReadInv PROVE ReadInv'
  <2>1. ASSUME NEW r \in Registers, regs'[r].mustCheck
        PROVE  /\ regs'[r].pendingRead /\ regs'[r].expected = want'[r].value
               /\ want'[r].mask = IF regs'[r].mask = <<>> THEN AllOnes(Width(r)) ELSE regs'[r].mask
    <3>1. regs'[q].mustCheck = FALSE
      BY <1>1
    <3>2. r # q
      BY <2>1, <3>1, Zenon
    <3>3. regs'[r] = regs[r] /\ want'[r] = want[r]
      BY <1>1, <3>2
    <3> QED BY <1>3, <2>1, <3>3 DEF ReadInv
  <2> QED BY <2>1 DEF ReadInv
<1> QED BY <1>1, <1>2, <1>3

\* Clearing the counters keeps the invariants.
LEMMA ClearKeeps ==
  ASSUME TypeInv, WritesReachTheirBits, ClearMismatches
  PROVE  /\ TypeInv' /\ WritesReachTheirBits' /\ \A r \in Registers : NoCycle(r)
         /\ ReadInv => ReadInv'
<1>1. ordering' = ordering /\ goal' = goal /\ want' = want
      /\ regs' = [r \in Registers |-> [regs[r] EXCEPT !.mismatches = 0]]
  BY DEF ClearMismatches
<1>2. ASSUME NEW r \in Registers
      PROVE  /\ regs'[r] \in RegisterValues(r)
             /\ regs'[r].next = regs[r].next /\ regs'[r].mismatches = 0
             /\ regs'[r].expected = regs[r].expected /\ regs'[r].mask = regs[r].mask
             /\ regs'[r].mustCheck = regs[r].mustCheck
             /\ regs'[r].pendingRead = regs[r].pendingRead
             /\ regs[r].mismatches \in Nat
  <2>1. regs[r] \in RegisterValues(r)
    BY DEF TypeInv, RegistersOK
  <2>2. regs'[r] = [regs[r] EXCEPT !.mismatches = 0]
    BY <1>1
  <2> QED BY <2>1, <2>2 DEF RegisterValues
<1>3. RegistersOK(regs')
  <2>1. regs' = [r \in Registers |-> regs'[r]]
    BY <1>1
  <2> QED BY <1>2, <2>1 DEF RegistersOK
<1>4. TypeInv'
  BY <1>1, <1>3 DEF TypeInv
<1>5. WritesReachTheirBits'
  BY <1>1, <1>2 DEF WritesReachTheirBits
<1>6. ASSUME NEW r \in Registers PROVE NoCycle(r)
  <2>1. regs'[r].mismatches = 0 /\ regs[r].mismatches \in Nat /\ regs'[r].mustCheck = regs[r].mustCheck
    BY <1>2
  <2>2. regs[r].mustCheck => regs'[r].mustCheck
    BY <2>1, Zenon
  <2> QED BY <2>1, <2>2 DEF NoCycle
<1>7. ReadInv => ReadInv'
  BY <1>1, <1>2 DEF ReadInv
<1> QED BY <1>4, <1>5, <1>6, <1>7

\* The invariants hold before the first call.
LEMMA InitInv == Init => TypeInv /\ WritesReachTheirBits /\ ReadInv
<1> SUFFICES ASSUME Init PROVE TypeInv /\ WritesReachTheirBits /\ ReadInv
  OBVIOUS
<1>1. \A r \in Registers : Repeat(0, Width(r)) \in BitSeqs(Width(r))
  BY DEF Repeat, BitSeqs, Bit
<1>2. ASSUME NEW r \in Registers PROVE regs[r] \in RegisterValues(r) /\ regs[r].next = Repeat(0, Width(r))
                                       /\ regs[r].mustCheck = FALSE
  <2>1. regs[r] = NewRegister(r)
    BY DEF Init
  <2> DEFINE zero == Repeat(0, Width(r))
  <2>2. zero \in BitSeqs(Width(r))
    BY <1>1
  <2>3. NewRegister(r) = [ next |-> zero, expected |-> zero, mask |-> <<>>,
          lastRead |-> zero, pendingRead |-> FALSE, mustCheck |-> FALSE, mismatches |-> 0 ]
    BY DEF NewRegister
  <2> HIDE DEF zero
  <2>4. /\ NewRegister(r) \in RegisterValues(r) /\ NewRegister(r).next = zero
        /\ NewRegister(r).mustCheck = FALSE
    BY <2>2, <2>3 DEF RegisterValues
  <2> QED BY <2>1, <2>4 DEF zero
<1>3. RegistersOK(regs)
  <2>1. regs = [r \in Registers |-> regs[r]]
    BY DEF Init
  <2> QED BY <1>2, <2>1 DEF RegistersOK
<1>4. Vectors(goal) /\ \A r \in Registers : goal[r] = Repeat(0, Width(r))
  BY <1>1 DEF Init, Vectors
<1>5. want = [r \in Registers |-> want[r]]
      /\ \A r \in Registers : want[r] \in [value : BitSeqs(Width(r)), mask : BitSeqs(Width(r))]
  BY <1>1 DEF Init, NotRead
<1>6. TypeInv
  BY <1>3, <1>4, <1>5 DEF TypeInv, Init
<1>7. WritesReachTheirBits
  BY <1>2, <1>4 DEF WritesReachTheirBits
<1>8. \A r \in Registers : ~regs[r].mustCheck
  <2>1. \A r \in Registers : regs[r].mustCheck = FALSE
    BY <1>2
  <2> QED BY <2>1, Zenon
<1> QED BY <1>6, <1>7, <1>8 DEF ReadInv

\* Every step keeps the invariants, and only the end of a cycle of a register counts
\* a mismatch of it or ends its check.
LEMMA NextKeeps ==
  ASSUME TypeInv, WritesReachTheirBits, [Next]_vars
  PROVE  /\ TypeInv' /\ WritesReachTheirBits'
         /\ ReadsCover /\ ReadInv => ReadInv'
         /\ \/ \A r \in Registers : NoCycle(r)
            \/ \E q \in Registers : \E value \in Samples(Width(q)) : FromSut(q, value)
<1>1. CASE \E v \in ViewNames : \E value \in Samples(BitsCount(v)) : iWrite(v, value)
  BY <1>1, WriteKeeps
<1>2. CASE \E v \in ReadableViews : \E value \in Samples(BitsCount(v)), mask \in Masks(BitsCount(v)) :
             iRead(v, value, mask)
  BY <1>2, ReadKeeps
<1>3. CASE \E r \in Registers : \E value \in Samples(Width(r)), mask \in Masks(Width(r)) :
             iReadRegister(r, value, mask)
  BY <1>3, ReadRegisterKeeps
<1>4. CASE \E v \in ViewNames : iRefresh(v)
  BY <1>4, RefreshKeeps
<1>5. CASE \E r \in Registers : \E value \in Samples(Width(r)) : FromSut(r, value)
  BY <1>5, FromSutKeeps
<1>6. CASE ClearMismatches
  BY <1>6, ClearKeeps
<1>7. CASE UNCHANGED vars
  <2>1. ordering' = ordering /\ regs' = regs /\ goal' = goal /\ want' = want
    BY <1>7 DEF vars
  <2>2. TypeInv' /\ WritesReachTheirBits' /\ (ReadInv => ReadInv')
    BY <2>1 DEF TypeInv, WritesReachTheirBits, ReadInv
  <2>3. ASSUME NEW r \in Registers PROVE NoCycle(r)
    <3>1. regs[r].mismatches \in Nat
      BY DEF TypeInv, RegistersOK, RegisterValues
    <3> QED BY <2>1, <3>1 DEF NoCycle
  <2> QED BY <2>2, <2>3
<1> QED BY <1>1, <1>2, <1>3, <1>4, <1>5, <1>6, <1>7 DEF Next

\* The types and WritesReachTheirBits are invariants together.
LEMMA SpecInv == Spec => [](TypeInv /\ WritesReachTheirBits)
<1>1. Init => TypeInv /\ WritesReachTheirBits
  BY InitInv
<1>2. TypeInv /\ WritesReachTheirBits /\ [Next]_vars => (TypeInv /\ WritesReachTheirBits)'
  BY NextKeeps
<1> QED BY <1>1, <1>2, PTL DEF Spec

\* A write through a view changes the bits the view stands for, and no other.
THEOREM WritesRight == Spec => []WritesReachTheirBits
BY SpecInv, PTL

\* Reading a view gives its bits in the order of the slices.
THEOREM ViewsRight == Spec => []ViewsReadBack
<1>1. ASSUME TypeInv, WritesReachTheirBits PROVE ViewsReadBack
  <2> SUFFICES ASSUME NEW v \in ViewNames
               PROVE  NextToSut(v) = [k \in 1..BitsCount(v) |-> goal[ViewBits(v)[k][1]][ViewBits(v)[k][2]]]
    BY DEF ViewsReadBack
  <2> DEFINE getter == [r \in Registers |-> regs[r].next]
             bits   == ViewBitsFor[v][ordering]
  <2>1. ordering \in Orderings
    BY <1>1 DEF TypeInv
  <2>2. \A r \in Registers : getter[r] \in BitSeqs(Width(r)) /\ getter[r] = goal[r]
    BY <1>1 DEF TypeInv, RegistersOK, RegisterValues, WritesReachTheirBits
  <2> HIDE DEF getter
  <2>3. GetView(v, getter) = NamedBits(bits, getter) /\ Len(bits) = BitsCount(v)
    BY <2>1, <2>2, GetFold, GetViewBits DEF GetViewFor, BitsCount
  <2>4. \A k \in 1..BitsCount(v) : bits[k][1] \in Registers
    <3> TAKE k \in 1..BitsCount(v)
    <3>1. PICK j \in DOMAIN Slices(v, ordering), i \in Nat :
            bits[k] = <<Slices(v, ordering)[j].reg, i>> /\ Slices(v, ordering)[j].reg \in Registers
      BY <2>1, ViewBitsInRegisters DEF BitsCount
    <3> QED BY <3>1
  <2>5. NextToSut(v) = NamedBits(bits, getter)
    BY <2>3 DEF NextToSut, getter
  <2> HIDE DEF bits
  <2>6. NamedBits(bits, getter) = [k \in 1..BitsCount(v) |-> goal[bits[k][1]][bits[k][2]]]
    BY <2>2, <2>3, <2>4 DEF NamedBits
  <2> QED BY <2>5, <2>6 DEF ViewBits, bits
<1> QED BY <1>1, SpecInv, PTL

\* The step part of MismatchIffWrong, for a register.
MismatchStep(r) ==
  regs'[r].mismatches > regs[r].mismatches <=>
    /\ regs[r].mustCheck /\ ~regs'[r].mustCheck
    /\ ~AgreeUnder(regs'[r].lastRead, want[r].value, want[r].mask)

\* The end of a cycle counts a mismatch exactly when a bit that is cared for is wrong.
LEMMA CycleMismatch ==
  ASSUME TypeInv, ReadInv, NEW q \in Registers, NEW value \in Samples(Width(q)), FromSut(q, value),
         NEW r \in Registers
  PROVE  MismatchStep(r)
<1>1. /\ \A x \in Registers \ {q} : regs'[x] = regs[x] /\ want'[x] = want[x]
      /\ regs'[q].mustCheck = FALSE
      /\ regs'[q].lastRead = IF regs[q].pendingRead THEN value ELSE regs[q].lastRead
      /\ regs'[q].mismatches = IF regs[q].mustCheck /\ ~CompareEqualTo(value, regs[q].expected, regs[q].mask)
                                 THEN regs[q].mismatches + 1 ELSE regs[q].mismatches
  BY FromSutEffect
<1>2. regs[r].mismatches \in Nat /\ regs[r].mustCheck \in BOOLEAN
      /\ regs[r].expected \in BitSeqs(Width(r)) /\ regs[r].mask \in BitSeqs(Width(r)) \cup {<<>>}
  BY DEF TypeInv, RegistersOK, RegisterValues
<1>3. CASE r # q
  <2>1. regs'[r] = regs[r]
    BY <1>1, <1>3
  <2>2. ~(regs'[r].mismatches > regs[r].mismatches)
    BY <1>2, <2>1
  <2>3. ~(regs[r].mustCheck /\ ~regs'[r].mustCheck)
    BY <2>1, Zenon
  <2> QED BY <2>2, <2>3 DEF MismatchStep
<1>4. CASE r = q /\ ~regs[r].mustCheck
  <2>1. regs'[r].mismatches = regs[r].mismatches
    BY <1>1, <1>4
  <2> QED BY <1>2, <1>4, <2>1 DEF MismatchStep
<1>5. CASE r = q /\ regs[r].mustCheck
  <2> DEFINE effective == EffectiveMask(regs[r].mask, Width(r))
  <2>1. regs[r].pendingRead /\ regs[r].expected = want[r].value /\ want[r].mask = effective
    BY <1>5 DEF ReadInv, EffectiveMask
  <2>2. regs'[r].lastRead = value
    BY <1>1, <1>5, <2>1
  <2>3. value \in BitSeqs(Width(r)) /\ Width(r) \in Nat
    BY <1>5, ValuesAssumption
  <2>4. CompareEqualTo(value, regs[r].expected, regs[r].mask) <=> AgreeUnder(value, regs[r].expected, effective)
    BY <1>2, <2>3, CompareIsAgree
  <2> HIDE DEF effective
  <2>5. CompareEqualTo(value, regs[r].expected, regs[r].mask)
          <=> AgreeUnder(regs'[r].lastRead, want[r].value, want[r].mask)
    BY <2>1, <2>2, <2>4
  <2>6. regs'[r].mismatches > regs[r].mismatches <=> ~CompareEqualTo(value, regs[r].expected, regs[r].mask)
    <3>1. regs'[r].mismatches = IF ~CompareEqualTo(value, regs[r].expected, regs[r].mask)
                                  THEN regs[r].mismatches + 1 ELSE regs[r].mismatches
      BY <1>1, <1>5
    <3> QED BY <1>2, <3>1
  <2>7. ~regs'[r].mustCheck
    <3>1. regs'[r].mustCheck = FALSE
      BY <1>1, <1>5
    <3> QED BY <3>1, Zenon
  <2> QED BY <1>5, <2>5, <2>6, <2>7 DEF MismatchStep
<1> QED BY <1>3, <1>4, <1>5

\* With reads that cover what they read, the registers that will be checked hold what
\* the reads ask for.
LEMMA SpecReadInv ==
  ASSUME ReadsCover
  PROVE  Spec => [](TypeInv /\ WritesReachTheirBits /\ ReadInv)
<1> DEFINE J == TypeInv /\ WritesReachTheirBits /\ ReadInv
<1>1. Init => J
  BY InitInv
<1>2. J /\ [Next]_vars => J'
  BY NextKeeps, ReadsCover
<1> HIDE DEF J
<1>3. Spec => []J
  BY <1>1, <1>2, PTL DEF Spec
<1> QED BY <1>3 DEF J

\* A cycle counts a mismatch exactly when a bit that a read cares for is wrong, for
\* reads that cover what they read.
THEOREM MismatchesRight ==
  ASSUME ReadsCover
  PROVE  Spec => MismatchIffWrong
<1>1. ASSUME TypeInv, WritesReachTheirBits, ReadInv, [Next]_vars, NEW r \in Registers
      PROVE  MismatchStep(r)
  <2>1. CASE \A x \in Registers : NoCycle(x)
    BY <2>1 DEF NoCycle, MismatchStep
  <2>2. CASE \E q \in Registers : \E value \in Samples(Width(q)) : FromSut(q, value)
    BY <1>1, <2>2, CycleMismatch
  <2> QED BY <1>1, <2>1, <2>2, NextKeeps
<1>2. TypeInv /\ WritesReachTheirBits /\ ReadInv /\ [Next]_vars
        => [\A r \in Registers :
              regs'[r].mismatches > regs[r].mismatches <=>
                /\ regs[r].mustCheck /\ ~regs'[r].mustCheck
                /\ ~AgreeUnder(regs'[r].lastRead, want[r].value, want[r].mask)]_vars
  BY <1>1 DEF MismatchStep
<1>3. Spec => [](TypeInv /\ WritesReachTheirBits /\ ReadInv)
  BY SpecReadInv
<1> QED BY <1>2, <1>3, PTL DEF Spec, MismatchIffWrong

\* The comparison result of a view, as a loop over its slices.
LEMMA CompareResultFold ==
  \A v \in ViewNames :
    LastCompareResult(v) = GetViewFor(v, ordering, [r \in Registers |-> RegisterCompareResult(regs[r])])
BY GetFold DEF LastCompareResult, GetViewFor

\* The step part of CompareResultShowsWrongBits.
CompareStep(v, r) ==
  (/\ RegistersOf(v) = {r} /\ regs[r].mustCheck /\ ~regs'[r].mustCheck) =>
    LastCompareResult(v)' =
      [k \in 1 .. BitsCount(v) |->
         LET i == ViewBits(v)[k][2]
         IN  IF want[r].mask[i] = 1 /\ regs'[r].lastRead[i] # want[r].value[i] THEN 1 ELSE 0]

\* The end of the cycle of the register of a view leaves the comparison result of the
\* view showing the wrong bits.
LEMMA CycleCompares ==
  ASSUME TypeInv, ReadInv, NEW r \in Registers, NEW value \in Samples(Width(r)), FromSut(r, value),
         NEW v \in ReadableViews, RegistersOf(v) = {r}, regs[r].mustCheck, LastCompareResult(v)' =
         GetViewFor(v, ordering', [x \in Registers |-> RegisterCompareResult(regs'[x])])
  PROVE  CompareStep(v, r)
<1> DEFINE getter == [x \in Registers |-> RegisterCompareResult(regs'[x])]
           bits   == ViewBitsFor[v][ordering]
           n      == BitsCount(v)
           result(i) == IF want[r].mask[i] = 1 /\ regs'[r].lastRead[i] # want[r].value[i] THEN 1 ELSE 0
<1>1. v \in ViewNames /\ ordering \in Orderings /\ ordering' = ordering
  BY ValuesAssumption DEF TypeInv, FromSut
<1>2. /\ TypeInv' /\ regs'[r].expected = regs[r].expected /\ regs'[r].mask = regs[r].mask
  BY FromSutEffect
<1>3. \A x \in Registers : /\ Width(x) \in Nat /\ regs'[x].lastRead \in BitSeqs(Width(x))
                           /\ regs'[x].expected \in BitSeqs(Width(x))
                           /\ regs'[x].mask \in BitSeqs(Width(x)) \cup {<<>>}
  BY <1>2, ValuesAssumption DEF TypeInv, RegistersOK, RegisterValues
<1>4. ASSUME NEW x \in Registers
      PROVE  /\ getter[x] \in BitSeqs(Width(x))
             /\ \A i \in 1..Width(x) : getter[x][i] =
                  IF EffectiveMask(regs'[x].mask, Width(x))[i] = 1 /\ regs'[x].lastRead[i] # regs'[x].expected[i]
                    THEN 1 ELSE 0
  <2> DEFINE reg == regs'[x]
             w   == Width(x)
  <2>1. w \in Nat /\ reg.lastRead \in BitSeqs(w) /\ reg.expected \in BitSeqs(w) /\ reg.mask \in BitSeqs(w) \cup {<<>>}
    BY <1>3
  <2>2. getter[x] = RegisterCompareResult(reg)
    OBVIOUS
  <2> HIDE DEF reg, w
  <2>3. /\ RegisterCompareResult(reg) \in BitSeqs(w)
        /\ \A i \in 1..w : RegisterCompareResult(reg)[i] =
             IF EffectiveMask(reg.mask, w)[i] = 1 /\ reg.lastRead[i] # reg.expected[i] THEN 1 ELSE 0
    BY <2>1, CompareResultBits
  <2> HIDE DEF getter
  <2> QED BY <2>2, <2>3 DEF reg, w
<1>5. EffectiveMask(regs'[r].mask, Width(r)) = want[r].mask /\ regs'[r].expected = want[r].value
  BY <1>2 DEF ReadInv, EffectiveMask
<1> HIDE DEF getter
<1>6. \A i \in 1..Width(r) : getter[r][i] = result(i)
  BY <1>4, <1>5
<1>7. GetViewFor(v, ordering, getter) = NamedBits(bits, getter) /\ Len(bits) = n
  BY <1>1, <1>4, GetViewBits DEF BitsCount
<1>8. ASSUME NEW k \in 1..n PROVE bits[k][1] = r /\ bits[k][2] \in 1..Width(r)
  <2>1. PICK j \in DOMAIN Slices(v, ordering), i \in Nat :
          /\ bits[k] = <<Slices(v, ordering)[j].reg, i>>
          /\ Slices(v, ordering)[j].reg \in Registers /\ i \in 1..Width(Slices(v, ordering)[j].reg)
    BY <1>1, ViewBitsInRegisters DEF BitsCount
  <2>2. Slices(v, ordering)[j].reg = r
    BY DEF RegistersOf
  <2> QED BY <2>1, <2>2
<1>9. LastCompareResult(v)' = NamedBits(bits, getter)
  BY <1>1, <1>7 DEF getter
<1> HIDE DEF bits, n, result
<1>10. NamedBits(bits, getter) = [k \in 1..n |-> result(bits[k][2])]
  BY <1>6, <1>7, <1>8 DEF NamedBits
<1>11. LastCompareResult(v)' = [k \in 1..n |-> result(bits[k][2])]
  BY <1>9, <1>10
<1>12. [k \in 1..n |-> result(bits[k][2])] =
         [k \in 1 .. BitsCount(v) |->
            LET i == ViewBits(v)[k][2]
            IN  IF want[r].mask[i] = 1 /\ regs'[r].lastRead[i] # want[r].value[i] THEN 1 ELSE 0]
  BY Zenon DEF bits, n, result, ViewBits
<1>13. LastCompareResult(v)' =
         [k \in 1 .. BitsCount(v) |->
            LET i == ViewBits(v)[k][2]
            IN  IF want[r].mask[i] = 1 /\ regs'[r].lastRead[i] # want[r].value[i] THEN 1 ELSE 0]
  BY <1>11, <1>12, Zenon
<1> QED BY <1>13, Zenon DEF CompareStep

\* The comparison result of a view shows the wrong bits, for reads that cover what
\* they read.
THEOREM CompareResultsRight ==
  ASSUME ReadsCover
  PROVE  Spec => CompareResultShowsWrongBits
<1> DEFINE Folded == \A v \in ViewNames : LastCompareResult(v) =
                       GetViewFor(v, ordering, [r \in Registers |-> RegisterCompareResult(regs[r])])
<1>1. ASSUME Folded', NEW v \in ReadableViews
      PROVE  LastCompareResult(v)' = GetViewFor(v, ordering', [x \in Registers |-> RegisterCompareResult(regs'[x])])
  <2>1. v \in ViewNames
    BY ValuesAssumption
  <2> QED BY <1>1, <2>1 DEF GetViewFor, RegisterCompareResult
<1>2. ASSUME TypeInv, WritesReachTheirBits, ReadInv, [Next]_vars, Folded', NEW v \in ReadableViews, NEW r \in Registers
      PROVE  CompareStep(v, r)
  <2>1. CASE \A x \in Registers : NoCycle(x)
    BY <2>1 DEF NoCycle, CompareStep
  <2>2. CASE \E q \in Registers : \E value \in Samples(Width(q)) : FromSut(q, value)
    <3>0. PICK q \in Registers : \E value \in Samples(Width(q)) : FromSut(q, value)
      BY <2>2
    <3>1. PICK value \in Samples(Width(q)) : FromSut(q, value)
      BY <3>0
    <3>2. CASE q = r /\ regs[r].mustCheck /\ RegistersOf(v) = {r}
      <4>1. value \in Samples(Width(r)) /\ FromSut(r, value)
        BY <3>1, <3>2
      <4> QED BY <1>1, <1>2, <3>2, <4>1, CycleCompares
    <3>3. CASE q = r /\ ~(regs[r].mustCheck /\ RegistersOf(v) = {r})
      BY <3>3 DEF CompareStep
    <3>4. CASE q # r
      <4>1. regs'[r] = regs[r]
        BY <1>2, <3>1, <3>4, FromSutEffect
      <4>2. ~(regs[r].mustCheck /\ ~regs'[r].mustCheck)
        BY <4>1, Zenon
      <4> QED BY <4>2 DEF CompareStep
    <3> QED BY <3>2, <3>3, <3>4
  <2> QED BY <1>2, <2>1, <2>2, NextKeeps
<1>3. TypeInv /\ WritesReachTheirBits /\ ReadInv /\ [Next]_vars /\ Folded'
        => [\A v \in ReadableViews, r \in Registers :
              (/\ RegistersOf(v) = {r} /\ regs[r].mustCheck /\ ~regs'[r].mustCheck) =>
                LastCompareResult(v)' =
                  [k \in 1 .. BitsCount(v) |->
                     LET i == ViewBits(v)[k][2]
                     IN  IF want[r].mask[i] = 1 /\ regs'[r].lastRead[i] # want[r].value[i] THEN 1 ELSE 0]]_vars
  <2> HIDE DEF Folded
  <2> QED BY <1>2 DEF CompareStep
<1>4. Folded
  BY CompareResultFold
<1>5. Spec => [](TypeInv /\ WritesReachTheirBits /\ ReadInv)
  BY SpecReadInv
<1> HIDE DEF Folded
<1> QED BY <1>3, <1>4, <1>5, PTL DEF Spec, CompareResultShowsWrongBits

===============================================================================
