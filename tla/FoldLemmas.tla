----------------------------- MODULE FoldLemmas -----------------------------
(***************************************************************************)
(* What the folds of the community modules compute, in a form the provers   *)
(* can use.  A theorem about an arbitrary operator cannot be instantiated   *)
(* by them, but a module can: Op is a constant here, and a proof module      *)
(* takes one instance of this module for each operator it folds.  The first *)
(* argument of Op stands for whatever a fold leaves unchanged.               *)
(*                                                                         *)
(* The induction behind it is over sets of numbers: a property P is proved   *)
(* for all numbers by applying NatSetInduction to {n \in Nat : P(n)}.        *)
(***************************************************************************)
EXTENDS Naturals, Sequences, SequencesExt, FiniteSetTheorems, WellFoundedInduction, TLAPS

CONSTANT Op(_, _, _)

-------------------------------------------------------------------------------
(* Induction over the natural numbers *)

\* A set of natural numbers has a least element: the intervals from 0 to its
\* members are finite, and their order by inclusion is well founded.
LEMMA NatLeast ==
  ASSUME NEW T \in SUBSET Nat, T # {}
  PROVE  \E m \in T : \A k \in T : m <= k
<1> DEFINE I == {0..n : n \in T}
<1>1. I \subseteq FiniteSubsetsOf(Nat)
  <2>1. \A n \in Nat : IsFiniteSet(0..n)
    BY FS_Interval
  <2> QED BY <2>1 DEF FiniteSubsetsOf
<1>2. I # {}
  OBVIOUS
<1>3. IsWellFoundedOn(StrictSubsetOrdering(Nat), FiniteSubsetsOf(Nat))
  BY FS_StrictSubsetOrderingWellFounded
<1>4. PICK x \in I : \A y \in I : <<y, x>> \notin StrictSubsetOrdering(Nat)
  <2> HIDE DEF I
  <2> QED BY <1>1, <1>2, <1>3, WFMin
<1>5. PICK m \in T : x = 0..m
  OBVIOUS
<1>6. ASSUME NEW k \in T, k < m PROVE FALSE
  <2>1. 0..k \in I
    OBVIOUS
  <2>2. (0..k) \subseteq (0..m) /\ m \notin 0..k /\ m \in 0..m
    BY <1>6
  <2>3. <<0..k, 0..m>> \in StrictSubsetOrdering(Nat)
    BY <2>2 DEF StrictSubsetOrdering
  <2> QED BY <2>1, <2>3, <1>4, <1>5
<1> QED BY <1>6

\* Induction, for the set of the numbers that have the property in question.
LEMMA NatSetInduction ==
  ASSUME NEW T \in SUBSET Nat, 0 \in T, \A n \in T : n + 1 \in T
  PROVE  T = Nat
<1> SUFFICES ASSUME Nat \ T # {} PROVE FALSE
  OBVIOUS
<1>1. PICK m \in Nat \ T : \A k \in Nat \ T : m <= k
  BY NatLeast
<1>2. m # 0 /\ m - 1 \in Nat /\ m - 1 \notin Nat \ T
  BY <1>1
<1> QED BY <1>2

-------------------------------------------------------------------------------
(* The recursion that all folds are defined by *)

\* f folds the sets of D: ch says which element of a set is taken, and val what
\* this element contributes.
IsFoldOn(f, D, c, base, ch, val) ==
  f = [s \in D |-> IF s = {} THEN base ELSE Op(c, f[s \ {ch[s]}], val[ch[s]])]

\* The subsets of S with at most k elements.
SmallSubsets(S, k) == {s \in SUBSET S : Cardinality(s) <= k}

\* There is such a function on the subsets of a finite set.
LEMMA FoldExists ==
  ASSUME NEW c, NEW base, NEW S, IsFiniteSet(S), NEW val, NEW ch,
         \A s \in SUBSET S : s # {} => ch[s] \in s
  PROVE  \E f : IsFoldOn(f, SUBSET S, c, base, ch, val)
<1> DEFINE T == {k \in Nat : \E f : IsFoldOn(f, SmallSubsets(S, k), c, base, ch, val)}
<1>a. \A s \in SUBSET S : IsFiniteSet(s) /\ Cardinality(s) \in Nat
  BY FS_Subset, FS_CardinalityType
<1>1. 0 \in T
  <2>1. SmallSubsets(S, 0) = {{}}
    BY <1>a, FS_EmptySet DEF SmallSubsets
  <2>2. IsFoldOn([s \in {{}} |-> base], {{}}, c, base, ch, val)
    BY DEF IsFoldOn
  <2> QED BY <2>1, <2>2
<1>2. ASSUME NEW k \in T PROVE k + 1 \in T
  <2>1. PICK f : IsFoldOn(f, SmallSubsets(S, k), c, base, ch, val)
    OBVIOUS
  <2> DEFINE g == [s \in SmallSubsets(S, k + 1) |->
                     IF s \in SmallSubsets(S, k) THEN f[s]
                     ELSE Op(c, f[s \ {ch[s]}], val[ch[s]])]
  <2>2. ASSUME NEW s \in SmallSubsets(S, k + 1), s # {}
        PROVE  s \ {ch[s]} \in SmallSubsets(S, k)
    <3>1. ch[s] \in s
      BY <2>2 DEF SmallSubsets
    <3>2. Cardinality(s \ {ch[s]}) = Cardinality(s) - 1
      BY <1>a, <3>1, FS_RemoveElement DEF SmallSubsets
    <3> QED BY <1>a, <3>2 DEF SmallSubsets
  <2>3. SmallSubsets(S, k) \subseteq SmallSubsets(S, k + 1) /\ {} \in SmallSubsets(S, k)
    BY <1>a, FS_EmptySet DEF SmallSubsets
  <2>4. ASSUME NEW s \in SmallSubsets(S, k + 1)
        PROVE  g[s] = IF s = {} THEN base ELSE Op(c, g[s \ {ch[s]}], val[ch[s]])
    <3>1. CASE s = {}
      BY <2>1, <2>3, <3>1 DEF IsFoldOn
    <3>2. CASE s # {}
      <4>1. g[s \ {ch[s]}] = f[s \ {ch[s]}]
        BY <2>2, <2>3, <3>2
      <4>2. s \in SmallSubsets(S, k) => f[s] = Op(c, f[s \ {ch[s]}], val[ch[s]])
        BY <2>1, <3>2 DEF IsFoldOn
      <4> QED BY <3>2, <4>1, <4>2
    <3> QED BY <3>1, <3>2
  <2>5. IsFoldOn(g, SmallSubsets(S, k + 1), c, base, ch, val)
    <3>1. g = [s \in SmallSubsets(S, k + 1) |-> g[s]]
      OBVIOUS
    <3> HIDE DEF g
    <3> QED BY <2>4, <3>1 DEF IsFoldOn
  <2> QED BY <2>5
<1>3. T = Nat
  <2> HIDE DEF T
  <2>1. T \in SUBSET Nat
    BY DEF T
  <2> QED BY <1>1, <1>2, <2>1, NatSetInduction
<1>4. SmallSubsets(S, Cardinality(S)) = SUBSET S
  BY <1>a, FS_Subset DEF SmallSubsets
<1>5. Cardinality(S) \in T
  BY <1>3, FS_CardinalityType
<1> QED BY <1>4, <1>5

-------------------------------------------------------------------------------
(* Folding a set: FoldSet takes the elements in an unknown order *)

\* The fold of a set.
FoldOfSet(c, base, S) == FoldSet(LAMBDA x, acc : Op(c, acc, x), base, S)

\* The recursive function in the definition of FoldSet.
IsSetFold(f, c, base, S) ==
  f = [s \in SUBSET S |-> IF s = {} THEN base
                          ELSE LET x == CHOOSE x \in s : TRUE IN Op(c, f[s \ {x}], x)]

\* f gives the fold of every subset of S, one element at a time.
SetSteps(f, c, base, S, result) ==
  /\ f[{}] = base
  /\ \A s \in SUBSET S : s # {} => \E x \in s : f[s] = Op(c, f[s \ {x}], x)
  /\ f[S] = result

\* FoldSet takes the elements of a finite set one after the other.
LEMMA FoldSetSteps ==
  ASSUME NEW c, NEW base, NEW S, IsFiniteSet(S)
  PROVE  \E f : SetSteps(f, c, base, S, FoldOfSet(c, base, S))
<1> DEFINE ch  == [s \in SUBSET S |-> CHOOSE x \in s : TRUE]
           val == [x \in S |-> x]
           f   == CHOOSE f : IsSetFold(f, c, base, S)
<1>1. \A s \in SUBSET S : s # {} => ch[s] \in s
  OBVIOUS
<1>2. PICK h : IsFoldOn(h, SUBSET S, c, base, ch, val)
  <2> HIDE DEF ch, val
  <2> QED BY <1>1, FoldExists
<1>3. IsSetFold(h, c, base, S)
  <2>1. \A s \in SUBSET S : s # {} => val[ch[s]] = (CHOOSE x \in s : TRUE)
    BY <1>1
  <2> QED BY <1>2, <2>1 DEF IsFoldOn, IsSetFold
<1>4. IsSetFold(f, c, base, S)
  BY <1>3
<1>5. FoldOfSet(c, base, S) = f[S]
  BY DEF FoldOfSet, FoldSet, MapThenFoldSet, IsSetFold
<1> HIDE DEF f
<1>6. f[{}] = base
  BY <1>4 DEF IsSetFold
<1>7. ASSUME NEW s \in SUBSET S, s # {}
      PROVE  \E x \in s : f[s] = Op(c, f[s \ {x}], x)
  <2> DEFINE x == CHOOSE x \in s : TRUE
  <2>1. x \in s
    BY <1>7
  <2>2. f[s] = Op(c, f[s \ {x}], x)
    BY <1>4, <1>7 DEF IsSetFold
  <2> QED BY <2>1, <2>2
<1> QED BY <1>5, <1>6, <1>7 DEF SetSteps

-------------------------------------------------------------------------------
(* Folding a sequence: FoldLeft *)

\* The last of the first n positions.
LEMMA MaxOfPositions ==
  ASSUME NEW n \in Nat, NEW s \in SUBSET (1..n), n \in s
  PROVE  Max(s) = n
<1>1. \A y \in s : n >= y
  OBVIOUS
<1>2. \A x \in s : (\A y \in s : x >= y) => x = n
  OBVIOUS
<1> QED BY <1>1, <1>2 DEF Max

\* A set of positions has a last one.
LEMMA MaxIsMember ==
  ASSUME NEW n \in Nat, NEW s \in SUBSET (1..n), s # {}
  PROVE  Max(s) \in s
<1> DEFINE T == {n - x : x \in s}
<1>1. \A x \in s : x \in Nat /\ n - x \in Nat
  OBVIOUS
<1>2. PICK m \in T : \A k \in T : m <= k
  <2>1. T \in SUBSET Nat
    BY <1>1
  <2>2. T # {}
    OBVIOUS
  <2> QED BY <2>1, <2>2, NatLeast
<1>3. PICK x \in s : m = n - x
  OBVIOUS
<1>4. \A y \in s : x >= y
  <2> TAKE y \in s
  <2>1. n - y \in T /\ x \in Nat /\ y \in Nat
    OBVIOUS
  <2> QED BY <1>2, <1>3, <2>1
<1> QED BY <1>4 DEF Max

\* The fold of a sequence, from its first element on.
FoldOfSeq(c, base, seq) == FoldLeft(LAMBDA acc, x : Op(c, acc, x), base, seq)

\* The recursive function in the definition of FoldLeft.
IsSeqFold(f, c, base, seq) ==
  f = [s \in SUBSET DOMAIN seq |->
         IF s = {} THEN base ELSE Op(c, f[s \ {Max(s)}], seq[Max(s)])]

\* v gives the fold of every beginning of the sequence, one element at a time.
SeqSteps(v, c, base, seq, result) ==
  /\ v[0] = base
  /\ \A i \in 1..Len(seq) : v[i] = Op(c, v[i - 1], seq[i])
  /\ v[Len(seq)] = result

\* FoldLeft takes the elements of a sequence in order.
LEMMA FoldLeftSteps ==
  ASSUME NEW c, NEW base, NEW seq, DOMAIN seq = 1..Len(seq), Len(seq) \in Nat
  PROVE  \E v : SeqSteps(v, c, base, seq, FoldOfSeq(c, base, seq))
<1> DEFINE n  == Len(seq)
           ch == [s \in SUBSET (1..n) |-> Max(s)]
           f  == CHOOSE f : IsSeqFold(f, c, base, seq)
           v  == [i \in 0..n |-> f[1..i]]
<1>1. \A s \in SUBSET (1..n) : s # {} => ch[s] \in s
  BY MaxIsMember
<1>2. PICK h : IsFoldOn(h, SUBSET (1..n), c, base, ch, seq)
  <2>1. IsFiniteSet(1..n)
    BY FS_Interval
  <2> HIDE DEF ch
  <2> QED BY <1>1, <2>1, FoldExists
<1>3. IsSeqFold(f, c, base, seq)
  <2>1. IsSeqFold(h, c, base, seq)
    BY <1>2 DEF IsFoldOn, IsSeqFold
  <2> QED BY <2>1
<1>4. FoldOfSeq(c, base, seq) = f[DOMAIN seq]
  BY DEF FoldOfSeq, FoldLeft, MapThenFoldSet, IsSeqFold
<1> HIDE DEF f
<1>5. v[0] = base
  <2>1. (1..0) \in SUBSET (1..n) /\ 1..0 = {}
    OBVIOUS
  <2>2. f[1..0] = base
    BY <1>3, <2>1 DEF IsSeqFold
  <2> QED BY <2>2
<1>6. ASSUME NEW i \in 1..n PROVE v[i] = Op(c, v[i - 1], seq[i])
  <2>1. (1..i) \in SUBSET (1..n) /\ (1..i) # {} /\ i \in Nat /\ i \in 1..i
    OBVIOUS
  <2>2. Max(1..i) = i
    BY <2>1, MaxOfPositions
  <2>3. (1..i) \ {i} = 1..(i - 1)
    OBVIOUS
  <2>4. f[1..i] = Op(c, f[1..(i - 1)], seq[i])
    BY <1>3, <2>1, <2>2, <2>3 DEF IsSeqFold
  <2> QED BY <2>4
<1>7. v[n] = FoldOfSeq(c, base, seq)
  BY <1>4
<1> HIDE DEF v
<1> QED BY <1>5, <1>6, <1>7 DEF SeqSteps

-------------------------------------------------------------------------------
(* Folding a sequence from its end: FoldRight *)

\* A set of positions has a first one.
LEMMA MinIsMember ==
  ASSUME NEW s \in SUBSET Nat, s # {}
  PROVE  Min(s) \in s
<1>1. PICK m \in s : \A k \in s : m <= k
  BY NatLeast
<1> QED BY <1>1 DEF Min

\* The first of the positions from m on.
LEMMA MinOfPositions ==
  ASSUME NEW n \in Nat, NEW m \in Nat, NEW s \in SUBSET (m..n), m \in s
  PROVE  Min(s) = m
<1>1. \A y \in s : m <= y
  OBVIOUS
<1>2. \A x \in s : (\A y \in s : x <= y) => x = m
  OBVIOUS
<1> QED BY <1>1, <1>2 DEF Min

\* The fold of a sequence, from its last element on.
FoldOfSeqBack(c, base, seq) == FoldRight(LAMBDA x, acc : Op(c, acc, x), seq, base)

\* The recursive function in the definition of FoldRight.
IsSeqFoldBack(f, c, base, seq) ==
  f = [s \in SUBSET DOMAIN seq |->
         IF s = {} THEN base ELSE Op(c, f[s \ {Min(s)}], seq[Min(s)])]

\* v gives the fold of every end of the sequence, one element at a time.
SeqStepsBack(v, c, base, seq, result) ==
  /\ v[Len(seq)] = base
  /\ \A i \in 1..Len(seq) : v[i - 1] = Op(c, v[i], seq[i])
  /\ v[0] = result

\* FoldRight takes the elements of a sequence in the opposite order.
LEMMA FoldRightSteps ==
  ASSUME NEW c, NEW base, NEW seq, DOMAIN seq = 1..Len(seq), Len(seq) \in Nat
  PROVE  \E v : SeqStepsBack(v, c, base, seq, FoldOfSeqBack(c, base, seq))
<1> DEFINE n  == Len(seq)
           ch == [s \in SUBSET (1..n) |-> Min(s)]
           f  == CHOOSE f : IsSeqFoldBack(f, c, base, seq)
           v  == [i \in 0..n |-> f[(i + 1)..n]]
<1>1. \A s \in SUBSET (1..n) : s # {} => ch[s] \in s
  <2>1. SUBSET (1..n) \subseteq SUBSET Nat
    OBVIOUS
  <2> QED BY <2>1, MinIsMember
<1>2. PICK h : IsFoldOn(h, SUBSET (1..n), c, base, ch, seq)
  <2>1. IsFiniteSet(1..n)
    BY FS_Interval
  <2> HIDE DEF ch
  <2> QED BY <1>1, <2>1, FoldExists
<1>3. IsSeqFoldBack(f, c, base, seq)
  <2>1. IsSeqFoldBack(h, c, base, seq)
    BY <1>2 DEF IsFoldOn, IsSeqFoldBack
  <2> QED BY <2>1
<1>4. FoldOfSeqBack(c, base, seq) = f[DOMAIN seq]
  BY DEF FoldOfSeqBack, FoldRight, MapThenFoldSet, IsSeqFoldBack
<1> HIDE DEF f
<1>5. v[n] = base
  <2>1. ((n + 1)..n) \in SUBSET (1..n) /\ (n + 1)..n = {}
    OBVIOUS
  <2>2. f[(n + 1)..n] = base
    BY <1>3, <2>1 DEF IsSeqFoldBack
  <2> QED BY <2>2
<1>6. ASSUME NEW i \in 1..n PROVE v[i - 1] = Op(c, v[i], seq[i])
  <2>1. (i..n) \in SUBSET (1..n) /\ (i..n) # {} /\ i \in Nat /\ i \in i..n
    OBVIOUS
  <2>2. Min(i..n) = i
    BY <2>1, MinOfPositions
  <2>3. (i..n) \ {i} = (i + 1)..n
    OBVIOUS
  <2>4. f[i..n] = Op(c, f[(i + 1)..n], seq[i])
    BY <1>3, <2>1, <2>2, <2>3 DEF IsSeqFoldBack
  <2>5. v[i - 1] = f[((i - 1) + 1)..n] /\ (i - 1) + 1 = i
    OBVIOUS
  <2> QED BY <2>4, <2>5
<1>7. v[0] = FoldOfSeqBack(c, base, seq)
  BY <1>4
<1> HIDE DEF v
<1> QED BY <1>5, <1>6, <1>7 DEF SeqStepsBack

-------------------------------------------------------------------------------
(* Concatenation of the sequences of a sequence: FlattenSeq *)

\* The recursive function in the definition of FlattenSeq.
IsFlatten(f, seqs) ==
  f = [i \in 1..Len(seqs) |-> IF i = 1 THEN seqs[i] ELSE f[i - 1] \o seqs[i]]

\* There is such a function for the first k sequences.
LEMMA FlattenExists ==
  ASSUME NEW seqs, Len(seqs) \in Nat
  PROVE  \E f : IsFlatten(f, seqs)
<1> DEFINE Is(f, k) == f = [i \in 1..k |-> IF i = 1 THEN seqs[i] ELSE f[i - 1] \o seqs[i]]
           T == {k \in Nat : \E f : Is(f, k)}
<1>1. 0 \in T
  <2>1. Is([i \in {} |-> 0], 0)
    OBVIOUS
  <2> QED BY <2>1
<1>2. ASSUME NEW k \in T PROVE k + 1 \in T
  <2>1. PICK f : Is(f, k)
    OBVIOUS
  <2> DEFINE g == [i \in 1..(k + 1) |->
                     IF i \in 1..k THEN f[i]
                     ELSE IF i = 1 THEN seqs[i] ELSE f[i - 1] \o seqs[i]]
  <2>2. ASSUME NEW i \in 1..(k + 1)
        PROVE  g[i] = IF i = 1 THEN seqs[i] ELSE g[i - 1] \o seqs[i]
    <3>1. i # 1 => i - 1 \in 1..k
      OBVIOUS
    <3>2. i # 1 => g[i - 1] = f[i - 1]
      BY <3>1
    <3>3. i \in 1..k => f[i] = IF i = 1 THEN seqs[i] ELSE f[i - 1] \o seqs[i]
      BY <2>1
    <3> QED BY <3>2, <3>3
  <2>3. Is(g, k + 1)
    <3>1. g = [i \in 1..(k + 1) |-> g[i]]
      OBVIOUS
    <3> HIDE DEF g
    <3> QED BY <2>2, <3>1
  <2> HIDE DEF g, Is
  <2> QED BY <2>3
<1>3. T = Nat
  <2> HIDE DEF T
  <2>1. T \in SUBSET Nat
    BY DEF T
  <2> QED BY <1>1, <1>2, <2>1, NatSetInduction
<1> QED BY <1>3 DEF IsFlatten

\* FlattenSeq puts one sequence after the other.
FlattenSteps(v, seqs) ==
  /\ v[0] = <<>>
  /\ \A i \in 1..Len(seqs) : v[i] = v[i - 1] \o seqs[i]
  /\ v[Len(seqs)] = FlattenSeq(seqs)

\* The concatenation is made from the first sequence on.
LEMMA FlattenSeqSteps ==
  ASSUME NEW S, NEW seqs \in Seq(Seq(S))
  PROVE  \E v : FlattenSteps(v, seqs)
<1> DEFINE n == Len(seqs)
           f == CHOOSE f : IsFlatten(f, seqs)
           v == [i \in 0..n |-> IF i = 0 THEN <<>> ELSE f[i]]
<1>1. IsFlatten(f, seqs)
  BY FlattenExists
<1>2. n # 0 => FlattenSeq(seqs) = f[n]
  BY DEF FlattenSeq, IsFlatten
<1>3. n = 0 => FlattenSeq(seqs) = <<>>
  BY DEF FlattenSeq
<1> HIDE DEF f
<1>4. \A i \in 1..n : f[i] = IF i = 1 THEN seqs[i] ELSE f[i - 1] \o seqs[i]
  BY <1>1 DEF IsFlatten
<1>5. ASSUME NEW i \in 1..n PROVE v[i] = v[i - 1] \o seqs[i]
  <2>1. seqs[i] \in Seq(S)
    OBVIOUS
  <2>2. seqs[i] = <<>> \o seqs[i]
    BY <2>1
  <2>3. v[i] = f[i] /\ v[i - 1] = IF i = 1 THEN <<>> ELSE f[i - 1]
    OBVIOUS
  <2> HIDE DEF v
  <2>4. CASE i = 1
    BY <1>4, <2>2, <2>3, <2>4
  <2>5. CASE i # 1
    BY <1>4, <2>3, <2>5
  <2> QED BY <2>4, <2>5
<1>6. v[0] = <<>> /\ v[n] = FlattenSeq(seqs)
  BY <1>2, <1>3
<1> HIDE DEF v
<1> QED BY <1>5, <1>6 DEF FlattenSteps

\* The concatenation of a beginning is the one of a shorter beginning and the
\* sequence that follows it.
LEMMA FlattenPrefixes ==
  ASSUME NEW S, NEW seqs \in Seq(Seq(S))
  PROVE  /\ FlattenSeq(SubSeq(seqs, 1, 0)) = <<>>
         /\ \A i \in 1..Len(seqs) :
              FlattenSeq(SubSeq(seqs, 1, i)) = FlattenSeq(SubSeq(seqs, 1, i - 1)) \o seqs[i]
<1> DEFINE n == Len(seqs)
<1>1. PICK v : FlattenSteps(v, seqs)
  BY FlattenSeqSteps
<1>2. ASSUME NEW i \in 0..n PROVE FlattenSeq(SubSeq(seqs, 1, i)) = v[i]
  <2> DEFINE part == SubSeq(seqs, 1, i)
  <2>1. part \in Seq(Seq(S)) /\ Len(part) = i /\ \A j \in 1..i : part[j] = seqs[j]
    OBVIOUS
  <2>2. PICK u : FlattenSteps(u, part)
    BY <2>1, FlattenSeqSteps
  <2> HIDE DEF part
  <2> DEFINE T == {j \in Nat : j <= i => u[j] = v[j]}
  <2>3. 0 \in T
    BY <1>1, <2>2 DEF FlattenSteps
  <2>4. ASSUME NEW j \in T PROVE j + 1 \in T
    <3>1. CASE j + 1 <= i
      <4>1. j + 1 \in 1..i /\ j + 1 \in 1..n /\ (j + 1) - 1 = j /\ u[j] = v[j]
        BY <3>1
      <4>2. u[j + 1] = u[(j + 1) - 1] \o part[j + 1]
        BY <2>1, <2>2, <4>1 DEF FlattenSteps
      <4>3. v[j + 1] = v[(j + 1) - 1] \o seqs[j + 1]
        BY <1>1, <4>1 DEF FlattenSteps
      <4>4. u[j + 1] = v[j + 1]
        BY <2>1, <4>1, <4>2, <4>3
      <4> QED BY <4>4
    <3>2. CASE ~(j + 1 <= i)
      BY <3>2
    <3> QED BY <3>1, <3>2
  <2>5. T = Nat
    <3> HIDE DEF T
    <3>1. T \in SUBSET Nat
      BY DEF T
    <3> QED BY <2>3, <2>4, <3>1, NatSetInduction
  <2>6. u[i] = v[i]
    BY <2>5
  <2> QED BY <2>1, <2>2, <2>6 DEF FlattenSteps, part
<1>3. FlattenSeq(SubSeq(seqs, 1, 0)) = <<>>
  BY <1>1, <1>2 DEF FlattenSteps
<1>4. ASSUME NEW i \in 1..n
      PROVE  FlattenSeq(SubSeq(seqs, 1, i)) = FlattenSeq(SubSeq(seqs, 1, i - 1)) \o seqs[i]
  <2>1. i \in 0..n /\ i - 1 \in 0..n
    OBVIOUS
  <2>2. v[i] = v[i - 1] \o seqs[i]
    BY <1>1 DEF FlattenSteps
  <2> QED BY <1>2, <2>1, <2>2
<1> QED BY <1>3, <1>4
===============================================================================
