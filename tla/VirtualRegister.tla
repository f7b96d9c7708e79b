--------------------------- MODULE VirtualRegister ---------------------------
(***************************************************************************)
(* Class VirtualRegister: an ordered list of slices of registers behind the  *)
(* interface of a register.  Aliases of the ICL files and the registers that *)
(* drive a path selector are virtual registers; iWrite and iRead take them   *)
(* as they take a register.                                                  *)
(*                                                                         *)
(* A register is the record of its bit vectors (module BitSequence; module   *)
(* BinaryVector shows that the packed vectors behave like these sequences).  *)
(* The offset of a bit in a vector counts from the left.  The index of a bit *)
(* in the design equals its offset in a register that is numbered Upto and   *)
(* decreases from left to right in one that is numbered Downto.              *)
(*                                                                         *)
(* Beside the registers the state has what the application has asked for,    *)
(* bit by bit, from the definition of a view alone: goal and want.           *)
(***************************************************************************)
EXTENDS BitSequence, SequencesExt

CONSTANTS
  Registers,           \* identifiers of the registers
  Width(_),            \* m_bypass.BitsCount() of a register
  ViewNames,
  Slices(_, _),        \* the slices of a view, for a bits ordering
  ReadableViews,       \* views that iRead is called with
  UnmaskedViewReads,   \* iRead is called on views without a mask too
  Samples(_),          \* the values of n bits that are written, expected, shifted
  Masks(_),            \* the masks of n bits, and the empty one
  MaxMismatches        \* bound on the counter of mismatches

Orderings == {"Upto", "Downto"}

ASSUME ViewAssumption ==
  \A v \in ViewNames, o \in Orderings :
    /\ Slices(v, o) \in Seq([reg : Registers, left : Nat, right : Nat])
    /\ \A k \in DOMAIN Slices(v, o) :
         LET s == Slices(v, o)[k]
         IN  /\ s.left < Width(s.reg) /\ s.right < Width(s.reg)
             /\ IF o = "Upto" THEN s.left <= s.right ELSE s.left >= s.right

RangeWidth(left, right) == 1 + IF left > right THEN left - right ELSE right - left

BitsCountFor(v, o) == FoldLeft(LAMBDA n, s : n + RangeWidth(s.left, s.right), 0, Slices(v, o))

ASSUME ValuesAssumption ==
  /\ ReadableViews \subseteq ViewNames
  /\ \A r \in Registers : Width(r) \in Nat \ {0}
  /\ \A n \in {Width(r) : r \in Registers}
            \cup {BitsCountFor(v, o) : v \in ViewNames, o \in Orderings} :
       Samples(n) \subseteq BitSeqs(n) /\ Masks(n) \subseteq BitSeqs(n) \cup {<<>>}

VARIABLES
  ordering,            \* BitsOrdering of every register of the views
  use,                 \* what the application does: "write" or "read"
  regs,                \* the registers
  goal,                \* bits to be sent, as the application has written them
  want                 \* per register, what the reads since the last cycle expect

vars == <<ordering, use, regs, goal, want>>

-----------------------------------------------------------------------------
(* Class Register, at the level of bits.                                     *)

NewRegister(r) ==
  [ next |-> Repeat(0, Width(r)), expected |-> Repeat(0, Width(r)), mask |-> <<>>,
    lastRead |-> Repeat(0, Width(r)), pendingRead |-> FALSE, mustCheck |-> FALSE,
    mismatches |-> 0 ]

CompareEqualTo(a, b, mask) == IF mask = <<>> THEN a = b ELSE AgreeUnder(a, b, mask)

\* Register::SetExpectedFromSut with a mask that may be empty.
SetRegisterExpected(reg, sequence, mask) == [reg EXCEPT !.expected = sequence, !.mask = mask]

\* FromSutUpdater on one register, v being its slice of the vector from the SUT.
UpdateFromSut(reg, v) ==
  [reg EXCEPT !.lastRead    = IF reg.pendingRead THEN v ELSE @,
              !.mismatches  = IF reg.mustCheck /\ ~CompareEqualTo(v, reg.expected, reg.mask)
                                THEN @ + 1 ELSE @,
              !.pendingRead = FALSE,
              !.mustCheck   = FALSE]

\* Mutant: the mask is forgotten.
RegisterCompareResultUnmasked(reg) == XorBits(reg.lastRead, reg.expected)

RegisterCompareResult(reg) ==
  LET differs == XorBits(reg.lastRead, reg.expected)
  IN  IF reg.mask = <<>> THEN differs ELSE AndBits(differs, reg.mask)

-----------------------------------------------------------------------------
(* Class VirtualRegister.                                                    *)

BitsCount(v) == BitsCountFor(v, ordering)

\* Offset of the leftmost bit of a range in a vector of n bits.
RangeOffset(left, n) == IF ordering = "Upto" THEN left ELSE n - 1 - left

GetSlice(left, right, vector) ==
  BitsAt(vector, RangeOffset(left, Len(vector)), RangeWidth(left, right))

\* Mutant: the range is taken as offsets whatever the ordering.
SetSliceUpto(s, vector, value) == Overwrite(vector, s.left, value)

SetSlice(s, vector, value) == Overwrite(vector, RangeOffset(s.left, Len(vector)), value)

\* Mutant: the slices are put together from the right.
GetViewReversed(v, getter) ==
  FoldLeft(LAMBDA bits, s : GetSlice(s.left, s.right, getter[s.reg]) \o bits,
           <<>>, Slices(v, ordering))

\* The bits of a view, getter giving the vector of a register.
GetView(v, getter) ==
  FoldLeft(LAMBDA bits, s : bits \o GetSlice(s.left, s.right, getter[s.reg]),
           <<>>, Slices(v, ordering))

NextToSut(v) == GetView(v, [r \in Registers |-> regs[r].next])

LastCompareResult(v) == GetView(v, [r \in Registers |-> RegisterCompareResult(regs[r])])

\* Number of the last bit a slice takes of the value, when it takes bits from left
\* on: the bits of the value are numbered like those of the registers, upwards
\* from 0, or downwards from the last one.
ValueRight(s, left) ==
  LET step == RangeWidth(s.left, s.right) - 1
  IN  IF ordering = "Upto" THEN left + step ELSE left - step

NextLeft(right) == IF ordering = "Upto" THEN right + 1 ELSE right - 1

\* Goes through the slices with the range of the value that each one takes.
UpdateRegisters(v, Updater(_, _, _, _)) ==
  FoldLeft(LAMBDA acc, s : [ regs |-> Updater(acc.regs, s, acc.left, ValueRight(s, acc.left)),
                             left |-> NextLeft(ValueRight(s, acc.left)) ],
           [regs |-> regs, left |-> IF ordering = "Upto" THEN 0 ELSE BitsCount(v) - 1],
           Slices(v, ordering)).regs

SetToSut(v, sequence) ==
  UpdateRegisters(v, LAMBDA rs, s, left, right :
    [rs EXCEPT ![s.reg].next = SetSlice(s, @, GetSlice(left, right, sequence))])

\* Mutant: the bits of a register outside the view are cared for.
SetMaskedExpectedCaresAll(v, sequence, mask) ==
  UpdateRegisters(v, LAMBDA rs, s, left, right :
    LET reg  == rs[s.reg]
        base == Repeat(1, Width(s.reg))
    IN  [rs EXCEPT ![s.reg] = SetRegisterExpected(reg,
           SetSlice(s, reg.expected, GetSlice(left, right, sequence)),
           SetSlice(s, base, GetSlice(left, right, mask)))])

\* With a mask: a register without one starts from a mask that cares for nothing.
SetMaskedSlice(rs, s, left, right, sequence, mask) ==
  LET reg  == rs[s.reg]
      base == IF reg.mask = <<>> THEN Repeat(0, Width(s.reg)) ELSE reg.mask
  IN  [rs EXCEPT ![s.reg] = SetRegisterExpected(reg,
         SetSlice(s, reg.expected, GetSlice(left, right, sequence)),
         SetSlice(s, base, GetSlice(left, right, mask)))]

SetMaskedExpected(v, sequence, mask) ==
  UpdateRegisters(v, LAMBDA rs, s, left, right : SetMaskedSlice(rs, s, left, right, sequence, mask))

\* Without a mask: the overload of Register::SetExpectedFromSut that leaves the
\* mask of the register alone.
SetUnmaskedExpected(v, sequence) ==
  UpdateRegisters(v, LAMBDA rs, s, left, right :
    [rs EXCEPT ![s.reg].expected = SetSlice(s, @, GetSlice(left, right, sequence))])

SetExpectedFromSut(v, sequence, mask) ==
  IF mask = <<>> THEN SetUnmaskedExpected(v, sequence) ELSE SetMaskedExpected(v, sequence, mask)

RegistersOf(v) == {Slices(v, ordering)[k].reg : k \in DOMAIN Slices(v, ordering)}

\* The flags ProcessQueuedRequests sets on the registers of a read or a refresh.
MarkRead(rs, ids, check) ==
  [r \in Registers |-> IF r \in ids
                         THEN [rs[r] EXCEPT !.pendingRead = TRUE, !.mustCheck = check \/ @]
                         ELSE rs[r]]

-----------------------------------------------------------------------------
(* What a view stands for: bit k of the value, counted from the left, is one  *)
(* bit of one register.                                                       *)

SliceBits(s, o) ==
  [k \in 1 .. RangeWidth(s.left, s.right) |->
     <<s.reg, IF o = "Upto" THEN s.left + k ELSE Width(s.reg) - s.left + k - 1>>]

ViewBitsFor == [v \in ViewNames |-> [o \in Orderings |->
  FoldLeft(LAMBDA bits, s : bits \o SliceBits(s, o), <<>>, Slices(v, o))]]

ViewBits(v) == ViewBitsFor[v][ordering]

\* A read covers what it reads: it comes with a mask, and the view has all the
\* bits of its registers.  An unmasked read of a view leaves the mask of the
\* registers as it was, and a view of a part of a register leaves the expected
\* value and the mask of the rest.
ReadsCover ==
  /\ ~UnmaskedViewReads
  /\ \A v \in ReadableViews, o \in Orderings : \A j \in DOMAIN Slices(v, o) :
       \A i \in 1..Width(Slices(v, o)[j].reg) :
         \E k \in 1..BitsCountFor(v, o) : ViewBitsFor[v][o][k] = <<Slices(v, o)[j].reg, i>>

\* The vectors old with the bits of view v replaced by those of value; a bit that
\* is in the view twice gets the later one.
Spread(v, value, old) ==
  [r \in Registers |-> [i \in 1 .. Width(r) |->
     LET places == {k \in DOMAIN value : ViewBits(v)[k] = <<r, i>>}
     IN  IF places = {} THEN old[r][i] ELSE value[Max(places)]]]

NotRead  == [r \in Registers |-> [value |-> Repeat(0, Width(r)), mask |-> Repeat(0, Width(r))]]
AllOnes(n) == Repeat(1, n)

\* What a read of view v leaves to be compared: the bits of the registers of
\* the view outside it are not looked at.
WantAfterRead(v, value, mask) ==
  LET zero   == [r \in Registers |-> Repeat(0, Width(r))]
      values == Spread(v, value, zero)
      masks  == Spread(v, IF mask = <<>> THEN AllOnes(Len(value)) ELSE mask, zero)
  IN  [r \in Registers |-> IF r \in RegistersOf(v) THEN [value |-> values[r], mask |-> masks[r]]
                           ELSE want[r]]

-----------------------------------------------------------------------------
(* The calls of an iApply, and the end of a data cycle.  A write and a read    *)
(* touch different members: an application does one or the other.             *)

Init ==
  /\ ordering \in Orderings
  /\ use \in {"write", "read"}
  /\ regs = [r \in Registers |-> NewRegister(r)]
  /\ goal = [r \in Registers |-> Repeat(0, Width(r))]
  /\ want = NotRead

iWrite(v, value) ==
  /\ use = "write"
  /\ regs' = SetToSut(v, value)
  /\ goal' = Spread(v, value, goal)
  /\ UNCHANGED <<ordering, use, want>>

iRead(v, value, mask) ==
  /\ use = "read"
  /\ mask # <<>> \/ UnmaskedViewReads
  /\ regs' = MarkRead(SetExpectedFromSut(v, value, mask), RegistersOf(v), TRUE)
  /\ want' = WantAfterRead(v, value, mask)
  /\ UNCHANGED <<ordering, use, goal>>

\* The same call on a register.
iReadRegister(r, value, mask) ==
  /\ use = "read"
  /\ regs' = MarkRead([regs EXCEPT ![r] = SetRegisterExpected(@, value, mask)], {r}, TRUE)
  /\ want' = [want EXCEPT ![r] = [value |-> value,
                                  mask |-> IF mask = <<>> THEN AllOnes(Width(r)) ELSE mask]]
  /\ UNCHANGED <<ordering, use, goal>>

iRefresh(v) ==
  /\ use = "read"
  /\ regs' = MarkRead(regs, RegistersOf(v), FALSE)
  /\ UNCHANGED <<ordering, use, goal, want>>

\* A data cycle shifts one register out of the SUT.
FromSut(r, value) ==
  /\ use = "read"
  /\ regs[r].mismatches < MaxMismatches
  /\ regs' = [regs EXCEPT ![r] = UpdateFromSut(@, value)]
  /\ want' = [want EXCEPT ![r] = NotRead[r]]
  /\ UNCHANGED <<ordering, use, goal>>

\* MismatchesCollector with clearCounter.
ClearMismatches ==
  /\ regs' = [r \in Registers |-> [regs[r] EXCEPT !.mismatches = 0]]
  /\ UNCHANGED <<ordering, use, goal, want>>

Next ==
  \/ \E v \in ViewNames : \E value \in Samples(BitsCount(v)) : iWrite(v, value)
  \/ \E v \in ReadableViews : \E value \in Samples(BitsCount(v)), mask \in Masks(BitsCount(v)) :
       iRead(v, value, mask)
  \/ \E r \in Registers : \E value \in Samples(Width(r)), mask \in Masks(Width(r)) :
       iReadRegister(r, value, mask)
  \/ \E v \in ViewNames : iRefresh(v)
  \/ \E r \in Registers : \E value \in Samples(Width(r)) : FromSut(r, value)
  \/ ClearMismatches

Spec == Init /\ [][Next]_vars

-----------------------------------------------------------------------------
(* Properties.                                                               *)

\* A write through a view changes the bits the view stands for, and no other
\* bit of the registers behind it, in any order of writes through views that
\* overlap.
WritesReachTheirBits == \A r \in Registers : regs[r].next = goal[r]

\* Reading a view gives its bits in the order of the slices: what has been
\* written through it comes back, or what an overlapping view wrote later.
ViewsReadBack == \A v \in ViewNames :
  NextToSut(v) = [k \in 1 .. BitsCount(v) |-> goal[ViewBits(v)[k][1]][ViewBits(v)[k][2]]]

\* A cycle counts a mismatch on a register exactly when a bit that a read since
\* the last cycle cares for differs from what the read expects.
MismatchIffWrong ==
  [][\A r \in Registers :
       regs'[r].mismatches > regs[r].mismatches <=>
         /\ regs[r].mustCheck /\ ~regs'[r].mustCheck
         /\ ~AgreeUnder(regs'[r].lastRead, want[r].value, want[r].mask)]_vars

\* The comparison result of a view read in a cycle shows, bit for bit, where the
\* value shifted out differs from the one expected.
CompareResultShowsWrongBits ==
  [][\A v \in ReadableViews, r \in Registers :
       (/\ RegistersOf(v) = {r} /\ regs[r].mustCheck /\ ~regs'[r].mustCheck) =>
         LastCompareResult(v)' =
           [k \in 1 .. BitsCount(v) |->
              LET i == ViewBits(v)[k][2]
              IN  IF want[r].mask[i] = 1 /\ regs'[r].lastRead[i] # want[r].value[i] THEN 1 ELSE 0]]_vars
===============================================================================
