------------------------------- MODULE Register -------------------------------
(***************************************************************************)
(* The test-side image of one SUT register (class Register).  A register is *)
(* a record; each operator below is one member function, as a function      *)
(* from the register before the call to the register after it.              *)
(*                                                                         *)
(* A bit vector is an abstract member of Values.  An expected value and its *)
(* don't-care mask are one set of values, the ones the masked comparison    *)
(* accepts.  m_holdValue and m_resetValue never change after construction   *)
(* and are arguments; an empty reset sequence is the empty set.             *)
(***************************************************************************)
EXTENDS Naturals

CONSTANT Values                 \* the bit vectors a register can hold

RegisterType ==
  [ next         : Values,           \* m_nextToSut
    last         : Values,           \* m_lastToSut
    bypass       : Values,           \* m_bypass
    fromSut      : Values,           \* m_lastFromSut
    lastRead     : Values,           \* m_lastReadFromSut
    expected     : SUBSET Values,    \* m_expectedFromSut under m_dontCareMask
    mustCheck    : BOOLEAN,          \* m_mustCheckExpected
    mismatches   : Nat,              \* m_mismatches
    pendingRead  : BOOLEAN,          \* m_pendingRead
    pendingWrite : BOOLEAN ]         \* SystemModelNode::m_pendingCount of the register

\* A register as the constructor leaves it, v being the bypass sequence and
\* zero the all-zero vector that m_lastReadFromSut starts with.
NewRegister(v, zero) ==
  [ next |-> v, last |-> v, bypass |-> v, fromSut |-> v, lastRead |-> zero,
    expected |-> {v}, mustCheck |-> FALSE, mismatches |-> 0,
    pendingRead |-> FALSE, pendingWrite |-> FALSE ]

IsPending(reg) == reg.pendingRead \/ reg.pendingWrite

\* Mutant: the bypass sequence is not kept equal to the value to hold.
SetToSutKeepsBypass(reg, v, hold) == [reg EXCEPT !.next = v]

SetToSut(reg, v, hold) ==
  [reg EXCEPT !.next = v, !.bypass = IF hold THEN v ELSE @]

SetExpectedFromSut(reg, accepted) == [reg EXCEPT !.expected = accepted]

SetPendingForRead(reg) == [reg EXCEPT !.pendingRead = TRUE]

SetCheckExpected(reg, b) == [reg EXCEPT !.mustCheck = b]

ResetPending(reg) == [reg EXCEPT !.pendingRead = FALSE, !.pendingWrite = FALSE]

UpdateLastToSut(reg) == [reg EXCEPT !.last = reg.next]

SetFromSut(reg, v) ==
  [reg EXCEPT !.lastRead   = IF reg.pendingRead THEN v ELSE @,
              !.mismatches = IF reg.mustCheck /\ v \notin reg.expected THEN @ + 1 ELSE @,
              !.fromSut    = v]

\* iReset on one register.  m_lastToSut keeps its value: the assignment is
\* commented out in the code.  Clearing m_dontCareMask does not show here: the
\* expected value is compared only under m_mustCheckExpected, which is FALSE
\* until a read sets the value and its mask again.
Reset(reg, resetValue) ==
  LET cleared == [ResetPending(reg) EXCEPT !.mismatches = 0, !.mustCheck = FALSE]
  IN  IF resetValue = {} THEN cleared
      ELSE LET v == CHOOSE x \in resetValue : TRUE
           IN  [cleared EXCEPT !.bypass = v, !.next = v]

\* What ConfigureVisitor and PropagatePendingVisitor leave of a register: its
\* write-pending flag says whether the model is ahead of the SUT.
MarkPendingWrite(reg) == [reg EXCEPT !.pendingWrite = (reg.next # reg.last)]

\* The bits ToSutVisitor shifts for an active register.
ToSutBits(reg) == IF reg.pendingWrite THEN reg.next ELSE reg.bypass

\* Mutant: the update without UpdateLastToSut.
UpdateRegisterKeepsLast(reg, v) ==
  SetCheckExpected(ResetPending(SetFromSut(reg, v)), FALSE)

\* What FromSutUpdater does to one active register, v being its slice of the
\* vector shifted out of the SUT.
UpdateRegister(reg, v) ==
  SetCheckExpected(ResetPending(UpdateLastToSut(SetFromSut(reg, v))), FALSE)
===============================================================================
