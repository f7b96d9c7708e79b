----------------------- MODULE SystemModelManagerProofs -----------------------
(***************************************************************************)
(* Proofs about SystemModelManager, for every number of threads, registers  *)
(* and channels, every option and every bound.                              *)
(***************************************************************************)
EXTENDS SystemModelManager, TLAPS

USE DEF appVars, queueVars, pendVars, lifeVars, flagVars, cycleVars, sutVars, histVars

-------------------------------------------------------------------------------
(* Registers: each member function gives a register again *)

\* A register as built by the constructor is a register.
LEMMA NewRegisterType ==
  ASSUME NEW v \in Values, NEW zero \in Values
  PROVE  R!NewRegister(v, zero) \in R!RegisterType
BY DEF R!NewRegister, R!RegisterType

\* What FromSutUpdater makes of a register is a register.
LEMMA UpdateRegisterType ==
  ASSUME NEW g \in R!RegisterType, NEW v \in Values
  PROVE  R!UpdateRegister(g, v) \in R!RegisterType
<1>1. R!SetFromSut(g, v) \in R!RegisterType
  <2>1. /\ (IF g.pendingRead THEN v ELSE g.lastRead) \in Values
        /\ (IF g.mustCheck /\ v \notin g.expected THEN g.mismatches + 1
            ELSE g.mismatches) \in Nat
    BY DEF R!RegisterType
  <2> DEFINE lr == IF g.pendingRead THEN v ELSE g.lastRead
             mm == IF g.mustCheck /\ v \notin g.expected THEN g.mismatches + 1
                   ELSE g.mismatches
  <2>2. R!SetFromSut(g, v) = [g EXCEPT !.lastRead = lr, !.mismatches = mm, !.fromSut = v]
    BY DEF R!SetFromSut
  <2> HIDE DEF lr, mm
  <2>3. lr \in Values /\ mm \in Nat
    BY <2>1 DEF lr, mm
  <2> QED
    BY <2>2, <2>3 DEF R!RegisterType
<1>2. R!UpdateLastToSut(R!SetFromSut(g, v)) \in R!RegisterType
  BY <1>1 DEF R!UpdateLastToSut, R!RegisterType
<1>3. R!ResetPending(R!UpdateLastToSut(R!SetFromSut(g, v))) \in R!RegisterType
  BY <1>2 DEF R!ResetPending, R!RegisterType
<1> QED
  BY <1>3 DEF R!UpdateRegister, R!SetCheckExpected, R!RegisterType

\* Marking a register as pending for write leaves a register.
LEMMA MarkPendingWriteType ==
  ASSUME NEW g \in R!RegisterType
  PROVE  R!MarkPendingWrite(g) \in R!RegisterType
BY DEF R!MarkPendingWrite, R!RegisterType

\* The reset of a register leaves a register.
LEMMA ResetType ==
  ASSUME NEW g \in R!RegisterType, NEW rv \in SUBSET Values
  PROVE  R!Reset(g, rv) \in R!RegisterType
<1>1. R!ResetPending(g) \in R!RegisterType
  BY DEF R!ResetPending, R!RegisterType
<1> DEFINE cleared == [R!ResetPending(g) EXCEPT !.mismatches = 0, !.mustCheck = FALSE]
<1>2. cleared \in R!RegisterType
  BY <1>1 DEF R!RegisterType
<1>3. CASE rv = {}
  BY <1>2, <1>3 DEF R!Reset
<1>4. CASE rv # {}
  <2>1. (CHOOSE x \in rv : TRUE) \in Values
    BY <1>4
  <2> QED
    BY <1>2, <1>4, <2>1 DEF R!Reset, R!RegisterType
<1> QED
  BY <1>3, <1>4

\* The requests a thread has queued for a register leave a register.
LEMMA AfterQueuedRequestsType ==
  ASSUME TypeOK, NEW t \in Threads, NEW r \in Registers
  PROVE  AfterQueuedRequests(t, r) \in R!RegisterType
<1> DEFINE writes == queuedWrites[t][r]
           reads == queuedReads[t][r]
           written == IF writes = <<>> THEN reg[r]
                      ELSE R!SetToSut(reg[r], writes[Len(writes)], r \in Hold)
           refreshed == IF r \in queuedRefreshes[t] THEN R!SetPendingForRead(written)
                        ELSE written
<1>1. writes \in Seq(Values) /\ reads \in Seq(SUBSET Values) /\ reg[r] \in R!RegisterType
  BY DEF TypeOK
<1> HIDE DEF writes, reads
<1>2. written \in R!RegisterType
  <2>1. CASE writes = <<>>
    BY <1>1, <2>1
  <2>2. CASE writes # <<>>
    <3>1. writes[Len(writes)] \in Values
      BY <1>1, <2>2
    <3> QED
      BY <1>1, <2>2, <3>1 DEF R!SetToSut, R!RegisterType
  <2> QED
    BY <2>1, <2>2
<1> HIDE DEF written
<1>3. refreshed \in R!RegisterType
  BY <1>2 DEF R!SetPendingForRead, R!RegisterType
<1> HIDE DEF refreshed
<1>4. CASE reads = <<>>
  BY <1>3, <1>4 DEF AfterQueuedRequests, refreshed, written, writes, reads
<1>5. CASE reads # <<>>
  <2>1. reads[Len(reads)] \in SUBSET Values
    BY <1>1, <1>5
  <2>2. R!SetExpectedFromSut(refreshed, reads[Len(reads)]) \in R!RegisterType
    BY <1>3, <2>1 DEF R!SetExpectedFromSut, R!RegisterType
  <2>3. R!SetPendingForRead(R!SetCheckExpected(
          R!SetExpectedFromSut(refreshed, reads[Len(reads)]), TRUE)) \in R!RegisterType
    BY <2>2 DEF R!SetPendingForRead, R!SetCheckExpected, R!RegisterType
  <2> QED
    BY <1>5, <2>3 DEF AfterQueuedRequests, refreshed, written, writes, reads
<1> QED
  BY <1>4, <1>5

-------------------------------------------------------------------------------
(* Type correctness *)

\* Every initial state of the manager is well typed.
LEMMA InitTypeOK == Init => TypeOK
<1> SUFFICES ASSUME Init PROVE TypeOK
  OBVIOUS
<1> USE ConstantsAssumption DEF ConstantsAssumption
<1>1. reg \in [Registers -> R!RegisterType]
  BY NewRegisterType DEF Init
<1>2. \A t \in Threads : queuedWrites[t] \in [Registers -> Seq(Values)]
                      /\ queuedReads[t] \in [Registers -> Seq(SUBSET Values)]
  BY DEF Init
<1> QED
  BY <1>1, <1>2 DEF Init, TypeOK, AppStates, LoopStates, MainStates

\* Every step of the manager, of an application thread or of the owner keeps
\* the state well typed.
LEMMA NextTypeOK == TypeOK /\ [Next]_vars => TypeOK'
<1> SUFFICES ASSUME TypeOK, [Next]_vars PROVE TypeOK'
  OBVIOUS
<1> USE ConstantsAssumption DEF ConstantsAssumption, AppStates, LoopStates, MainStates
<1>1. ASSUME NEW t \in Threads, SpawnApplication(t) PROVE TypeOK'
  BY <1>1 DEF SpawnApplication, TypeOK
<1>2. ASSUME NEW t \in Threads, InsertAppData(t) PROVE TypeOK'
  BY <1>2 DEF InsertAppData, TypeOK
<1>3. ASSUME NEW t \in Threads, WrapperStarted(t) PROVE TypeOK'
  BY <1>3 DEF WrapperStarted, TypeOK
<1>4. ASSUME NEW t \in Threads, ApplicationStart(t) PROVE TypeOK'
  BY <1>4 DEF ApplicationStart, TypeOK
<1>5. ASSUME NEW t \in Threads, ApplicationCounted(t) PROVE TypeOK'
  <2>1. (seen[t] + 1) % CounterMod \in Nat
    BY DEF TypeOK
  <2> QED
    BY <1>5, <2>1 DEF ApplicationCounted, TypeOK
<1>6. ASSUME NEW t \in Threads, ApplicationEnd(t) PROVE TypeOK'
  BY <1>6 DEF ApplicationEnd, TypeOK
<1>7. ASSUME NEW t \in Threads, ApplicationUncounted(t) PROVE TypeOK'
  <2>1. seen[t] \in Nat
    BY DEF TypeOK
  <2>2. (IF seen[t] = 0 THEN CounterMod - 1 ELSE seen[t] - 1) \in Nat
    BY <2>1
  <2> QED
    BY <1>7, <2>2 DEF ApplicationUncounted, TypeOK
<1>8. ASSUME NEW t \in Threads, NEW r \in Registers, NEW v \in Values, iWrite(t, r, v)
      PROVE  TypeOK'
  <2>1. Append(queuedWrites[t][r], v) \in Seq(Values)
    BY DEF TypeOK
  <2> QED
    BY <1>8, <2>1 DEF iWrite, TypeOK
<1>9. ASSUME NEW t \in Threads, NEW r \in Registers, NEW V \in SUBSET Values, iRead(t, r, V)
      PROVE  TypeOK'
  <2>1. Append(queuedReads[t][r], V) \in Seq(SUBSET Values)
    BY DEF TypeOK
  <2> QED
    BY <1>9, <2>1 DEF iRead, TypeOK
<1>10. ASSUME NEW t \in Threads, NEW r \in Registers, iRefresh(t, r) PROVE TypeOK'
  <2>1. queuedRefreshes' \in [Threads -> SUBSET Registers]
    BY <1>10 DEF iRefresh, TypeOK
  <2> QED
    BY <1>10, <2>1 DEF iRefresh, TypeOK
<1>11. ASSUME NEW t \in Threads, iApply(t) PROVE TypeOK'
  <2>1. Requested(t) \subseteq Registers
    BY DEF Requested
  <2>2. /\ pendingRegistersIds' \in [Threads -> SUBSET Registers]
        /\ regIdToAppData' \subseteq Registers \X Threads
        /\ canProceed' \in [Threads -> BOOLEAN]
    <3>1. RegisterPendingThread(t, Requested(t))
      BY <1>11 DEF iApply
    <3>2. pendingRegistersIds' \in [Threads -> SUBSET Registers]
      BY <2>1, <3>1 DEF RegisterPendingThread, TypeOK
    <3>3. regIdToAppData' \subseteq Registers \X Threads
      BY <2>1, <3>1 DEF RegisterPendingThread, TypeOK
    <3>4. canProceed' \in [Threads -> BOOLEAN]
      BY <3>1 DEF RegisterPendingThread, TypeOK
    <3> QED
      BY <3>2, <3>3, <3>4
  <2>3. reg' \in [Registers -> R!RegisterType]
    BY <1>11, AfterQueuedRequestsType DEF iApply
  <2>4. FinalWrites(t) \subseteq Registers \X Values
    <3>1. ASSUME NEW r \in Registers, queuedWrites[t][r] # <<>>
          PROVE  queuedWrites[t][r][Len(queuedWrites[t][r])] \in Values
      <4>1. queuedWrites[t][r] \in Seq(Values)
        BY DEF TypeOK
      <4> QED
        BY <3>1, <4>1
    <3> QED
      BY <3>1 DEF FinalWrites
  <2>5. /\ wrote' \in [Threads -> SUBSET (Registers \X Values)]
        /\ owed' \in [Threads -> SUBSET Registers]
    BY <1>11, <2>1, <2>4 DEF iApply, TypeOK
  <2>6. /\ queuedWrites' \in [Threads -> [Registers -> Seq(Values)]]
        /\ queuedReads' \in [Threads -> [Registers -> Seq(SUBSET Values)]]
        /\ queuedRefreshes' \in [Threads -> SUBSET Registers]
    BY SMTT(60), <1>11 DEF iApply, TypeOK
  <2> QED
    BY SMTT(60), <1>11, <2>2, <2>3, <2>5, <2>6 DEF iApply, TypeOK
<1>12. ASSUME NEW t \in Threads, iApplyPend(t) PROVE TypeOK'
  BY <1>12 DEF iApplyPend, TypeOK
<1>13. ASSUME NEW t \in Threads, iApplyReturn(t) PROVE TypeOK'
  BY <1>13 DEF iApplyReturn, TypeOK
<1>14. ASSUME iReset PROVE TypeOK'
  <2>1. reg' \in [Registers -> R!RegisterType]
    BY <1>14, ResetType DEF iReset, TypeOK
  <2>2. sut' \in [Registers -> Values]
    BY <1>14 DEF iReset, TypeOK
  <2> QED
    BY <1>14, <2>1, <2>2 DEF iReset, TypeOK
<1>15. ASSUME LoopTest PROVE TypeOK'
  BY <1>15 DEF LoopTest, TypeOK
<1>16. ASSUME LoopWaitEnd PROVE TypeOK'
  BY <1>16 DEF LoopWaitEnd, TypeOK
<1>17. ASSUME LastRelease PROVE TypeOK'
  BY <1>17 DEF LastRelease, ReleaseServedThreads, AbortLoop, TypeOK
<1>18. ASSUME Serve PROVE TypeOK'
  <2>1. reg' \in [Registers -> R!RegisterType]
    BY <1>18, UpdateRegisterType DEF Serve, Captures, TypeOK
  <2>2. sut' \in [Registers -> Values]
    BY <1>18 DEF Serve, Shift, TypeOK
  <2>3. /\ pendingRegistersIds' \in [Threads -> SUBSET Registers]
        /\ regIdToAppData' \subseteq Registers \X Threads
    BY <1>18 DEF Serve, ReportServedRegisters, TypeOK
  <2>4. /\ canProceed' \in [Threads -> BOOLEAN] /\ pendingThreads' \subseteq Threads
        /\ loop' \in LoopStates /\ runLoop' \in BOOLEAN /\ killAllThreads' \in BOOLEAN
        /\ todo' \subseteq Channels
    BY <1>18 DEF Serve, ReleaseServedThreads, AbortLoop, TypeOK
  <2>5. owed' \in [Threads -> SUBSET Registers]
    BY <1>18 DEF Serve, TypeOK
  <2> QED
    BY <1>18, <2>1, <2>2, <2>3, <2>4, <2>5 DEF Serve, TypeOK
<1>19. ASSUME NEW updated \in SUBSET active, ServeFails(updated) PROVE TypeOK'
  <2>1. reg' \in [Registers -> R!RegisterType]
    BY <1>19, UpdateRegisterType DEF ServeFails, Captures, TypeOK
  <2>2. sut' \in [Registers -> Values]
    BY <1>19 DEF ServeFails, Shift, TypeOK
  <2> QED
    BY <1>19, <2>1, <2>2 DEF ServeFails, AbortLoop, TypeOK
<1>20. ASSUME CycleEnd PROVE TypeOK'
  BY <1>20 DEF CycleEnd, TypeOK
<1>21. ASSUME NEW selectors \in SUBSET Channels, Configure(selectors) PROVE TypeOK'
  <2>1. reg' \in [Registers -> R!RegisterType]
    BY <1>21, MarkPendingWriteType DEF Configure, TypeOK
  <2>2. todo' \subseteq Channels
    BY <1>21 DEF Configure
  <2> QED
    BY <1>21, <2>1, <2>2 DEF Configure, TypeOK
<1>22. ASSUME NEW regs \in ActivePaths, BuildToSut(regs) PROVE TypeOK'
  <2>1. toSut' \in [Registers -> Values]
    BY <1>22 DEF BuildToSut, TypeOK, R!ToSutBits, R!RegisterType
  <2>2. todo' \subseteq Channels /\ active' \subseteq Registers
    BY <1>22 DEF BuildToSut, TypeOK
  <2> QED
    BY <1>22, <2>1, <2>2 DEF BuildToSut, TypeOK
<1>23. ASSUME Start PROVE TypeOK'
  BY <1>23 DEF Start, TypeOK
<1>24. ASSUME StartCreatedApplicationThreads PROVE TypeOK'
  BY <1>24 DEF StartCreatedApplicationThreads, TypeOK
<1>25. ASSUME Stop PROVE TypeOK'
  <2>1. stops' \in Nat
    BY <1>25 DEF Stop, TypeOK
  <2>2. main' \in MainStates
    BY <1>25 DEF Stop
  <2> QED
    BY <1>25, <2>1, <2>2 DEF Stop, TypeOK
<1>26. ASSUME StopJoin PROVE TypeOK'
  BY <1>26 DEF StopJoin, TypeOK
<1>27. ASSUME WaitForApplicationsEnd PROVE TypeOK'
  BY <1>27 DEF WaitForApplicationsEnd, TypeOK
<1>28. ASSUME ApplicationsJoined PROVE TypeOK'
  BY <1>28 DEF ApplicationsJoined, TypeOK
<1>29. CASE UNCHANGED vars
  BY <1>29 DEF vars, TypeOK
<1>30. CASE Request
  <2>1. \A q \in WriteRequests : q[1] \in Threads /\ q[2] \in Registers /\ q[3] \in Values
    OBVIOUS
  <2>2. \A q \in ReadRequests : q[1] \in Threads /\ q[2] \in Registers
                                /\ q[3] \in SUBSET Values
    OBVIOUS
  <2>3. \A q \in RefreshRequests : q[1] \in Threads /\ q[2] \in Registers
    OBVIOUS
  <2> QED
    BY <1>8, <1>9, <1>10, <1>30, <2>1, <2>2, <2>3 DEF Request
<1> QED
  BY <1>1, <1>2, <1>3, <1>4, <1>5, <1>6, <1>7, <1>11, <1>12, <1>13, <1>14, <1>15,
     <1>16, <1>17, <1>18, <1>19, <1>20, <1>21, <1>22, <1>23, <1>24, <1>25, <1>26,
     <1>27, <1>28, <1>29, <1>30
     DEF Next, ManagerStep, ApplicationStep, OwnerStep

\* The manager's state is always well typed; in particular m_activeThreads
\* stays an unsigned number however many updates of it are lost.
THEOREM TypeCorrectness == Spec => []TypeOK
BY InitTypeOK, NextTypeOK, PTL DEF Spec

-------------------------------------------------------------------------------
(* What iApply promises *)

\* A register that has been requested and not shifted since is still in the
\* pendingRegistersIds of the thread, through stops, resets and failures.
OwedIsPending == \A t \in Threads : owed[t] \subseteq pendingRegistersIds[t]

\* A thread blocked in iApply is let go only with no register pending.
ReleasedIsServed ==
  \A t \in Threads : app[t] = "blocked" /\ canProceed[t] => pendingRegistersIds[t] = {}

\* The inductive invariant behind the promise of iApply.
ApplyInv ==
  /\ PendingIdsMatchMultimap
  /\ BlockedThreadIsPending
  /\ OwedIsPending
  /\ ReleasedIsServed

\* Steps that neither touch the pending threads and registers nor block a thread.
Quiet ==
  /\ UNCHANGED <<canProceed, pendingRegistersIds, regIdToAppData, pendingThreads, owed>>
  /\ \A t \in Threads : app'[t] = "blocked" => app[t] = "blocked"

\* Such steps preserve the invariant.
LEMMA QuietPreservesApplyInv == ASSUME ApplyInv, Quiet PROVE ApplyInv'
BY DEF ApplyInv, Quiet, PendingIdsMatchMultimap, BlockedThreadIsPending, OwedIsPending,
       ReleasedIsServed

\* Every action but iApply's two critical sections and the two releases is quiet.
LEMMA QuietSteps ==
  ASSUME TypeOK,
         \/ \E t \in Threads :
              \/ SpawnApplication(t) \/ InsertAppData(t) \/ WrapperStarted(t)
              \/ ApplicationStart(t) \/ ApplicationCounted(t) \/ ApplicationEnd(t)
              \/ ApplicationUncounted(t) \/ iApplyReturn(t)
         \/ Request \/ iReset \/ LoopTest \/ LoopWaitEnd \/ CycleEnd
         \/ \E updated \in SUBSET active : ServeFails(updated)
         \/ \E selectors \in SUBSET Channels : Configure(selectors)
         \/ \E regs \in ActivePaths : BuildToSut(regs)
         \/ Start \/ StartCreatedApplicationThreads \/ Stop \/ StopJoin
         \/ WaitForApplicationsEnd \/ ApplicationsJoined
         \/ UNCHANGED vars
  PROVE  Quiet
<1>1. CASE \E t \in Threads :
              \/ SpawnApplication(t) \/ InsertAppData(t) \/ WrapperStarted(t)
              \/ ApplicationStart(t) \/ ApplicationCounted(t) \/ ApplicationEnd(t)
              \/ ApplicationUncounted(t) \/ iApplyReturn(t)
  BY <1>1 DEF TypeOK, SpawnApplication, InsertAppData, WrapperStarted, ApplicationStart,
     ApplicationCounted, ApplicationEnd, ApplicationUncounted, iApplyReturn, Quiet
<1>2. CASE Request
  BY <1>2 DEF Request, iWrite, iRead, iRefresh, Quiet
<1>3. CASE iReset \/ LoopTest \/ LoopWaitEnd \/ CycleEnd
  BY <1>3 DEF iReset, LoopTest, LoopWaitEnd, CycleEnd, Quiet
<1>4. CASE \/ \E updated \in SUBSET active : ServeFails(updated)
           \/ \E selectors \in SUBSET Channels : Configure(selectors)
           \/ \E regs \in ActivePaths : BuildToSut(regs)
  BY <1>4 DEF ServeFails, Configure, BuildToSut, Quiet
<1>5. CASE \/ Start \/ StartCreatedApplicationThreads \/ Stop \/ StopJoin
           \/ WaitForApplicationsEnd \/ ApplicationsJoined
  BY <1>5 DEF Start, StartCreatedApplicationThreads, Stop, StopJoin,
     WaitForApplicationsEnd, ApplicationsJoined, Quiet
<1>6. CASE UNCHANGED vars
  BY <1>6 DEF vars, Quiet
<1> QED
  BY <1>1, <1>2, <1>3, <1>4, <1>5, <1>6

\* A release leaves a blocked thread either allowed to proceed, with nothing
\* pending in pend, or pending as before.
LEMMA ReleaseServedThreadsEffect ==
  ASSUME TypeOK, NEW pend, NEW next, ReleaseServedThreads(pend, next), NEW t \in Threads
  PROVE  \/ canProceed'[t] = canProceed[t] /\ (t \in pendingThreads' <=> t \in pendingThreads)
         \/ canProceed'[t] /\ pend[t] = {}
BY DEF TypeOK, ReleaseServedThreads

\* The invariant holds in every initial state: nothing is pending.
LEMMA InitApplyInv == Init => ApplyInv
BY DEF Init, ApplyInv, PendingIdsMatchMultimap, BlockedThreadIsPending, OwedIsPending,
       ReleasedIsServed

\* Every step preserves the invariant.
LEMMA NextApplyInv == TypeOK /\ ApplyInv /\ [Next]_vars => ApplyInv'
<1> SUFFICES ASSUME TypeOK, ApplyInv, [Next]_vars PROVE ApplyInv'
  OBVIOUS
<1>1. ASSUME NEW t \in Threads, iApply(t) PROVE ApplyInv'
  <2>1. /\ app' = [app EXCEPT ![t] = "applying"]
        /\ RegisterPendingThread(t, Requested(t))
        /\ owed' = [owed EXCEPT ![t] = @ \cup Requested(t)]
        /\ UNCHANGED pendingThreads
        /\ Requested(t) \subseteq Registers
    BY <1>1 DEF iApply, Requested
  <2>2. /\ pendingRegistersIds' = [pendingRegistersIds EXCEPT ![t] = @ \cup Requested(t)]
        /\ regIdToAppData' = regIdToAppData
             \cup {<<r, t>> : r \in Requested(t) \ pendingRegistersIds[t]}
        /\ \A u \in Threads : u # t => canProceed'[u] = canProceed[u]
    BY <2>1 DEF RegisterPendingThread, TypeOK
  <2>3. PendingIdsMatchMultimap'
    BY ZenonT(60), <2>2 DEF PendingIdsMatchMultimap, ApplyInv, TypeOK
  <2>4. BlockedThreadIsPending'
    BY <2>1, <2>2 DEF BlockedThreadIsPending, ApplyInv, TypeOK
  <2>5. OwedIsPending'
    BY <2>1, <2>2 DEF OwedIsPending, ApplyInv, TypeOK
  <2>6. ReleasedIsServed'
    BY <2>1, <2>2 DEF ReleasedIsServed, ApplyInv, TypeOK
  <2> QED
    BY <2>3, <2>4, <2>5, <2>6 DEF ApplyInv
<1>2. ASSUME NEW t \in Threads, iApplyPend(t) PROVE ApplyInv'
  <2>1. UNCHANGED <<pendingRegistersIds, regIdToAppData, owed>>
    BY <1>2 DEF iApplyPend
  <2>2. PendingIdsMatchMultimap' /\ OwedIsPending'
    BY <2>1 DEF PendingIdsMatchMultimap, OwedIsPending, ApplyInv
  <2>3. BlockedThreadIsPending' /\ ReleasedIsServed'
    BY <1>2 DEF iApplyPend, BlockedThreadIsPending, ReleasedIsServed, ApplyInv, TypeOK
  <2> QED
    BY <2>2, <2>3 DEF ApplyInv
<1>3. CASE LastRelease
  <2>1. /\ ReleaseServedThreads(pendingRegistersIds, "wait")
        /\ UNCHANGED <<app, pendingRegistersIds, regIdToAppData, owed>>
    BY <1>3 DEF LastRelease
  <2>2. PendingIdsMatchMultimap' /\ OwedIsPending'
    BY <2>1 DEF PendingIdsMatchMultimap, OwedIsPending, ApplyInv
  <2>3. BlockedThreadIsPending' /\ ReleasedIsServed'
    BY <2>1, ReleaseServedThreadsEffect
       DEF BlockedThreadIsPending, ReleasedIsServed, ApplyInv
  <2> QED
    BY <2>2, <2>3 DEF ApplyInv
<1>4. CASE Serve
  <2>1. /\ ReportServedRegisters(active)
        /\ ReleaseServedThreads(pendingRegistersIds', "toSut")
        /\ owed' = [t \in Threads |-> owed[t] \ active]
        /\ app' = app
    BY <1>4 DEF Serve
  <2>2. PendingIdsMatchMultimap'
    BY <2>1 DEF ReportServedRegisters, PendingIdsMatchMultimap, ApplyInv, TypeOK
  <2>3. OwedIsPending'
    BY <2>1 DEF ReportServedRegisters, OwedIsPending, ApplyInv, TypeOK
  <2>4. \A t \in Threads : pendingRegistersIds'[t] \subseteq pendingRegistersIds[t]
    BY <2>1 DEF ReportServedRegisters, TypeOK
  <2>5. BlockedThreadIsPending'
    BY <2>1, ReleaseServedThreadsEffect DEF BlockedThreadIsPending, ApplyInv
  <2>6. ReleasedIsServed'
    BY <2>1, <2>4, ReleaseServedThreadsEffect DEF ReleasedIsServed, ApplyInv
  <2> QED
    BY <2>2, <2>3, <2>5, <2>6 DEF ApplyInv
<1> QED
  BY <1>1, <1>2, <1>3, <1>4, QuietSteps, QuietPreservesApplyInv
     DEF Next, ManagerStep, ApplicationStep, OwnerStep

\* TypeOK and ApplyInv hold in every reachable state.
LEMMA SpecApplyInv == Spec => [](TypeOK /\ ApplyInv)
BY InitTypeOK, NextTypeOK, InitApplyInv, NextApplyInv, PTL DEF Spec

\* m_regIdToAppData and the pendingRegistersIds of the threads never disagree,
\* for any number of threads that request the same registers.
THEOREM PendingIdsConsistent == Spec => []PendingIdsMatchMultimap
<1>1. ApplyInv => PendingIdsMatchMultimap
  BY DEF ApplyInv
<1> QED
  BY <1>1, SpecApplyInv, PTL

\* No thread waits in iApply unknown to the data cycle loop: a released
\* thread may proceed, an unreleased one is in m_pendingThreads.
THEOREM NoForgottenThread == Spec => []BlockedThreadIsPending
<1>1. ApplyInv => BlockedThreadIsPending
  BY DEF ApplyInv
<1> QED
  BY <1>1, SpecApplyInv, PTL

\* The thread whose iApply returns while the loop runs has been released.
LEMMA ReturnIsReleased ==
  ASSUME TypeOK, [Next]_vars,
         NEW t \in Threads, app[t] = "blocked", app'[t] = "running", runLoop
  PROVE  canProceed[t]
<1>1. CASE \E u \in Threads : iApplyReturn(u)
  BY <1>1 DEF iApplyReturn, TypeOK
<1>2. CASE UNCHANGED app
  BY <1>2
<1>3. CASE \E u \in Threads :
             \/ SpawnApplication(u) \/ WrapperStarted(u) \/ ApplicationStart(u)
             \/ ApplicationCounted(u) \/ ApplicationEnd(u) \/ ApplicationUncounted(u)
             \/ iApply(u) \/ iApplyPend(u)
  BY ZenonT(60), <1>3 DEF SpawnApplication, WrapperStarted, ApplicationStart, ApplicationCounted,
     ApplicationEnd, ApplicationUncounted, iApply, CanCallPDL, iApplyPend, TypeOK
<1>4. CASE ManagerStep
  BY <1>2, <1>4 DEF ManagerStep, LoopTest, LoopWaitEnd, LastRelease, Serve, CycleEnd,
     Configure, BuildToSut, ServeFails
<1>5. CASE Request
  BY <1>2, <1>5 DEF Request, iWrite, iRead, iRefresh
<1>6. CASE \/ \E u \in Threads : InsertAppData(u)
           \/ Start \/ StartCreatedApplicationThreads \/ Stop \/ StopJoin
           \/ WaitForApplicationsEnd \/ ApplicationsJoined \/ iReset
  BY <1>2, <1>6 DEF InsertAppData, Start, StartCreatedApplicationThreads, Stop, StopJoin,
     WaitForApplicationsEnd, ApplicationsJoined, iReset
<1>7. CASE UNCHANGED vars
  BY <1>2, <1>7 DEF vars
<1> QED
  BY <1>1, <1>3, <1>4, <1>5, <1>6, <1>7 DEF Next, ApplicationStep, OwnerStep

\* While the loop runs, iApply returns only when each register the thread has
\* requested has been shifted after the request, whatever other threads, Stop
\* and Start, iReset or failing protocols do in between.
THEOREM ApplyServes == Spec => ApplyReturnsServed
<1>1. ASSUME TypeOK, ApplyInv, [Next]_vars,
             NEW t \in Threads, app[t] = "blocked", app'[t] = "running", runLoop
      PROVE  owed[t] = {}
  <2>1. canProceed[t]
    BY <1>1, ReturnIsReleased
  <2> QED
    BY <1>1, <2>1 DEF ApplyInv, ReleasedIsServed, OwedIsPending
<1>2. TypeOK /\ ApplyInv /\ [Next]_vars
        => [\A t \in Threads :
              app[t] = "blocked" /\ app'[t] = "running" /\ runLoop => owed[t] = {}]_vars
  BY <1>1
<1> QED
  BY <1>2, SpecApplyInv, PTL DEF Spec, ApplyReturnsServed

-------------------------------------------------------------------------------
(***************************************************************************)
(* What the model knows of the SUT: no request is left behind, m_lastToSut  *)
(* is what the SUT holds, and iApply returns with the values written in the *)
(* SUT.                                                                     *)
(*                                                                         *)
(* Two things in the code break these promises, and are hypotheses of the   *)
(* theorems where they matter: iReset of a register with a reset sequence   *)
(* leaves m_lastToSut as it was, and a protocol that throws leaves the SUT  *)
(* shifted with the registers not updated.                                  *)
(***************************************************************************)

\* No register of the SUT changes by iReset: it is never called, or no register
\* has a reset sequence.
NoSutReset == MaxResets = 0 \/ \A r \in Registers : ResetValue[r] = {}

-------------------------------------------------------------------------------
(* Registers: what each member function does to the fields *)

\* FromSutUpdater records that the value to send has been sent, and clears what
\* was expected of the shift.
LEMMA UpdateRegisterFields ==
  ASSUME NEW g \in R!RegisterType, NEW v \in Values
  PROVE  LET h == R!UpdateRegister(g, v)
         IN  /\ h.next = g.next /\ h.last = g.next /\ h.bypass = g.bypass
             /\ ~h.pendingRead /\ ~h.mustCheck
<1>1. R!SetFromSut(g, v).next = g.next /\ R!SetFromSut(g, v).bypass = g.bypass
  BY DEF R!SetFromSut, R!RegisterType
<1> QED
  BY <1>1 DEF R!UpdateRegister, R!UpdateLastToSut, R!ResetPending, R!SetCheckExpected, R!SetFromSut, R!RegisterType

\* Marking a register as pending for write changes nothing else.
LEMMA MarkPendingWriteFields ==
  ASSUME NEW g \in R!RegisterType
  PROVE  LET h == R!MarkPendingWrite(g)
         IN  /\ h.next = g.next /\ h.last = g.last /\ h.bypass = g.bypass
             /\ h.pendingRead = g.pendingRead /\ h.mustCheck = g.mustCheck
BY DEF R!MarkPendingWrite, R!RegisterType

\* The reset of a register without a reset sequence only clears flags.
LEMMA ResetFields ==
  ASSUME NEW g \in R!RegisterType
  PROVE  LET h == R!Reset(g, {})
         IN  /\ h.next = g.next /\ h.last = g.last /\ h.bypass = g.bypass
             /\ ~h.pendingRead /\ ~h.mustCheck
BY DEF R!Reset, R!ResetPending, R!RegisterType

\* The value of register r after the requests thread t has queued for it.
NextAfter(t, r) ==
  IF queuedWrites[t][r] = <<>> THEN reg[r].next
  ELSE queuedWrites[t][r][Len(queuedWrites[t][r])]

\* ProcessQueuedRequests leaves m_lastToSut alone, sends the last value written,
\* which is the value to hold too, and expects an answer only of a register it
\* has registered the thread for.
LEMMA AfterQueuedRequestsFields ==
  ASSUME TypeOK, NEW t \in Threads, NEW r \in Registers
  PROVE  LET h == AfterQueuedRequests(t, r)
         IN  /\ h.last = reg[r].last
             /\ h.next = NextAfter(t, r)
             /\ r \in Hold /\ reg[r].bypass = reg[r].next => h.bypass = h.next
             /\ r \notin Requested(t) => /\ h.pendingRead = reg[r].pendingRead
                                         /\ h.mustCheck = reg[r].mustCheck
<1> DEFINE writes == queuedWrites[t][r]
           reads == queuedReads[t][r]
           written == IF writes = <<>> THEN reg[r]
                      ELSE R!SetToSut(reg[r], writes[Len(writes)], r \in Hold)
           refreshed == IF r \in queuedRefreshes[t] THEN R!SetPendingForRead(written)
                        ELSE written
<1>1. writes \in Seq(Values) /\ reads \in Seq(SUBSET Values) /\ reg[r] \in R!RegisterType
  BY DEF TypeOK
<1>2. /\ written \in R!RegisterType
      /\ written.last = reg[r].last /\ written.next = NextAfter(t, r)
      /\ r \in Hold /\ reg[r].bypass = reg[r].next => written.bypass = written.next
      /\ written.pendingRead = reg[r].pendingRead /\ written.mustCheck = reg[r].mustCheck
  <2>1. CASE writes = <<>>
    BY <1>1, <2>1 DEF NextAfter
  <2>2. CASE writes # <<>>
    <3>1. writes[Len(writes)] \in Values
      BY <1>1, <2>2
    <3> DEFINE v == writes[Len(writes)]
    <3>2. v \in Values /\ NextAfter(t, r) = v
      BY <2>2, <3>1 DEF NextAfter
    <3>3. written = R!SetToSut(reg[r], v, r \in Hold)
      BY <2>2
    <3> HIDE DEF v, written
    <3> QED
      BY <1>1, <3>2, <3>3 DEF R!SetToSut, R!RegisterType
  <2> QED
    BY <2>1, <2>2
<1>3. AfterQueuedRequests(t, r) =
        IF reads = <<>> THEN refreshed
        ELSE R!SetPendingForRead(R!SetCheckExpected(
               R!SetExpectedFromSut(refreshed, reads[Len(reads)]), TRUE))
  BY DEF AfterQueuedRequests
<1> HIDE DEF written
<1>4. /\ refreshed \in R!RegisterType
      /\ refreshed.last = written.last /\ refreshed.next = written.next
      /\ refreshed.bypass = written.bypass /\ refreshed.mustCheck = written.mustCheck
      /\ r \notin queuedRefreshes[t] => refreshed.pendingRead = written.pendingRead
  BY <1>2 DEF R!SetPendingForRead, R!RegisterType
<1> HIDE DEF refreshed, reads
<1>5. CASE reads = <<>>
  BY <1>2, <1>3, <1>4, <1>5 DEF Requested
<1>6. CASE reads # <<>>
  <2>1. r \in Requested(t)
    BY <1>6 DEF Requested, reads
  <2>2. reads[Len(reads)] \in SUBSET Values
    BY <1>1, <1>6
  <2> DEFINE h == R!SetPendingForRead(R!SetCheckExpected(
                    R!SetExpectedFromSut(refreshed, reads[Len(reads)]), TRUE))
  <2>3. h.last = refreshed.last /\ h.next = refreshed.next /\ h.bypass = refreshed.bypass
    BY <1>4, <2>2 DEF R!SetPendingForRead, R!SetCheckExpected, R!SetExpectedFromSut,
       R!RegisterType
  <2> QED
    BY <1>2, <1>3, <1>4, <1>6, <2>1, <2>3
<1> QED
  BY <1>5, <1>6

\* A write that is not registered writes the value sent last.
LEMMA UnregisteredWrite ==
  ASSUME TypeOK, NEW t \in Threads, NEW r \in Registers,
         queuedWrites[t][r] # <<>>, r \notin Requested(t)
  PROVE  NextAfter(t, r) = reg[r].last
<1>1. queuedWrites[t][r] \in Seq(Values)
  BY DEF TypeOK
<1>2. Len(queuedWrites[t][r]) \in DOMAIN queuedWrites[t][r]
  BY <1>1
<1> QED
  BY <1>2 DEF Requested, NextAfter

-------------------------------------------------------------------------------
(* Requests and written values *)

\* A value written in the current iApply and not overwritten since is the one
\* the model will send, and has been sent unless the thread still waits for it.
WrittenSentOrPending ==
  \A t \in Threads : \A w \in wrote[t] :
    /\ reg[w[1]].next = w[2]
    /\ w[1] \notin pendingRegistersIds[t] => reg[w[1]].last = w[2]

\* The inductive invariant: requests have a waiting thread, written values too.
RequestInv == NoOrphanRequest /\ WrittenSentOrPending

\* The steps that change a register, the SUT or what a thread waits for.
LEMMA ContentSteps ==
  ASSUME [Next]_vars
  PROVE  \/ UNCHANGED <<reg, sut, pendingRegistersIds, wrote>>
         \/ \E t \in Threads : iApply(t) \/ iApplyReturn(t)
         \/ iReset \/ Serve
         \/ \E selectors \in SUBSET Channels : Configure(selectors)
         \/ \E updated \in SUBSET active : ServeFails(updated)
<1>1. CASE ManagerStep
  BY <1>1 DEF ManagerStep, LoopTest, LoopWaitEnd, LastRelease, CycleEnd, BuildToSut
<1>2. CASE \E t \in Threads : ApplicationStep(t)
  BY <1>2 DEF ApplicationStep, WrapperStarted, ApplicationStart, ApplicationCounted,
     ApplicationEnd, ApplicationUncounted, iApplyPend
<1>3. CASE Request
  BY <1>3 DEF Request, iWrite, iRead, iRefresh
<1>4. CASE OwnerStep
  BY <1>4 DEF OwnerStep, SpawnApplication, InsertAppData, Start,
     StartCreatedApplicationThreads, Stop, StopJoin, WaitForApplicationsEnd,
     ApplicationsJoined
<1>5. CASE UNCHANGED vars
  BY <1>5 DEF vars
<1> QED
  BY <1>1, <1>2, <1>3, <1>4, <1>5 DEF Next

\* Only a SUT without resets is reset by iReset.
LEMMA ResetWithoutSutReset ==
  ASSUME TypeOK, NoSutReset, iReset
  PROVE  /\ \A r \in Registers : reg'[r] = R!Reset(reg[r], {})
         /\ sut' = sut /\ \A t \in Threads : wrote'[t] = {}
         /\ pendingRegistersIds' = pendingRegistersIds
<1>1. \A r \in Registers : ResetValue[r] = {}
  BY ConstantsAssumption DEF ConstantsAssumption, NoSutReset, iReset, TypeOK
<1>2. sut' = sut
  BY <1>1 DEF iReset, TypeOK
<1> QED
  BY <1>1, <1>2 DEF iReset

\* Nothing is requested or written in an initial state.
LEMMA InitRequestInv == Init => RequestInv
BY DEF Init, RequestInv, NoOrphanRequest, WrittenSentOrPending, R!NewRegister

\* Every step preserves the invariant.
LEMMA NextRequestInv ==
  ASSUME NoSutReset, TypeOK, RequestInv, [Next]_vars PROVE RequestInv'
<1>0. \A t \in Threads : \A w \in wrote[t] : w[1] \in Registers
  BY DEF TypeOK
<1>1. CASE UNCHANGED <<reg, sut, pendingRegistersIds, wrote>>
  BY <1>1 DEF RequestInv, NoOrphanRequest, WrittenSentOrPending
<1>2. ASSUME NEW t \in Threads, iApply(t) PROVE RequestInv'
  <2>1. /\ \A r \in Registers : reg'[r] = AfterQueuedRequests(t, r)
        /\ pendingRegistersIds' = [pendingRegistersIds EXCEPT ![t] = @ \cup Requested(t)]
        /\ wrote' = [u \in Threads |->
                       IF u = t THEN FinalWrites(t)
                       ELSE {w \in wrote[u] : queuedWrites[t][w[1]] = <<>>}]
    BY <1>2 DEF iApply, RegisterPendingThread
  <2>2. pendingRegistersIds'[t] = pendingRegistersIds[t] \cup Requested(t)
        /\ \A u \in Threads : u # t => pendingRegistersIds'[u] = pendingRegistersIds[u]
    BY <2>1 DEF TypeOK
  <2>3. ASSUME NEW r \in Registers
        PROVE  /\ reg'[r].last = reg[r].last /\ reg'[r].next = NextAfter(t, r)
               /\ r \notin Requested(t) => /\ reg'[r].pendingRead = reg[r].pendingRead
                                           /\ reg'[r].mustCheck = reg[r].mustCheck
               /\ r \notin Requested(t) /\ queuedWrites[t][r] # <<>>
                    => NextAfter(t, r) = reg[r].last
               /\ queuedWrites[t][r] = <<>> => NextAfter(t, r) = reg[r].next
    BY <2>1, AfterQueuedRequestsFields, UnregisteredWrite DEF NextAfter
  <2>4. NoOrphanRequest'
    BY <2>2, <2>3 DEF NoOrphanRequest, RequestInv
  <2>5. WrittenSentOrPending'
    <3>1. ASSUME NEW w \in wrote'[t]
          PROVE  reg'[w[1]].next = w[2]
                 /\ (w[1] \notin pendingRegistersIds'[t] => reg'[w[1]].last = w[2])
      <4>1. PICK r \in Registers : queuedWrites[t][r] # <<>> /\ w = <<r, NextAfter(t, r)>>
        BY <2>1, <3>1 DEF FinalWrites, NextAfter
      <4> QED
        BY <2>2, <2>3, <4>1
    <3>2. ASSUME NEW u \in Threads, u # t, NEW w \in wrote'[u]
          PROVE  reg'[w[1]].next = w[2]
                 /\ (w[1] \notin pendingRegistersIds'[u] => reg'[w[1]].last = w[2])
      <4>1. w \in wrote[u] /\ queuedWrites[t][w[1]] = <<>>
        BY <2>1, <3>2
      <4> QED
        BY <1>0, <2>2, <2>3, <3>2, <4>1 DEF RequestInv, WrittenSentOrPending
    <3> QED
      BY <3>1, <3>2 DEF WrittenSentOrPending
  <2> QED
    BY <2>4, <2>5 DEF RequestInv
<1>3. ASSUME NEW t \in Threads, iApplyReturn(t) PROVE RequestInv'
  <2>1. UNCHANGED <<reg, pendingRegistersIds>> /\ \A u \in Threads : wrote'[u] \subseteq wrote[u]
    BY <1>3 DEF iApplyReturn, TypeOK
  <2> QED
    BY <2>1 DEF RequestInv, NoOrphanRequest, WrittenSentOrPending
<1>4. CASE iReset
  <2>1. ASSUME NEW r \in Registers
        PROVE  /\ reg'[r].next = reg[r].next /\ reg'[r].last = reg[r].last
               /\ ~reg'[r].pendingRead /\ ~reg'[r].mustCheck
    BY <1>4, ResetWithoutSutReset, ResetFields DEF TypeOK
  <2> QED
    BY <1>4, <2>1, ResetWithoutSutReset DEF RequestInv, NoOrphanRequest, WrittenSentOrPending
<1>5. ASSUME NEW selectors \in SUBSET Channels, Configure(selectors) PROVE RequestInv'
  <2>1. /\ \A r \in Registers : reg'[r] = R!MarkPendingWrite(reg[r])
        /\ UNCHANGED <<pendingRegistersIds, wrote>>
    BY <1>5 DEF Configure
  <2>2. ASSUME NEW r \in Registers
        PROVE  /\ reg'[r].next = reg[r].next /\ reg'[r].last = reg[r].last
               /\ reg'[r].pendingRead = reg[r].pendingRead
               /\ reg'[r].mustCheck = reg[r].mustCheck
    BY <2>1, MarkPendingWriteFields DEF TypeOK
  <2> QED
    BY <1>0, <2>1, <2>2 DEF RequestInv, NoOrphanRequest, WrittenSentOrPending
<1>6. ASSUME NEW updated \in SUBSET active, ServeFails(updated) PROVE RequestInv'
  <2>1. PICK c \in Captures :
          reg' = [r \in Registers |-> IF r \in updated THEN R!UpdateRegister(reg[r], c[r])
                                      ELSE reg[r]]
    BY <1>6 DEF ServeFails
  <2>2. UNCHANGED <<pendingRegistersIds, wrote>>
    BY <1>6 DEF ServeFails
  <2>3. ASSUME NEW r \in Registers
        PROVE  /\ reg'[r].next = reg[r].next
               /\ \/ reg'[r] = reg[r]
                  \/ reg'[r].last = reg[r].next /\ ~reg'[r].pendingRead /\ ~reg'[r].mustCheck
    BY <2>1, UpdateRegisterFields DEF Captures, TypeOK
  <2> QED
    BY <1>0, <2>2, <2>3 DEF RequestInv, NoOrphanRequest, WrittenSentOrPending
<1>7. CASE Serve
  <2>1. PICK c \in Captures :
          reg' = [r \in Registers |-> IF r \in active THEN R!UpdateRegister(reg[r], c[r])
                                      ELSE reg[r]]
    BY <1>7 DEF Serve
  <2>2. UNCHANGED wrote
    BY <1>7 DEF Serve
  <2>3. \A t \in Threads, r \in Registers :
          r \notin active => (r \in pendingRegistersIds'[t] <=> r \in pendingRegistersIds[t])
    BY <1>7 DEF Serve, ReportServedRegisters
  <2>4. ASSUME NEW r \in Registers
        PROVE  /\ reg'[r].next = reg[r].next
               /\ r \notin active => reg'[r] = reg[r]
               /\ r \in active => /\ reg'[r].last = reg[r].next
                                  /\ ~reg'[r].pendingRead /\ ~reg'[r].mustCheck
    BY <2>1, UpdateRegisterFields DEF Captures, TypeOK
  <2>5. NoOrphanRequest'
    BY <2>3, <2>4 DEF RequestInv, NoOrphanRequest
  <2>6. WrittenSentOrPending'
    BY <1>0, <2>2, <2>3, <2>4 DEF RequestInv, WrittenSentOrPending
  <2> QED
    BY <2>5, <2>6 DEF RequestInv
<1> QED
  BY <1>1, <1>2, <1>3, <1>4, <1>5, <1>6, <1>7, ContentSteps

\* The request invariant holds in every reachable state.
LEMMA SpecRequestInv == ASSUME NoSutReset PROVE Spec => [](TypeOK /\ ApplyInv /\ RequestInv)
BY SpecApplyInv, InitRequestInv, NextRequestInv, PTL DEF Spec

\* However threads that share registers interleave with the data cycles, and
\* whatever protocols throw, the model is ahead of the SUT or expects an answer
\* only of registers that some thread still waits for.
THEOREM RequestsHaveWaiters == ASSUME NoSutReset PROVE Spec => []NoOrphanRequest
<1>1. RequestInv => NoOrphanRequest
  BY DEF RequestInv
<1> QED
  BY <1>1, SpecRequestInv, PTL

-------------------------------------------------------------------------------
(* The model knows the content of the SUT *)

\* A register that holds its value sends the same bits whether it is pending or
\* not; the vector of the shift under way has them, and m_lastToSut is what the
\* SUT holds.
HeldInv ==
  /\ \A r \in Hold : reg[r].bypass = reg[r].next /\ reg[r].last = sut[r]
  /\ loop = "serve" => \A r \in active \cap Hold : toSut[r] = reg[r].next

\* A SUT is built with the values the registers of the model start with.
LEMMA InitHeldInv == Init => HeldInv
BY ConstantsAssumption DEF ConstantsAssumption, Init, HeldInv, R!NewRegister

\* Every step preserves the invariant, when no protocol throws.
LEMMA NextHeldInv ==
  ASSUME NoSutReset, ~MayFail, TypeOK, HeldInv, [Next]_vars PROVE HeldInv'
<1>0. Hold \subseteq Registers
  BY ConstantsAssumption DEF ConstantsAssumption
<1>1. ASSUME NEW t \in Threads, iApply(t) PROVE HeldInv'
  <2>1. ASSUME NEW r \in Hold
        PROVE  reg'[r].last = reg[r].last /\ reg'[r].bypass = reg'[r].next
    BY <1>0, <1>1, AfterQueuedRequestsFields DEF iApply, HeldInv
  <2>2. sut' = sut /\ loop' # "serve"
    BY <1>1 DEF iApply, DataMutexFree
  <2> QED
    BY <2>1, <2>2 DEF HeldInv
<1>2. CASE iReset
  <2>1. ASSUME NEW r \in Hold
        PROVE  /\ reg'[r].next = reg[r].next /\ reg'[r].last = reg[r].last
               /\ reg'[r].bypass = reg[r].bypass
    BY <1>0, <1>2, ResetWithoutSutReset, ResetFields DEF TypeOK
  <2>2. sut' = sut /\ UNCHANGED <<loop, active, toSut>>
    BY <1>2, ResetWithoutSutReset DEF iReset
  <2> QED
    BY <2>1, <2>2 DEF HeldInv
<1>3. ASSUME NEW selectors \in SUBSET Channels, Configure(selectors) PROVE HeldInv'
  <2>1. ASSUME NEW r \in Hold
        PROVE  /\ reg'[r].next = reg[r].next /\ reg'[r].last = reg[r].last
               /\ reg'[r].bypass = reg[r].bypass
    BY <1>0, <1>3, MarkPendingWriteFields DEF Configure, TypeOK
  <2>2. sut' = sut /\ loop' # "serve"
    BY <1>3 DEF Configure
  <2> QED
    BY <2>1, <2>2 DEF HeldInv
<1>4. ASSUME NEW regs \in ActivePaths, BuildToSut(regs) PROVE HeldInv'
  <2>1. UNCHANGED <<reg, sut>> /\ active' = regs
        /\ \A r \in regs \cap Hold : toSut'[r] = R!ToSutBits(reg[r])
    BY <1>0, <1>4 DEF BuildToSut
  <2> QED
    BY <1>0, <2>1 DEF HeldInv, R!ToSutBits
<1>5. CASE Serve
  <2>1. PICK c \in Captures :
          reg' = [r \in Registers |-> IF r \in active THEN R!UpdateRegister(reg[r], c[r])
                                      ELSE reg[r]]
    BY <1>5 DEF Serve
  <2>2. ASSUME NEW r \in Hold
        PROVE  /\ reg'[r].next = reg[r].next /\ reg'[r].bypass = reg[r].bypass
               /\ r \notin active => reg'[r] = reg[r] /\ sut'[r] = sut[r]
               /\ r \in active => reg'[r].last = reg[r].next /\ sut'[r] = toSut[r]
    BY <1>0, <1>5, <2>1, UpdateRegisterFields DEF Captures, TypeOK, Serve, Shift
  <2>3. loop = "serve" /\ active' = {}
    BY <1>5 DEF Serve
  <2> QED
    BY <2>2, <2>3 DEF HeldInv
<1>6. ASSUME NEW updated \in SUBSET active, ServeFails(updated) PROVE FALSE
  BY <1>6 DEF ServeFails
<1>7. CASE LastRelease \/ CycleEnd
  BY <1>7 DEF LastRelease, ReleaseServedThreads, AbortLoop, CycleEnd, HeldInv
<1>8. CASE /\ UNCHANGED <<reg, sut, active, toSut>>
           /\ loop' = "serve" => loop = "serve"
  BY <1>8 DEF HeldInv
<1>9. CASE LoopTest \/ LoopWaitEnd
  BY <1>8, <1>9 DEF LoopTest, LoopWaitEnd
<1>10. ASSUME NEW t \in Threads, ApplicationStep(t), ~iApply(t) PROVE HeldInv'
  BY <1>8, <1>10 DEF ApplicationStep, WrapperStarted, ApplicationStart, ApplicationCounted,
     ApplicationEnd, ApplicationUncounted, iApplyPend, iApplyReturn
<1>11. CASE Request
  BY <1>8, <1>11 DEF Request, iWrite, iRead, iRefresh
<1>12. CASE OwnerStep
  BY <1>8, <1>12 DEF OwnerStep, SpawnApplication, InsertAppData, Start,
     StartCreatedApplicationThreads, Stop, StopJoin, WaitForApplicationsEnd,
     ApplicationsJoined
<1>13. CASE UNCHANGED vars
  BY <1>8, <1>13 DEF vars
<1> QED
  BY <1>1, <1>2, <1>3, <1>4, <1>5, <1>6, <1>7, <1>9, <1>10, <1>11, <1>12, <1>13
     DEF Next, ManagerStep

\* The invariant of held registers holds in every reachable state.
LEMMA SpecHeldInv == ASSUME NoSutReset, ~MayFail PROVE Spec => []HeldInv
BY TypeCorrectness, InitHeldInv, NextHeldInv, PTL DEF Spec

\* When every register holds its value, m_lastToSut is the content of the SUT:
\* a write is left out of a data cycle only if the register has the value.
THEOREM LastToSutKnown ==
  ASSUME NoSutReset, ~MayFail, Hold = Registers PROVE Spec => []LastToSutIsInSut
<1>1. HeldInv => LastToSutIsInSut
  BY DEF HeldInv, LastToSutIsInSut
<1> QED
  BY <1>1, SpecHeldInv, PTL

\* While the loop runs, iApply returns with the values the thread has written,
\* and nobody has overwritten, in the SUT, also those never sent because they
\* equal m_lastToSut.
THEOREM ApplyWrites ==
  ASSUME NoSutReset, ~MayFail, Hold = Registers PROVE Spec => ApplyReturnsWritten
<1>1. ASSUME TypeOK, ApplyInv, RequestInv, HeldInv, [Next]_vars,
             NEW t \in Threads, app[t] = "blocked", app'[t] = "running", runLoop,
             NEW w \in wrote[t]
      PROVE  sut[w[1]] = w[2]
  <2>1. canProceed[t]
    BY <1>1, ReturnIsReleased
  <2>2. pendingRegistersIds[t] = {}
    BY <1>1, <2>1 DEF ApplyInv, ReleasedIsServed
  <2>3. w[1] \in Registers
    BY <1>1 DEF TypeOK
  <2>4. reg[w[1]].last = w[2]
    BY <1>1, <2>2 DEF RequestInv, WrittenSentOrPending
  <2> QED
    BY <1>1, <2>3, <2>4 DEF HeldInv
<1>2. TypeOK /\ ApplyInv /\ RequestInv /\ HeldInv /\ [Next]_vars
        => [\A t \in Threads :
              app[t] = "blocked" /\ app'[t] = "running" /\ runLoop
                => \A w \in wrote[t] : sut[w[1]] = w[2]]_vars
  BY <1>1
<1> QED
  BY <1>2, SpecRequestInv, SpecHeldInv, PTL DEF Spec, ApplyReturnsWritten
===============================================================================
