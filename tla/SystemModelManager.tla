-------------------------- MODULE SystemModelManager --------------------------
(***************************************************************************)
(* The manager of a SUT model (SystemModelManager_impl): PDL application    *)
(* threads queue register requests and block in iApply; one background      *)
(* thread runs data cycles, shifts the registers of the active scan paths   *)
(* to and from the SUT, and releases the threads it has served.             *)
(*                                                                         *)
(* The scan network is reduced to what the manager sees of it: a data cycle *)
(* visits channels in order, and each visit shifts a set of registers, one  *)
(* of ActivePaths (the empty set is the empty vector that is not sent).     *)
(* Which set is active, and whether the network needs one more cycle for    *)
(* its own selectors, is left open.  The retargeting that decides it is     *)
(* module ScanNetwork.                                                     *)
(***************************************************************************)
EXTENDS Naturals, Sequences, FiniteSets

CONSTANTS
  Threads,          \* PDL application threads
  Registers,        \* registers of the SUT model
  Values,           \* the bit vectors they hold
  Zero,             \* the all-zero vector
  InitValue,        \* the bypass sequence each register is built with
  ResetValue,       \* the reset sequence of each register: {} or a singleton
  Hold,             \* registers built with holdValue
  Instruments,      \* registers that capture instrument data, not their own content
  NChannels,        \* channels, over all access interfaces, in visiting order
  Channel,          \* the channel each register is on
  ActivePaths,      \* the sets of registers that can be active on one channel
  WriteRequests,    \* <<t, r, v>>: thread t may call iWrite(r, v)
  ReadRequests,     \* <<t, r, V>>: thread t may call iRead(r), accepting the values V
  RefreshRequests,  \* <<t, r>>: thread t may call iRefresh(r)
  RootThreads,      \* threads whose reference node is the root of the model
  WaitFullPending,  \* the manager option m_waitFullPending
  MayFail,          \* TRUE when a protocol callback may throw
  CounterMod,       \* modulus of the unsigned counter m_activeThreads (2^32)
  MaxWrites, MaxReads,   \* bounds: requests a thread queues per register and iApply
  MaxApplies,            \* bound: iApply calls per thread
  MaxStops, MaxResets,   \* bounds: Stop and iReset calls
  MaxStarts              \* bound: Start is called before the MaxStarts-th Stop

R == INSTANCE Register

Channels == 1..NChannels

ASSUME ConstantsAssumption ==
  /\ Zero \in Values
  /\ InitValue \in [Registers -> Values]
  /\ ResetValue \in [Registers -> SUBSET Values]
  /\ Hold \subseteq Registers /\ Instruments \subseteq Registers
  /\ NChannels \in Nat /\ Channel \in [Registers -> Channels]
  /\ ActivePaths \subseteq SUBSET Registers
  /\ RootThreads \subseteq Threads
  /\ WriteRequests \subseteq Threads \X Registers \X Values
  /\ ReadRequests \subseteq Threads \X Registers \X SUBSET Values
  /\ RefreshRequests \subseteq Threads \X Registers
  /\ WaitFullPending \in BOOLEAN /\ MayFail \in BOOLEAN
  /\ CounterMod \in Nat \ {0}
  /\ {MaxWrites, MaxReads, MaxApplies, MaxStops, MaxResets, MaxStarts} \subseteq Nat

VARIABLES
  \* one application thread (the wrapper of CreateApplicationThread, struct ApplicationData)
  app,                  \* where the thread is
  seen,                 \* the m_activeThreads it has read and not yet written back
  canProceed, queuedWrites, queuedReads, queuedRefreshes, pendingRegistersIds,
  caughtException,      \* threads whose functor ended with an exception
  applies,              \* iApply calls made (bound)
  \* shared by the threads
  threadToAppData,      \* m_threadToAppData: the threads that have application data
  appStarted, activeThreads, regIdToAppData, pendingThreads,
  \* the background thread
  loop,                 \* where LoopOnDataCycle is; "off" when not joinable
  runLoop, killAllThreads,
  todo,                 \* pending channels the running data cycle has not visited
  active, toSut,        \* active registers and vector of the shift under way
  \* the thread that owns the manager
  main, creating, applicationsExceptions, stops, resets,
  \* the SUT model and the SUT itself
  reg, sut,
  \* history, for the properties only
  owed,                 \* registers requested by a thread and not shifted since
  wrote                 \* last values a thread has written in its current iApply

appVars   == <<app, seen, caughtException, applies>>
queueVars == <<queuedWrites, queuedReads, queuedRefreshes>>
pendVars  == <<canProceed, pendingRegistersIds, regIdToAppData, pendingThreads>>
lifeVars  == <<threadToAppData, appStarted, main, creating, applicationsExceptions, stops>>
flagVars  == <<runLoop, killAllThreads>>
cycleVars == <<todo, active, toSut>>
sutVars   == <<reg, sut, resets>>
histVars  == <<owed, wrote>>
vars == <<appVars, queueVars, pendVars, lifeVars, activeThreads, loop, flagVars,
          cycleVars, sutVars, histVars>>

AppStates  == {"none", "spawned", "waiting", "starting", "running", "applying",
               "blocked", "ending", "done", "killed"}
LoopStates == {"off", "loop", "cycle", "toSut", "serve", "release", "wait", "ended"}
MainStates == {"idle", "creating", "stopping", "joining"}

Init ==
  /\ app = [t \in Threads |-> "none"] /\ seen = [t \in Threads |-> 0]
  /\ canProceed = [t \in Threads |-> FALSE]
  /\ queuedWrites = [t \in Threads |-> [r \in Registers |-> <<>>]]
  /\ queuedReads  = [t \in Threads |-> [r \in Registers |-> <<>>]]
  /\ queuedRefreshes = [t \in Threads |-> {}]
  /\ pendingRegistersIds = [t \in Threads |-> {}]
  /\ caughtException = {} /\ applies = [t \in Threads |-> 0]
  /\ threadToAppData = {} /\ appStarted = FALSE /\ activeThreads = 0
  /\ regIdToAppData = {} /\ pendingThreads = {}
  /\ loop = "off" /\ runLoop = FALSE /\ killAllThreads = FALSE
  /\ todo = {} /\ active = {} /\ toSut = InitValue
  /\ main = "idle" /\ creating = {} /\ applicationsExceptions = {}
  /\ stops = 0 /\ resets = 0
  /\ reg = [r \in Registers |-> R!NewRegister(InitValue[r], Zero)]
  /\ sut = InitValue
  /\ owed = [t \in Threads |-> {}] /\ wrote = [t \in Threads |-> {}]

\* m_dataMutex: an application thread takes it for one step at a time; the
\* background thread keeps it from the configuration of a cycle to its end.
DataMutexFree == loop \notin {"toSut", "serve", "release"}

-------------------------------------------------------------------------------
(* Application threads: creation, start and end *)

\* CreateApplicationThread up to the creation of the std::thread ...
SpawnApplication(t) ==
  /\ main = "idle" /\ app[t] = "none"
  /\ app' = [app EXCEPT ![t] = "spawned"]
  /\ main' = "creating" /\ creating' = {t}
  /\ UNCHANGED <<seen, caughtException, applies, queueVars, pendVars, threadToAppData,
                 appStarted, applicationsExceptions, stops, activeThreads, loop, flagVars,
                 cycleVars, sutVars, histVars>>

\* ... its wrapper reports that it runs (m_threadStarted) and waits for the start signal ...
WrapperStarted(t) ==
  /\ app[t] = "spawned"
  /\ app' = [app EXCEPT ![t] = "waiting"]
  /\ UNCHANGED <<seen, caughtException, applies, queueVars, pendVars, lifeVars,
                 activeThreads, loop, flagVars, cycleVars, sutVars, histVars>>

\* ... and the creator, having seen the report, records the application data.
InsertAppData(t) ==
  /\ main = "creating" /\ t \in creating /\ app[t] # "spawned"
  /\ threadToAppData' = threadToAppData \cup {t}
  /\ main' = "idle" /\ creating' = {}
  /\ UNCHANGED <<appVars, queueVars, pendVars, appStarted, applicationsExceptions, stops,
                 activeThreads, loop, flagVars, cycleVars, sutVars, histVars>>

\* The wrapper passes the start signal and counts itself: m_activeThreads++
\* is a plain read followed by a plain write.
ApplicationStart(t) ==
  /\ app[t] = "waiting" /\ appStarted
  /\ app' = [app EXCEPT ![t] = "starting"]
  /\ seen' = [seen EXCEPT ![t] = activeThreads]
  /\ UNCHANGED <<caughtException, applies, queueVars, pendVars, lifeVars, activeThreads,
                 loop, flagVars, cycleVars, sutVars, histVars>>

ApplicationCounted(t) ==
  /\ app[t] = "starting"
  /\ app' = [app EXCEPT ![t] = "running"]
  /\ activeThreads' = (seen[t] + 1) % CounterMod
  /\ seen' = [seen EXCEPT ![t] = 0]
  /\ UNCHANGED <<caughtException, applies, queueVars, pendVars, lifeVars, loop, flagVars,
                 cycleVars, sutVars, histVars>>

\* The functor returns or throws.  A PDL call of a thread without application
\* data always throws, so such a thread can only take the second way.
ApplicationEnd(t) ==
  /\ app[t] = "running"
  /\ app' = [app EXCEPT ![t] = "ending"]
  /\ seen' = [seen EXCEPT ![t] = activeThreads]
  /\ \/ UNCHANGED caughtException
     \/ caughtException' = caughtException \cup {t}
  /\ UNCHANGED <<applies, queueVars, pendVars, lifeVars, activeThreads, loop, flagVars,
                 cycleVars, sutVars, histVars>>

\* Mutant: the decrement without the wrap-around of an unsigned counter.
ApplicationUncountedSigned(t) ==
  /\ app[t] = "ending"
  /\ app' = [app EXCEPT ![t] = "done"]
  /\ activeThreads' = seen[t] - 1
  /\ seen' = [seen EXCEPT ![t] = 0]
  /\ UNCHANGED <<caughtException, applies, queueVars, pendVars, lifeVars, loop, flagVars,
                 cycleVars, sutVars, histVars>>

ApplicationUncounted(t) ==
  /\ app[t] = "ending"
  /\ app' = [app EXCEPT ![t] = "done"]
  /\ activeThreads' = IF seen[t] = 0 THEN CounterMod - 1 ELSE seen[t] - 1
  /\ seen' = [seen EXCEPT ![t] = 0]
  /\ UNCHANGED <<caughtException, applies, queueVars, pendVars, lifeVars, loop, flagVars,
                 cycleVars, sutVars, histVars>>

-------------------------------------------------------------------------------
(* PDL requests of an application thread *)

\* PathResolver and ThreadApplicationData throw for any other thread.
CanCallPDL(t) ==
  /\ app[t] = "running" /\ t \in threadToAppData
  /\ applies[t] < MaxApplies

iWrite(t, r, v) ==
  /\ CanCallPDL(t) /\ Len(queuedWrites[t][r]) < MaxWrites
  /\ queuedWrites' = [queuedWrites EXCEPT ![t][r] = Append(@, v)]
  /\ UNCHANGED <<appVars, queuedReads, queuedRefreshes, pendVars, lifeVars, activeThreads,
                 loop, flagVars, cycleVars, sutVars, histVars>>

iRead(t, r, accepted) ==
  /\ CanCallPDL(t) /\ Len(queuedReads[t][r]) < MaxReads
  /\ queuedReads' = [queuedReads EXCEPT ![t][r] = Append(@, accepted)]
  /\ UNCHANGED <<appVars, queuedWrites, queuedRefreshes, pendVars, lifeVars, activeThreads,
                 loop, flagVars, cycleVars, sutVars, histVars>>

iRefresh(t, r) ==
  /\ CanCallPDL(t) /\ r \notin queuedRefreshes[t]
  /\ queuedRefreshes' = [queuedRefreshes EXCEPT ![t] = @ \cup {r}]
  /\ UNCHANGED <<appVars, queuedWrites, queuedReads, pendVars, lifeVars, activeThreads,
                 loop, flagVars, cycleVars, sutVars, histVars>>

\* The register after the requests thread t has queued for it: all writes in
\* order, then refreshes, then reads.
AfterQueuedRequests(t, r) ==
  LET writes    == queuedWrites[t][r]
      reads     == queuedReads[t][r]
      written   == IF writes = <<>> THEN reg[r]
                   ELSE R!SetToSut(reg[r], writes[Len(writes)], r \in Hold)
      refreshed == IF r \in queuedRefreshes[t] THEN R!SetPendingForRead(written)
                   ELSE written
  IN  IF reads = <<>> THEN refreshed
      ELSE R!SetPendingForRead(R!SetCheckExpected(
             R!SetExpectedFromSut(refreshed, reads[Len(reads)]), TRUE))

\* Mutant: a write is compared with the value about to be sent, not the last one sent.
RequestedAgainstNext(t) ==
  { r \in Registers :
      \/ \E i \in DOMAIN queuedWrites[t][r] : queuedWrites[t][r][i] # reg[r].next
      \/ r \in queuedRefreshes[t]
      \/ queuedReads[t][r] # <<>> }

\* Mutant: the thread is not registered for the registers it reads.
RequestedWithoutReads(t) ==
  { r \in Registers :
      \/ \E i \in DOMAIN queuedWrites[t][r] : queuedWrites[t][r][i] # reg[r].last
      \/ r \in queuedRefreshes[t] }

\* The registers for which ProcessQueuedRequests calls RegisterPendingThread:
\* a write counts when, right after it, the value differs from the last one sent.
Requested(t) ==
  { r \in Registers :
      \/ \E i \in DOMAIN queuedWrites[t][r] : queuedWrites[t][r][i] # reg[r].last
      \/ r \in queuedRefreshes[t]
      \/ queuedReads[t][r] # <<>> }

RegisterPendingThread(t, regs) ==
  /\ pendingRegistersIds' = [pendingRegistersIds EXCEPT ![t] = @ \cup regs]
  /\ regIdToAppData' = regIdToAppData
                         \cup {<<r, t>> : r \in regs \ pendingRegistersIds[t]}
  /\ canProceed' = [canProceed EXCEPT ![t] = @ /\ regs = {}]

\* Last value of each register written by the requests thread t has queued.
FinalWrites(t) ==
  { <<r, queuedWrites[t][r][Len(queuedWrites[t][r])]>> :
      r \in {q \in Registers : queuedWrites[t][q] # <<>>} }

\* iApply, first critical section: ProcessQueuedRequests.
iApply(t) ==
  /\ CanCallPDL(t) /\ DataMutexFree
  /\ app' = [app EXCEPT ![t] = "applying"]
  /\ applies' = [applies EXCEPT ![t] = @ + 1]
  /\ reg' = [r \in Registers |-> AfterQueuedRequests(t, r)]
  /\ RegisterPendingThread(t, Requested(t))
  /\ queuedWrites' = [queuedWrites EXCEPT ![t] = [r \in Registers |-> <<>>]]
  /\ queuedReads'  = [queuedReads EXCEPT ![t] = [r \in Registers |-> <<>>]]
  /\ queuedRefreshes' = [queuedRefreshes EXCEPT ![t] = {}]
  /\ owed'  = [owed EXCEPT ![t] = @ \cup Requested(t)]
  /\ wrote' = [u \in Threads |->
                 IF u = t THEN FinalWrites(t)
                 ELSE {w \in wrote[u] : queuedWrites[t][w[1]] = <<>>}]
  /\ UNCHANGED <<seen, caughtException, pendingThreads, lifeVars, activeThreads, loop,
                 flagVars, cycleVars, sut, resets>>

\* iApply, second critical section: the thread reports itself pending.
iApplyPend(t) ==
  /\ app[t] = "applying" /\ DataMutexFree
  /\ app' = [app EXCEPT ![t] = "blocked"]
  /\ canProceed' = [canProceed EXCEPT ![t] = FALSE]
  /\ pendingThreads' = pendingThreads \cup {t}
  /\ UNCHANGED <<seen, caughtException, applies, queueVars, pendingRegistersIds,
                 regIdToAppData, lifeVars, activeThreads, loop, flagVars, cycleVars,
                 sutVars, histVars>>

\* iApply returns, or pthread_exit ends the thread.  The wait polls its
\* predicate with a timeout, so no notification is needed.
iApplyReturn(t) ==
  /\ app[t] = "blocked" /\ (canProceed[t] \/ ~runLoop)
  /\ app' = [app EXCEPT ![t] = IF killAllThreads THEN "killed" ELSE "running"]
  /\ wrote' = [wrote EXCEPT ![t] = {}]
  /\ UNCHANGED <<seen, caughtException, applies, queueVars, pendVars, lifeVars,
                 activeThreads, loop, flagVars, cycleVars, sutVars, owed>>

\* iReset, by the owner of the manager or an application on the root node.
\* It takes no mutex.  ResetPending on the parent nodes clears the pending
\* channels of a cycle under way; DoReset resets the SUT.
iReset ==
  /\ resets < MaxResets
  /\ main = "idle" \/ \E t \in RootThreads : app[t] = "running" /\ t \in threadToAppData
  /\ resets' = resets + 1
  /\ reg' = [r \in Registers |-> R!Reset(reg[r], ResetValue[r])]
  /\ sut' = [r \in Registers |-> IF ResetValue[r] = {} THEN sut[r]
                                 ELSE CHOOSE v \in ResetValue[r] : TRUE]
  /\ todo' = {}
  /\ wrote' = [t \in Threads |-> {}]
  /\ UNCHANGED <<appVars, queueVars, pendVars, lifeVars, activeThreads, loop, flagVars,
                 active, toSut, owed>>

-------------------------------------------------------------------------------
(* The background thread *)

\* The catch clauses of the background thread: the loop is over, the mutex is
\* unlocked by unwinding, and after a std::exception every application thread
\* is to be killed.
AbortLoop(stdException) ==
  /\ killAllThreads' = (killAllThreads \/ stdException)
  /\ runLoop' = FALSE
  /\ loop' = "ended"
  /\ todo' = {}

\* Mutant: every pending thread is released, served or not.
ReleaseAllThreads(pend, next) ==
  /\ canProceed' = [t \in Threads |-> canProceed[t] \/ t \in pendingThreads]
  /\ pendingThreads' = {}
  /\ loop' = next
  /\ UNCHANGED <<flagVars, todo>>

\* Mutant: the threads not served yet are erased from the pending threads too.
ReleaseForgetsThreads(pend, next) ==
  /\ canProceed' = [t \in Threads |->
                      canProceed[t] \/ (t \in pendingThreads /\ pend[t] = {})]
  /\ pendingThreads' = {}
  /\ loop' = next
  /\ UNCHANGED <<flagVars, todo>>

\* Releases the pending threads that have no pending register in pend, then
\* goes on at state next of the loop.  The lookup of a thread that has no
\* application data any more throws, with some of the threads released.
ReleaseServedThreads(pend, next) ==
  LET served == {t \in pendingThreads : pend[t] = {}}
      Release(S) == /\ canProceed' = [t \in Threads |-> canProceed[t] \/ t \in S]
                    /\ pendingThreads' = pendingThreads \ S
  IN  \/ /\ pendingThreads \subseteq threadToAppData
         /\ Release(served)
         /\ loop' = next
         /\ UNCHANGED <<flagVars, todo>>
      \/ /\ ~(pendingThreads \subseteq threadToAppData)
         /\ \E S \in SUBSET (served \cap threadToAppData) : Release(S)
         /\ AbortLoop(TRUE)

\* Mutant: the entries of the served registers stay in the multimap.
ReportKeepsEntries(regs) ==
  /\ pendingRegistersIds' = [t \in Threads |->
        pendingRegistersIds[t] \ {r \in regs : <<r, t>> \in regIdToAppData}]
  /\ UNCHANGED regIdToAppData

ReportServedRegisters(regs) ==
  /\ pendingRegistersIds' = [t \in Threads |->
        pendingRegistersIds[t] \ {r \in regs : <<r, t>> \in regIdToAppData}]
  /\ regIdToAppData' = {p \in regIdToAppData : p[1] \notin regs}

NeedDataCycle ==
  IF WaitFullPending THEN Cardinality(pendingThreads) = activeThreads
                     ELSE pendingThreads # {}

\* Mutant: the loop does not look at m_runLoop when threads are pending.
LoopTestPendingFirst ==
  /\ loop = "loop"
  /\ loop' = IF NeedDataCycle THEN "cycle" ELSE IF ~runLoop THEN "ended" ELSE "wait"
  /\ UNCHANGED <<appVars, queueVars, pendVars, lifeVars, activeThreads, flagVars,
                 cycleVars, sutVars, histVars>>

\* LoopOnDataCycle: the test of the loop and of needDataCycle.
LoopTest ==
  /\ loop = "loop"
  /\ loop' = IF ~runLoop THEN "ended" ELSE IF NeedDataCycle THEN "cycle" ELSE "wait"
  /\ UNCHANGED <<appVars, queueVars, pendVars, lifeVars, activeThreads, flagVars,
                 cycleVars, sutVars, histVars>>

\* DoDataCycles_Impl: lock, configure, propagate; go on with the pending
\* channels, those of pending registers and those of pending selectors.
Configure(selectors) ==
  /\ loop = "cycle"
  /\ reg' = [r \in Registers |-> R!MarkPendingWrite(reg[r])]
  /\ todo' = selectors \cup {Channel[r] : r \in {q \in Registers : R!IsPending(reg'[q])}}
  /\ loop' = IF todo' = {} THEN "release" ELSE "toSut"
  /\ UNCHANGED <<appVars, queueVars, pendVars, lifeVars, activeThreads, flagVars,
                 active, toSut, sut, resets, histVars>>

\* DoHierarchicalDataCycle on the next pending channel, up to the vector to shift.
BuildToSut(regs) ==
  /\ loop = "toSut"
  /\ \E c \in todo :
       /\ \A d \in todo : c <= d
       /\ \A r \in regs : Channel[r] = c
       /\ todo' = todo \ {c}
  /\ regs \in ActivePaths
  /\ active' = regs
  /\ toSut' = [r \in Registers |-> IF r \in regs THEN R!ToSutBits(reg[r]) ELSE InitValue[r]]
  /\ loop' = IF regs = {} THEN "toSut" ELSE "serve"
  /\ UNCHANGED <<appVars, queueVars, pendVars, lifeVars, activeThreads, flagVars,
                 sutVars, histVars>>

\* The SUT takes the vector in.
Shift == sut' = [r \in Registers |-> IF r \in active THEN toSut[r] ELSE sut[r]]

\* What the active registers put on the vector shifted out.
Captures == { c \in [Registers -> Values] :
                \A r \in Registers \ (active \cap Instruments) : c[r] = sut[r] }

\* The callback succeeds: update the registers, report them, release the served threads.
Serve ==
  /\ loop = "serve"
  /\ Shift
  /\ \E c \in Captures :
       reg' = [r \in Registers |-> IF r \in active THEN R!UpdateRegister(reg[r], c[r])
                                   ELSE reg[r]]
  /\ ReportServedRegisters(active)
  /\ ReleaseServedThreads(pendingRegistersIds', "toSut")
  /\ owed' = [t \in Threads |-> owed[t] \ active]
  /\ active' = {} /\ toSut' = InitValue
  /\ UNCHANGED <<appVars, queueVars, lifeVars, activeThreads, resets, wrote>>

\* The callback, or the update of the registers after some of them, throws.
ServeFails(updated) ==
  /\ MayFail /\ loop = "serve" /\ updated \subseteq active
  /\ Shift \/ (updated = {} /\ UNCHANGED sut)
  /\ \E c \in Captures :
       reg' = [r \in Registers |-> IF r \in updated THEN R!UpdateRegister(reg[r], c[r])
                                   ELSE reg[r]]
  /\ \E stdException \in BOOLEAN : AbortLoop(stdException)
  /\ active' = {} /\ toSut' = InitValue
  /\ UNCHANGED <<appVars, queueVars, pendVars, lifeVars, activeThreads, resets, histVars>>

\* No channel left: unlock, sleep, and configure again.
CycleEnd ==
  /\ loop = "toSut" /\ todo = {}
  /\ loop' = "cycle" /\ active' = {} /\ toSut' = InitValue
  /\ UNCHANGED <<appVars, queueVars, pendVars, lifeVars, activeThreads, flagVars,
                 todo, sutVars, histVars>>

\* Mutant: threads are released by data cycles only.
NoLastRelease ==
  /\ loop = "release"
  /\ loop' = "wait"
  /\ UNCHANGED <<appVars, queueVars, pendVars, lifeVars, activeThreads, flagVars,
                 cycleVars, sutVars, histVars>>

\* Nothing is pending any more: the last release, still under the mutex.
LastRelease ==
  /\ loop = "release"
  /\ ReleaseServedThreads(pendingRegistersIds, "wait")
  /\ UNCHANGED <<appVars, queueVars, pendingRegistersIds, regIdToAppData, lifeVars,
                 activeThreads, active, toSut, sutVars, histVars>>

\* The wait of the loop ends by notification or by its timeout.
LoopWaitEnd ==
  /\ loop = "wait" /\ loop' = "loop"
  /\ UNCHANGED <<appVars, queueVars, pendVars, lifeVars, activeThreads, flagVars,
                 cycleVars, sutVars, histVars>>

-------------------------------------------------------------------------------
(* The owner of the manager *)

\* Start throws when the background thread is still joinable.
Start ==
  /\ main = "idle" /\ loop = "off" /\ stops < MaxStarts
  /\ runLoop' = TRUE /\ loop' = "loop"
  /\ UNCHANGED <<appVars, queueVars, pendVars, lifeVars, activeThreads, killAllThreads,
                 cycleVars, sutVars, histVars>>

StartCreatedApplicationThreads ==
  /\ main = "idle"
  /\ appStarted' = TRUE
  /\ UNCHANGED <<appVars, queueVars, pendVars, threadToAppData, main, creating,
                 applicationsExceptions, stops, activeThreads, loop, flagVars, cycleVars,
                 sutVars, histVars>>

\* Stop: request, then join the background thread if there is one.
Stop ==
  /\ main = "idle" /\ stops < MaxStops
  /\ stops' = stops + 1
  /\ runLoop' = FALSE
  /\ main' = IF loop = "off" THEN "idle" ELSE "stopping"
  /\ UNCHANGED <<appVars, queueVars, pendVars, threadToAppData, appStarted, creating,
                 applicationsExceptions, activeThreads, loop, killAllThreads, cycleVars,
                 sutVars, histVars>>

StopJoin ==
  /\ main = "stopping" /\ loop = "ended"
  /\ main' = "idle" /\ loop' = "off"
  /\ UNCHANGED <<appVars, queueVars, pendVars, threadToAppData, appStarted, creating,
                 applicationsExceptions, stops, activeThreads, flagVars, cycleVars,
                 sutVars, histVars>>

\* WaitForApplicationsEnd: start what is not started, join every thread, then
\* collect the exceptions and forget the application data.
WaitForApplicationsEnd ==
  /\ main = "idle"
  /\ appStarted' = TRUE /\ main' = "joining"
  /\ UNCHANGED <<appVars, queueVars, pendVars, threadToAppData, creating,
                 applicationsExceptions, stops, activeThreads, loop, flagVars, cycleVars,
                 sutVars, histVars>>

ApplicationsJoined ==
  /\ main = "joining"
  /\ \A t \in threadToAppData : app[t] \in {"done", "killed"}
  /\ applicationsExceptions' = applicationsExceptions \cup (caughtException \cap threadToAppData)
  /\ threadToAppData' = {} /\ main' = "idle"
  /\ UNCHANGED <<appVars, queueVars, pendVars, appStarted, creating, stops, activeThreads,
                 loop, flagVars, cycleVars, sutVars, histVars>>

-------------------------------------------------------------------------------
ManagerStep ==
  \/ LoopTest \/ LoopWaitEnd \/ LastRelease \/ Serve \/ CycleEnd
  \/ \E selectors \in SUBSET Channels : Configure(selectors)
  \/ \E regs \in ActivePaths : BuildToSut(regs)
  \/ \E updated \in SUBSET active : ServeFails(updated)

ApplicationStep(t) ==
  \/ WrapperStarted(t) \/ ApplicationStart(t) \/ ApplicationCounted(t)
  \/ ApplicationEnd(t) \/ ApplicationUncounted(t)
  \/ iApply(t) \/ iApplyPend(t) \/ iApplyReturn(t)

Request ==
  \/ \E q \in WriteRequests : iWrite(q[1], q[2], q[3])
  \/ \E q \in ReadRequests : iRead(q[1], q[2], q[3])
  \/ \E q \in RefreshRequests : iRefresh(q[1], q[2])

OwnerStep ==
  \/ \E t \in Threads : SpawnApplication(t) \/ InsertAppData(t)
  \/ Start \/ StartCreatedApplicationThreads \/ Stop \/ StopJoin
  \/ WaitForApplicationsEnd \/ ApplicationsJoined

Next ==
  \/ ManagerStep
  \/ \E t \in Threads : ApplicationStep(t)
  \/ Request
  \/ OwnerStep
  \/ iReset

Spec == Init /\ [][Next]_vars

\* The background thread and the threads inside iApply are scheduled; the
\* owner joins a thread that has ended.  The two strong conditions are what
\* the retargeting gives the manager: it brings every register of a pending
\* channel onto the active path again and again, and it stops asking for
\* cycles of its own.
Fairness ==
  /\ WF_vars(ManagerStep)
  /\ \A t \in Threads : WF_vars(iApplyPend(t)) /\ WF_vars(iApplyReturn(t))
  /\ WF_vars(StopJoin)
  /\ SF_vars(Configure({}))
  /\ \A r \in Registers :
       SF_vars(\E regs \in {a \in ActivePaths : r \in a} : BuildToSut(regs))

FairSpec == Spec /\ Fairness

-------------------------------------------------------------------------------
(* Properties *)

\* Every variable has the type the code declares; the model adds nothing to it.
TypeOK ==
  /\ app \in [Threads -> AppStates] /\ seen \in [Threads -> Nat]
  /\ canProceed \in [Threads -> BOOLEAN]
  /\ queuedWrites \in [Threads -> [Registers -> Seq(Values)]]
  /\ queuedReads \in [Threads -> [Registers -> Seq(SUBSET Values)]]
  /\ queuedRefreshes \in [Threads -> SUBSET Registers]
  /\ pendingRegistersIds \in [Threads -> SUBSET Registers]
  /\ caughtException \subseteq Threads /\ applies \in [Threads -> Nat]
  /\ threadToAppData \subseteq Threads /\ appStarted \in BOOLEAN
  /\ activeThreads \in Nat
  /\ regIdToAppData \subseteq Registers \X Threads
  /\ pendingThreads \subseteq Threads
  /\ loop \in LoopStates /\ runLoop \in BOOLEAN /\ killAllThreads \in BOOLEAN
  /\ todo \subseteq Channels /\ active \subseteq Registers
  /\ toSut \in [Registers -> Values]
  /\ main \in MainStates /\ creating \subseteq Threads
  /\ applicationsExceptions \subseteq Threads
  /\ stops \in Nat /\ resets \in Nat
  /\ reg \in [Registers -> R!RegisterType] /\ sut \in [Registers -> Values]
  /\ owed \in [Threads -> SUBSET Registers]
  /\ wrote \in [Threads -> SUBSET (Registers \X Values)]

\* m_regIdToAppData and the pendingRegistersIds of the threads are two views
\* of one relation.  ReportServedRegisters finds the threads to relieve in the
\* first, ReleaseServedThreads and RegisterPendingThread decide on the second:
\* an entry missing on one side blocks a thread for ever or serves it too early.
PendingIdsMatchMultimap ==
  \A t \in Threads, r \in Registers :
    r \in pendingRegistersIds[t] <=> <<r, t>> \in regIdToAppData

\* A thread blocked in iApply and not allowed to proceed is known to the data
\* cycle loop, whatever served, released or stopped it between the two
\* critical sections of iApply.
BlockedThreadIsPending ==
  \A t \in Threads :
    app[t] = "blocked" /\ ~canProceed[t] => t \in pendingThreads

\* The model is ahead of the SUT, or expects an answer from it, only on behalf
\* of a thread that will wait for it in iApply: no request is left behind by
\* the thread that made it, and the loop never runs cycles for nobody.
NoOrphanRequest ==
  \A r \in Registers :
    reg[r].next # reg[r].last \/ reg[r].pendingRead \/ reg[r].mustCheck
      => \E t \in Threads : r \in pendingRegistersIds[t]

\* m_lastToSut "stores the status of the SUT": except while a shift is under
\* way, the last value sent to a register, by which a write is judged
\* necessary or not, is the content of the register.
LastToSutIsInSut ==
  loop # "serve" => \A r \in Registers : reg[r].last = sut[r]

\* iApply "wait[s] for all its pending registers being served": while the loop
\* runs it returns only after each register it asked for has been shifted at
\* least once after the request.
ApplyReturnsServed ==
  [][\A t \in Threads :
       app[t] = "blocked" /\ app'[t] = "running" /\ runLoop => owed[t] = {}]_vars

\* The values a thread has written, and nobody has overwritten or reset since,
\* are in the SUT when its iApply returns.  In particular a write that is not
\* sent because it equals m_lastToSut was not needed.
ApplyReturnsWritten ==
  [][\A t \in Threads :
       app[t] = "blocked" /\ app'[t] = "running" /\ runLoop
         => \A w \in wrote[t] : sut[w[1]] = w[2]]_vars

\* iApply always returns: the registers are served, or the loop has stopped
\* and lets the thread go.
iApplyTerminates ==
  \A t \in Threads :
    app[t] \in {"applying", "blocked"} ~> app[t] \notin {"applying", "blocked"}

\* Stop returns: the background thread always gets out of its data cycles.
StopTerminates == main = "stopping" ~> main = "idle"
===============================================================================
