------------------------ MODULE MCSystemModelManager ------------------------
(***************************************************************************)
(* Small instances of SystemModelManager for TLC.                           *)
(***************************************************************************)
EXTENDS SystemModelManager, TLC

CONSTANTS t1, t2, r1, r2

MCInitValue   == [r \in Registers |-> 0]
MCResetValue  == [r \in Registers |-> {0}]
OneChannel    == [r \in Registers |-> 1]
TwoChannels   == [r \in Registers |-> IF r = r1 THEN 1 ELSE 2]
AllPaths      == SUBSET Registers
OneAtATime    == {{r} : r \in Registers}

\* Each thread writes a register of its own.
OwnWrites     == {<<t1, r1, 0>>, <<t1, r1, 1>>, <<t2, r2, 0>>, <<t2, r2, 1>>}
\* Both threads write the first register; the second thread also the other one.
SharedWrites  == {<<t1, r1, 0>>, <<t1, r1, 1>>, <<t2, r1, 1>>, <<t2, r2, 1>>}
\* One writer of one register.
OneWriter     == {<<t1, r1, 0>>, <<t1, r1, 1>>}
NoRequests    == {}
\* The second thread refreshes or reads the first register.
OneRefresh    == {<<t2, r1>>}
ReadFirst     == {<<t2, r1, {1}>>}

\* A manager in service: the owner has created every application thread, has
\* started the loop and the threads, and makes no further call.
InService ==
  /\ app = [t \in Threads |-> "running"] /\ seen = [t \in Threads |-> 0]
  /\ canProceed = [t \in Threads |-> FALSE]
  /\ queuedWrites = [t \in Threads |-> [r \in Registers |-> <<>>]]
  /\ queuedReads  = [t \in Threads |-> [r \in Registers |-> <<>>]]
  /\ queuedRefreshes = [t \in Threads |-> {}]
  /\ pendingRegistersIds = [t \in Threads |-> {}]
  /\ caughtException = {} /\ applies = [t \in Threads |-> 0]
  /\ threadToAppData = Threads /\ appStarted = TRUE
  /\ activeThreads = Cardinality(Threads)
  /\ regIdToAppData = {} /\ pendingThreads = {}
  /\ loop = "loop" /\ runLoop = TRUE /\ killAllThreads = FALSE
  /\ todo = {} /\ active = {} /\ toSut = InitValue
  /\ main = "idle" /\ creating = {} /\ applicationsExceptions = {}
  /\ stops = 0 /\ resets = 0
  /\ reg = [r \in Registers |-> R!NewRegister(InitValue[r], Zero)]
  /\ sut = InitValue
  /\ owed = [t \in Threads |-> {}] /\ wrote = [t \in Threads |-> {}]

ServiceNext ==
  \/ ManagerStep
  \/ \E t \in Threads : iApply(t) \/ iApplyPend(t) \/ iApplyReturn(t)
  \/ Request
  \/ iReset

ServiceSpec == InService /\ [][ServiceNext]_vars

FairServiceSpec == ServiceSpec /\ Fairness
=============================================================================
