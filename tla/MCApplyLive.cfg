\* Every iApply returns, served or after a failing protocol callback.
SPECIFICATION FairServiceSpec
CONSTANTS
  t1 = t1
  t2 = t2
  r1 = r1
  r2 = r2
  Threads = {t1, t2}
  Registers = {r1, r2}
  Values = {0, 1}
  Zero = 0
  InitValue <- MCInitValue
  ResetValue <- MCResetValue
  Hold = {r1, r2}
  Instruments = {}
  NChannels = 2
  Channel <- TwoChannels
  ActivePaths <- OneAtATime
  WriteRequests <- OwnWrites
  ReadRequests <- NoRequests
  RefreshRequests <- OneRefresh
  RootThreads = {}
  WaitFullPending = FALSE
  MayFail = TRUE
  CounterMod = 16
  MaxWrites = 1
  MaxReads = 1
  MaxApplies = 2
  MaxStarts = 1
  MaxStops = 0
  MaxResets = 0
PROPERTIES iApplyTerminates
CHECK_DEADLOCK FALSE
