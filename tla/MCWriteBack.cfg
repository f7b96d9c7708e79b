\* A register written and written back within one iApply.
SPECIFICATION FairServiceSpec
CONSTANTS
  t1 = t1
  t2 = t2
  r1 = r1
  r2 = r2
  Threads = {t1}
  Registers = {r1}
  Values = {0, 1}
  Zero = 0
  InitValue <- MCInitValue
  ResetValue <- MCResetValue
  Hold = {r1}
  Instruments = {}
  NChannels = 1
  Channel <- OneChannel
  ActivePaths <- OneAtATime
  WriteRequests <- OneWriter
  ReadRequests <- NoRequests
  RefreshRequests <- NoRequests
  RootThreads = {}
  WaitFullPending = FALSE
  MayFail = FALSE
  CounterMod = 16
  MaxWrites = 2
  MaxReads = 1
  MaxApplies = 1
  MaxStarts = 1
  MaxStops = 0
  MaxResets = 0
PROPERTIES iApplyTerminates
