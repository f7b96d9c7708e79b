\* Two threads share a register; all interleavings of iApply and data cycles.
SPECIFICATION ServiceSpec
CONSTANTS
  t1 = t1
  t2 = t2
  r1 = r1
  r2 = r2
  Threads = {t1, t2}
  Registers = {r1, r2}
  Values = {0, 1}
  Zero = 0
  InitValue <- MCInitValue
  ResetValue <- MCResetValue
  Hold = {r1, r2}
  Instruments = {}
  NChannels = 2
  Channel <- TwoChannels
  ActivePaths <- AllPaths
  WriteRequests <- SharedWrites
  ReadRequests <- ReadFirst
  RefreshRequests <- OneRefresh
  RootThreads = {}
  WaitFullPending = FALSE
  MayFail = FALSE
  CounterMod = 16
  MaxWrites = 2
  MaxReads = 1
  MaxApplies = 2
  MaxStarts = 1
  MaxStops = 0
  MaxResets = 0
INVARIANTS PendingIdsMatchMultimap NoOrphanRequest LastToSutIsInSut
PROPERTY ApplyReturnsWritten
