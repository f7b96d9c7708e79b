\* Creation, start, stop, restart, join and reset at any time.
SPECIFICATION FairSpec
CONSTANTS
  t1 = t1
  t2 = t2
  r1 = r1
  r2 = r2
  Threads = {t1, t2}
  Registers = {r1}
  Values = {0, 1}
  Zero = 0
  InitValue <- MCInitValue
  ResetValue <- MCResetValue
  Hold = {r1}
  Instruments = {}
  NChannels = 1
  Channel <- OneChannel
  ActivePaths <- OneAtATime
  WriteRequests <- OneWriter
  ReadRequests <- NoRequests
  RefreshRequests <- NoRequests
  RootThreads = {t1}
  WaitFullPending = TRUE
  MayFail = FALSE
  CounterMod = 16
  MaxWrites = 1
  MaxReads = 1
  MaxApplies = 1
  MaxStarts = 2
  MaxStops = 1
  MaxResets = 1
INVARIANTS TypeOK BlockedThreadIsPending
PROPERTIES ApplyReturnsServed StopTerminates
