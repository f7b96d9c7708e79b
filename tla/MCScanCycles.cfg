\* All configuration algorithms on all kinds of networks and selectors.
SPECIFICATION FairSpec
CONSTANTS
  Networks <- MCNetworks
  Algorithms = {"none", "last_or_default", "last_or_default_greedy", "last_lazy", "close_all"}
  Width = 2
  MaxRequests = 3
INVARIANT ModelKnowsSutPath
PROPERTIES EndWithAllWritten EndWithPathsClosed ImplementsDataCycles
CHECK_DEADLOCK FALSE
