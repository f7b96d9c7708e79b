\* A translated access interface beside a translator, with every call of the manager.
SPECIFICATION FairSpec
CONSTANTS
  top = top
  t1 = t1
  a1 = a1
  a2 = a2
  AccessInterfaces = {a1, a2}
  Translators = {top, t1}
  Root = top
  Children <- MCChildren
  Below <- MCBelow
  VisitOrder <- MCOrder
  Kind <- MCKind
  NChannels = 2
  RunLoops <- MCRunLoops
  MayThrow = {a2}
  MaxShifts = 1
  MaxApplies = 2
  MaxStarts = 1
  MaxStops = 1
  MaxResets = 1
  MaxDirectCalls = 1
INVARIANTS OneInterfaceAtATime NothingLeftOver
PROPERTIES AnswersAreOwn ExecutedOnce PendingServed
CHECK_DEADLOCK FALSE
