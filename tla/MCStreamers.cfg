\* Data cycles through streamers, with another path in every cycle.
SPECIFICATION Spec
CONSTANTS
  Registers = {"a", "b", "c"}
  Streamers = {"x", "y", "z"}
  Width <- MCWidth
  Kind <- MCKind
  Paths <- MCPaths
  LongestVector = 4
  KeyStreams <- MCKeyStreams
  ByteBits = 3
  MaxCycles = 2
INVARIANT KeystreamsInStep
PROPERTIES SutGetsPlainBits ModelReadsPlainBits
CHECK_DEADLOCK FALSE
