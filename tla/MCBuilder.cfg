\* TAPs merged and moved, SIBs and wrappers; at most three paths below a linker.
SPECIFICATION BuilderSpec
CONSTANTS
  MaxNodes = 20
  Kinds = {"AccessInterface", "AccessInterfaceTranslator", "Chain", "Linker", "Register"}
  AutoRoot = TRUE
  MaxOutside = 0
  MaxAppenders = 0
  MaxDisconnects = 0
  SelectablePaths = 3
  MaxSupportedChannels = 9
  MaxCalls = 5
  MaxTaps = 2
INVARIANTS BuiltIsForest BuiltPassesCheck VerdictRight TraversalsEnd
PROPERTY AppendsReachLinker
CHECK_DEADLOCK FALSE
