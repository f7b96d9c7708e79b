\* All trees of six nodes and aliases; a resolver, with a path in each cache, on those of three.
SPECIFICATION ResolverSpec
CONSTANTS
  Names = {"a", "unnamed"}
  NoName = "unnamed"
  MaxNodes = 6
  MaxPath = 3
  MaxAliases = 2
  MaxCached = 1
  MaxResolved = 3
INVARIANTS FindNodeRight FindRegisterRight SearchesAgree CachesFresh
CHECK_DEADLOCK FALSE
