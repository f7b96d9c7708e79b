\* Callers attach only nodes that are nowhere in the tree, with their siblings.
SPECIFICATION Spec
CONSTANTS
  MaxNodes = 4
  Kinds = {"Chain", "Register"}
  AutoRoot = TRUE
  MaxOutside = 1
  MaxAppenders = 1
  MaxDisconnects = 1
PROPERTIES ImplementsNodeTree DisconnectedIsGone
CHECK_DEADLOCK FALSE
