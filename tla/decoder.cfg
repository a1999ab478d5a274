SPECIFICATION Spec
CONSTANTS
  LowParts <- MCLowParts
  Stacks <- MCStacks
INVARIANTS DocumentedDecoded OperandsDecoded NullOnlyWhenEmpty ReadsSetFields RegisterNumbers
CHECK_DEADLOCK FALSE
