SPECIFICATION Spec
CONSTANTS
  LowParts <- MCLowParts
  Stacks <- MCStacks
INVARIANT CBNZFromBytecode
CHECK_DEADLOCK FALSE
