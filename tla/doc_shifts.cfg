SPECIFICATION Spec
CONSTANTS
  LowParts <- MCLowParts
  Stacks <- MCStacks
INVARIANT ShiftsDecoded
CHECK_DEADLOCK FALSE
