SPECIFICATION Spec
CONSTANTS
  ByteBits <- MCByteBits
  BYTE <- MCBYTE
  ByteAnd <- MCByteAnd
  ByteOr <- MCByteOr
  ByteXor <- MCByteXor
  MEM_REGIONS <- MCRegions
  Bytecode <- MCBytecode
  Garbage <- MCGarbage
  StrayValues <- MCStray
  Programs <- OnlyArithmetic
  SlackBytes = {3}
  InputRegs = {1}
  InputValues = {0, 48, 49, 65535}
  RunSizes <- MCRunSizes
INVARIANT XZRIsZero
CHECK_DEADLOCK FALSE
