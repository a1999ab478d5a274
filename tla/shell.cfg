SPECIFICATION FairSpec
CONSTANTS
  ByteBits <- MCByteBits
  BYTE <- MCBYTE
  ByteAnd <- MCByteAnd
  ByteOr <- MCByteOr
  ByteXor <- MCByteXor
  MEM_REGIONS <- MCRegions
  Bytecode <- MCBytecode
  Garbage <- MCGarbage
  StrayValues <- MCStray
  Programs <- Everything
  SlackBytes = {3}
  InputRegs = {1}
  InputValues = {0, 48, 49, 65535}
  RunSizes <- MCRunSizes
INVARIANTS TypeOK DoubleBuffer PCAligned FlagsExclusive BetweenCycles
PROPERTIES HaltFreezes StoreFootprint RunReturns RunAdvances
CHECK_DEADLOCK FALSE
