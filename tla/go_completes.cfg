SPECIFICATION FairSpec
CONSTANTS
  ByteBits <- MCByteBits
  BYTE <- MCBYTE
  ByteAnd <- MCByteAnd
  ByteOr <- MCByteOr
  ByteXor <- MCByteXor
  MEM_REGIONS <- MCRegions
  Bytecode <- MCBytecode
  Garbage <- MCGarbage
  StrayValues <- MCStray
  Programs <- Halting
  SlackBytes = {3}
  InputRegs = {1}
  InputValues = {0, 7, 65535}
  RunSizes <- MCRunSizes
PROPERTY GoCompletes
CHECK_DEADLOCK FALSE
