SPECIFICATION FairSpec
CONSTANTS
  ByteBits <- MCByteBits
  BYTE <- MCBYTE
  ByteAnd <- MCByteAnd
  ByteOr <- MCByteOr
  ByteXor <- MCByteXor
  MEM_REGIONS <- MCRegions
  Bytecode <- MCBytecode
  Garbage <- MCGarbage
  StrayValues <- MCStray
  Programs <- orr_s
  SlackBytes = {3}
  InputRegs = {1}
  InputValues = {0, 48, 49, 65535}
  RunSizes <- MCRunSizes
PROPERTY GoCompletes
CHECK_DEADLOCK FALSE
