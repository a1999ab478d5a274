SPECIFICATION MainSpec
CONSTANTS
  ByteBits <- MCByteBits
  BYTE <- MCBYTE
  ByteAnd <- MCByteAnd
  ByteOr <- MCByteOr
  ByteXor <- MCByteXor
  MEM_REGIONS <- MCRegions
  Bytecode <- MCBytecode
  Garbage <- MCGarbage
  StrayValues <- MCStray
  Programs <- NoPrograms
  SlackBytes = {3}
  InputRegs = {1}
  InputValues <- AllDwords
  RunSizes <- AllInts
  Files <- MCFiles
  OpenMax <- MCOpenMax
  Vocabulary <- MCVocabulary
  Kind <- MCKind
  Numeral <- MCNumeral
  Invocations <- StackDump
  MaxSessions = 1
PROPERTY MDumpReadsMemory
CHECK_DEADLOCK FALSE
