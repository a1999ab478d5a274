---------------------------- MODULE DecoderProofs -----------------------------
(***************************************************************************)
(* Theorems about the decoder's walk for all the values of the low 21 bits,   *)
(* of which DecoderMC has samples.                                           *)
(***************************************************************************)
EXTENDS DecoderWalk, DecoderLemmas

-----------------------------------------------------------------------------
Walk == BytecodeOK(b)

LEMMA WalkInvariant == Spec => []Walk
<1>1. Init => Walk
  BY LowPartsAssumption DEF Init, Walk, BytecodeOK
<1>2. Walk /\ [Next]_b => Walk'
  <2> SUFFICES ASSUME Walk, [Next]_b PROVE Walk'
    OBVIOUS
  <2>1. CASE Next
    BY <2>1 DEF Next, Walk, BytecodeOK
  <2>2. CASE UNCHANGED b
    BY <2>2 DEF Walk, BytecodeOK
  <2>3. QED  BY <2>1, <2>2
<1>3. QED  BY <1>1, <1>2, PTL DEF Spec

-----------------------------------------------------------------------------
LEMMA RegistersInRange ==
  ASSUME Walk
  PROVE  RegisterNumbers
BY RegisterIndexes DEF RegisterNumbers, Walk

\* Where a row is found, every register number a handler uses is that of one of
\* the 32 registers, but for the second operand of one encoding of ADD, whatever
\* the bytecode and the stack.
THEOREM RegistersInFile == Spec => []RegisterNumbers
BY WalkInvariant, RegistersInRange, PTL

LEMMA FieldsSet ==
  ASSUME Walk
  PROVE  ReadsSetFields
<1> DEFINE row == FirstMatch(b)
<1>1. CASE row = NoRow
  <2>1. Op(b) = "undocumented"
    BY <1>1, DocumentedFound DEF Walk
  <2>2. QED  BY <1>1, <2>1 DEF ReadsSetFields
<1>2. ASSUME row # NoRow, NEW s \in Stacks, NEW t \in Stacks
      PROVE  LET one == decode_instruction(b, s)  other == decode_instruction(b, t)
             IN  /\ one.name = other.name
                 /\ \A f \in Uses(one.name) :
                      one[f] = other[f] \/ (one.name = "CBNZ" /\ f = "br_address")
  <2> DEFINE one == decode_instruction(b, s)
             other == decode_instruction(b, t)
  <2>1. row \in opcode_table \union {NoRow} /\ one.name = row.name /\ other.name = row.name
    BY <1>2, DecodedRow, DecodedName
  <2> SUFFICES ASSUME NEW f \in Uses(one.name), one.name # "CBNZ" \/ f # "br_address"
               PROVE  one[f] = other[f]
    BY <2>1
  <2> HIDE DEF row, one, other
  <2>2. CASE one.name \in OfType.I
    <3>1. row.type = "I" /\ f \in {"rd", "rn", "shamt", "alu_immediate"}
      BY <2>1, <2>2, RowTypes DEF Uses, OfType
    <3>2. /\ one.rd = other.rd /\ one.rn = other.rn /\ one.shamt = other.shamt
          /\ one.alu_immediate = other.alu_immediate
      BY <1>2, <3>1, Fields DEF row, one, other
    <3>3. QED  BY <3>1, <3>2
  <2>3. CASE one.name \in OfType.X \union OfType.R
    <3>1. row.type \in {"X", "R"} /\ f \in {"rd", "rn", "rm"}
      BY <2>1, <2>3, RowTypes DEF Uses, OfType
    <3>2. one.rd = other.rd /\ one.rn = other.rn /\ one.rm = other.rm
      BY <1>2, <3>1, Fields DEF row, one, other
    <3>3. QED  BY <3>1, <3>2
  <2>4. CASE one.name \in OfType.D
    <3>1. row.type = "D" /\ f \in {"rd", "rn", "dt_address"}
      BY <2>1, <2>4, RowTypes DEF Uses, OfType
    <3>2. one.rd = other.rd /\ one.rn = other.rn /\ one.dt_address = other.dt_address
      BY <1>2, <3>1, Fields DEF row, one, other
    <3>3. QED  BY <3>1, <3>2
  <2>5. CASE one.name \in OfType.IW
    <3>1. row.type = "IW" /\ f \in {"rd", "mov_immediate"}
      BY <2>1, <2>5, RowTypes DEF Uses, OfType
    <3>2. one.rd = other.rd /\ one.mov_immediate = other.mov_immediate
      BY <1>2, <3>1, Fields DEF row, one, other
    <3>3. QED  BY <3>1, <3>2
  <2>6. CASE one.name \in OfType.CB
    <3>1. row.type = "CB" /\ f \in {"rt", "cond_br_address"}
      BY <2>1, <2>6, RowTypes DEF Uses, OfType
    <3>2. one.rt = other.rt /\ one.cond_br_address = other.cond_br_address
      BY <1>2, <3>1, Fields DEF row, one, other
    <3>3. QED  BY <3>1, <3>2
  <2>7. CASE one.name = "B"
    <3>1. row.name \in OfType.B
      BY <2>1, <2>7 DEF OfType
    <3>2. row.type = "B"
      BY <2>1, <3>1, RowTypes
    <3>3. f = "br_address"
      BY <2>7 DEF Uses
    <3>4. one.br_address = other.br_address
      BY <1>2, <3>2, Fields DEF row, one, other
    <3>5. QED  BY <3>3, <3>4
  <2>8. CASE one.name \notin OfType.I \union OfType.X \union OfType.R \union OfType.D
                            \union OfType.IW \union OfType.CB \union OfType.B
    BY <2>8 DEF Uses, OfType
  <2>9. QED
    BY <2>2, <2>3, <2>4, <2>5, <2>6, <2>7, <2>8 DEF OfType
<1>3. QED  BY <1>1, <1>2 DEF ReadsSetFields

\* Wherever a row is found, no handler but CBNZ's uses a name, a type or a field
\* that the decoder left unset, and one is found for every documented bytecode.
THEOREM NoFieldUnset == Spec => []ReadsSetFields
BY WalkInvariant, FieldsSet, PTL

-----------------------------------------------------------------------------
\* Over a blank stack the name is that of the row found, or "unset".
LEMMA BlankName == name = FirstMatch(b).name
<1>1. Blank.name = "unset" /\ NoRow.name = "unset"
  BY DEF Blank, NoRow, Row
<1>2. QED
  BY <1>1, NamedRow DEF name, decoded, decode_instruction, decode_completely_instruction

LEMMA OperandsRight ==
  ASSUME Walk
  PROVE  OperandsDecoded
<1> DEFINE row == FirstMatch(b)
<1> SUFFICES ASSUME row # NoRow PROVE OperandsDecoded
  <2>1. name \in {"unset", row.name} /\ (row = NoRow => name = "unset")
    BY BlankName DEF NoRow, Row
  <2>2. QED  BY <2>1 DEF OperandsDecoded
<1>1. row \in opcode_table \union {NoRow} /\ name = row.name /\ decoded = decode_instruction(b, Blank)
  BY DecodedRow, BlankName DEF decoded
<1>2. b.hi \in Nat /\ b.hi < 2048 /\ b.lo \in Nat /\ b.lo < 2097152
  BY SMT DEF Walk, BytecodeOK
<1> HIDE DEF row
<1>3. ASSUME name \in OfType.D
      PROVE  SignExtended(decoded.dt_address, Bit8, SignBit(decoded.dt_address, Bit8)) = imm9(b)
  <2>1. decoded.dt_address = b.lo \div 4096
    BY <1>1, <1>3, RowTypes, Fields DEF row
  <2>2. b.lo \div 4096 \in Nat /\ b.lo \div 4096 < 512
    BY <1>2, SMT
  <2>3. QED  BY <2>1, <2>2, Extensions, SMT DEF imm9
<1>4. ASSUME name \in {"BCOND", "CBZ"}
      PROVE  SignExtended(decoded.cond_br_address, Bit18,
                          SignBit(decoded.cond_br_address, Bit18)) = imm19(b)
  <2>1. decoded.cond_br_address = ((b.hi % 8) * 65536) + (b.lo \div 32)
    BY <1>1, <1>4, RowTypes, Fields DEF row, OfType
  <2>2. /\ ((b.hi % 8) * 65536) + (b.lo \div 32) \in Nat
        /\ ((b.hi % 8) * 65536) + (b.lo \div 32) < 524288
    BY <1>2, SMT
  <2>3. QED  BY <2>1, <2>2, Extensions, SMT DEF imm19
<1>5. ASSUME name \in {"ADDS_immediate", "SUBS_immediate", "ADD_immediate"}
      PROVE  decoded.alu_immediate = imm12(b)
  <2>1. row.name \in OfType.I
    BY <1>1, <1>5 DEF OfType
  <2>2. row.type = "I"
    BY <1>1, <2>1, RowTypes
  <2>3. decoded.alu_immediate = ((b.hi % 2) * 2048) + (b.lo \div 1024)
    BY <1>1, <2>2, Fields DEF row
  <2>4. QED  BY <2>3 DEF imm12
<1>6. ASSUME name = "MOVZ" PROVE decoded.mov_immediate = imm16(b)
  <2>1. row.name \in OfType.IW
    BY <1>1, <1>6 DEF OfType
  <2>2. row.type = "IW"
    BY <1>1, <2>1, RowTypes
  <2>3. QED  BY <1>1, <2>2, Fields DEF row, imm16
<1>7. ASSUME name \in {"LSL_immediate", "LSR_immediate"}
      PROVE  decoded.rm = immr(b)
  <2>1. row.name \in OfType.R
    BY <1>1, <1>7 DEF OfType
  <2>2. row.type = "R"
    BY <1>1, <2>1, RowTypes
  <2>3. QED  BY <1>1, <2>2, Fields DEF row, immr, Rm
<1>8. ASSUME name = HandlerOf(Op(b)), name = "LSL_immediate"
      PROVE  64 - decoded.rm = 63 - imms(b)
  <2>1. decoded.rm = immr(b) /\ HandlerOf(Op(b)) = "LSL_immediate"
    BY <1>7, <1>8
  <2>2. immr(b) = imms(b) + 1
    <3>1. b.hi \in Tops
      BY BytecodeRanges DEF Walk
    <3>2. Op(b) \in OpNames /\ (Op(b) = "LSL" => immr(b) = imms(b) + 1)
      BY <3>1, OpMeans
    <3>3. QED  BY <2>1, <3>2, HandlerOfLSL
  <2>3. imms(b) \in Int
    BY <1>2, SMT DEF imms, imm6
  <2>4. QED  BY <2>1, <2>2, <2>3
<1>9. QED
  BY <1>3, <1>4, <1>5, <1>6, <1>7, <1>8 DEF OperandsDecoded, OfType

\* The operands of every documented bytecode that reaches its handler are the
\* manual's, with their signs, but for those of B and CBNZ.
THEOREM OperandsOfTheManual == Spec => []OperandsDecoded
BY WalkInvariant, OperandsRight, PTL

-----------------------------------------------------------------------------
LEMMA EncodingsFound ==
  ASSUME Walk
  PROVE  DocumentedDecoded /\ NullOnlyWhenEmpty
<1>1. b.hi \in Tops /\ b.lo \div 65536 \in 0 .. 31
  BY BytecodeRanges DEF Walk
<1>2. PICK h \in Tops : h = b.hi
  BY <1>1
<1>3. PICK m \in 0 .. 31 : m = b.lo \div 65536
  BY <1>1
<1>4. PICK op : op = Op(b)
  OBVIOUS
<1>5. name = Found(h) /\ h \in TopBits(op)
  BY <1>1, <1>2, <1>4, BlankName, NameIsFound, OpMeans
<1>6. immr(b) = ((h % 2) * 32) + m
  BY <1>2, <1>3 DEF immr, Rm
<1>7. /\ op = "B" /\ h \in {177, 180, 181} => StolenBranch
      /\ op = "LSL" /\ h = 1690 => StolenShift
      /\ op = "LSR" /\ h = 1691 => StolenShift
  <2>1. 1690 % 2 = 0 /\ 1691 % 2 = 1
    OBVIOUS
  <2>2. /\ h = 1690 => immr(b) < 32
        /\ h = 1691 => immr(b) >= 32
    BY <1>6, <2>1
  <2>3. QED  BY <1>2, <1>4, <2>2 DEF StolenBranch, StolenShift
<1>8. op = "undocumented" \/ StolenBranch \/ StolenShift \/ Found(h) = HandlerOf(op)
  <2>1. h \in TopBits(op)
    BY <1>5
  <2>2. op = "undocumented" \/ Stolen(op, h) \/ Found(h) = HandlerOf(op)
    BY <2>1, Encodings
  <2>3. QED  BY <1>7, <2>2 DEF Stolen
<1>9. (Found(h) = "NULL") <=> h \in EmptyTops
  BY NullFound
<1>10. Found(h) \notin {"SUB_immediate", "AND_immediate"}
  BY NoOrphanFound
<1>11. Found(h) = "NULL" => op = "undocumented"
  BY <1>5, <1>9, EmptyUndocumented
<1>12. DocumentedDecoded
  BY <1>4, <1>5, <1>8, <1>10 DEF DocumentedDecoded
<1>13. NullOnlyWhenEmpty
  BY <1>2, <1>4, <1>5, <1>9, <1>11 DEF NullOnlyWhenEmpty, EmptyTops
<1>14. QED  BY <1>12, <1>13

\* Every documented encoding, whatever its low bits, is dispatched to its own
\* handler by the mixed search, outside the two windows; no bytecode reaches the
\* two rows without one.
THEOREM EncodingsReachHandlers == Spec => []DocumentedDecoded
BY WalkInvariant, EncodingsFound, PTL

\* The words that fault on a null name are those of empty memory and their
\* neighbours, whatever their low bits, and no documented instruction.
THEOREM FaultsOnlyWhenEmpty == Spec => []NullOnlyWhenEmpty
BY WalkInvariant, EncodingsFound, PTL
=============================================================================
