---------------------------- MODULE DecoderLemmas -----------------------------
(***************************************************************************)
(* What decode_instruction returns for any bytecode and any stack contents.  *)
(***************************************************************************)
EXTENDS Decoder, Armv8, TLAPS

\* The search returns a row of the table, or none.
LEMMA DecodedRow ==
  ASSUME NEW b
  PROVE  FirstMatch(b) \in opcode_table \union {NoRow}
<1> DEFINE opcode == Attempts(b)
           Only(k) == CHOOSE row \in Matches(opcode[k]) : TRUE
<1>1. \A k \in 1 .. 4 : Matches(opcode[k]) # {} => Only(k) \in opcode_table
  BY DEF Matches
<1>2. QED  BY <1>1 DEF FirstMatch

\* Name and type are those of the row found, or what the stack held.
LEMMA NamedRow ==
  ASSUME NEW b, NEW stack
  PROVE  LET named == decode_instruction_opcode(b, stack)
             known == IF FirstMatch(b) = NoRow THEN stack ELSE FirstMatch(b)
         IN  named.name = known.name /\ named.type = known.type
BY DEF decode_instruction_opcode

\* Every field is a natural number, whichever of them the type extracts.
LEMMA DecodedType ==
  ASSUME NEW b, BytecodeOK(b), NEW stack \in Leftover
  PROVE  decode_instruction(b, stack) \in Instruction
<1> DEFINE named == decode_instruction_opcode(b, stack)
<1>1. named.name \in AnyName
  BY DecodedRow, NamedRow DEF AnyName, Leftover
<1>2. \A d \in Nat \ {0}, v \in Nat : v % d \in Nat /\ v \div d \in Nat
  OBVIOUS
<1>3. b.hi \in Nat /\ b.lo \in Nat
  BY SMT DEF BytecodeOK
<1>4. /\ stack.rd \in Nat /\ stack.rn \in Nat /\ stack.rm \in Nat /\ stack.rt \in Nat
      /\ stack.shamt \in Nat /\ stack.alu_immediate \in Nat /\ stack.dt_address \in Nat
      /\ stack.br_address \in Nat /\ stack.cond_br_address \in Nat
      /\ stack.mov_immediate \in Nat
  BY DEF Leftover
<1> HIDE DEF named
<1>5. decode_completely_instruction(named, b, stack) \in Instruction
  BY <1>1, <1>3, <1>4 DEF decode_completely_instruction, Instruction
<1>6. QED  BY <1>5 DEF decode_instruction, named

\* The handlers of each type of row.
OfType ==
  [I  |-> {"ADDS_immediate", "SUBS_immediate", "ADD_immediate", "ORR_shifted_register", "BR"},
   X  |-> {"ADDS_extended_register", "SUBS_extended_register", "ANDS_shifted_register",
           "EOR_shifted_register", "MUL"},
   R  |-> {"LSL_immediate", "LSR_immediate", "ADD_extended_register"},
   D  |-> {"STUR", "STURB", "STURH", "LDUR", "LDURB", "LDURH"},
   IW |-> {"MOVZ"},
   CB |-> {"BCOND", "CBZ", "CBNZ"},
   B  |-> {"B"}]

LEMMA RowTypes ==
  ASSUME NEW row \in opcode_table \union {NoRow}
  PROVE  /\ row.name \in OfType.I  => row.type = "I"
         /\ row.name \in OfType.X  => row.type = "X"
         /\ row.name \in OfType.R  => row.type = "R"
         /\ row.name \in OfType.D  => row.type = "D"
         /\ row.name \in OfType.IW => row.type = "IW"
         /\ row.name \in OfType.CB => row.type = "CB"
         /\ row.name \in OfType.B  => row.type = "B"
         /\ row.name = "ADD_extended_register" => row.opcode = \b1000101100
<1>1. \A o, t, n : Row(o, t, n).name = n /\ Row(o, t, n).type = t /\ Row(o, t, n).opcode = o
  BY DEF Row
<1>2. QED  BY <1>1, SMTT(60) DEF opcode_table, NoRow, NullRow, OfType

\* A row that is found has the opcode of one of the four searches.
LEMMA FoundOpcode ==
  ASSUME NEW w
  PROVE  LET row == FirstMatch(w)
         IN  \/ row = NoRow
             \/ row \in opcode_table /\ \E k \in 1 .. 4 : row.opcode = Attempts(w)[k]
<1> DEFINE opcode == Attempts(w)
           Only(k) == CHOOSE row \in Matches(opcode[k]) : TRUE
<1>1. \A k \in 1 .. 4 : Matches(opcode[k]) # {} =>
        Only(k) \in opcode_table /\ Only(k).opcode = opcode[k]
  BY DEF Matches
<1>2. QED  BY <1>1 DEF FirstMatch

\* The name of a decoded instruction is that of its row, whatever the stack held.
LEMMA DecodedName ==
  ASSUME NEW w, NEW stack, FirstMatch(w) # NoRow
  PROVE  decode_instruction(w, stack).name = FirstMatch(w).name
BY NamedRow DEF decode_instruction, decode_completely_instruction

\* The values of the top 11 bits.
Tops == {h \in Nat : h < 2048}

\* The two parts of a bytecode, as the searches look at them.
LEMMA BytecodeRanges ==
  ASSUME NEW w, BytecodeOK(w)
  PROVE  w.hi \in Tops /\ w.lo \div 65536 \in 0 .. 31
<1>1. PICK h \in Nat : h = w.hi
  BY DEF BytecodeOK
<1>2. PICK l \in Nat : l = w.lo
  BY SMT DEF BytecodeOK
<1>3. h < 2048
  BY <1>1, SMT DEF BytecodeOK
<1>4. l < 2097152
  BY <1>2, SMT DEF BytecodeOK
<1>5. h \in Tops
  BY <1>3, SMT DEF Tops
<1>6. l \div 65536 \in 0 .. 31
  BY <1>4, SMT
<1>7. QED  BY <1>1, <1>2, <1>5, <1>6, SMT

\* A field is extracted from the bytecode when the row's type has it, and is what
\* the stack held otherwise.
LEMMA Fields ==
  ASSUME NEW w, NEW stack, FirstMatch(w) # NoRow
  PROVE  LET type == FirstMatch(w).type
             d == decode_instruction(w, stack)
         IN  /\ type \in {"I", "X", "IW", "R", "D"} => d.rd = w.lo % 32
             /\ type \in {"I", "X", "R", "D"} => d.rn = (w.lo \div 32) % 32
             /\ type = "R" => d.rm = ((w.hi % 2) * 32) + (w.lo \div 65536)
             /\ type = "X" => d.rm = w.lo \div 65536
             /\ type = "CB" => d.rt = w.lo % 32
             /\ type = "I" => d.shamt = (w.hi \div 2) % 4
             /\ type = "I" => d.alu_immediate = ((w.hi % 2) * 2048) + (w.lo \div 1024)
             /\ type = "D" => d.dt_address = w.lo \div 4096
             /\ type = "B" => d.br_address = w.lo % 64
             /\ type = "CB" => d.cond_br_address = ((w.hi % 8) * 65536) + (w.lo \div 32)
             /\ type = "IW" => d.mov_immediate = w.lo \div 32
             /\ type = "CB" => d.br_address = stack.br_address
<1>1. decode_instruction_opcode(w, stack).type = FirstMatch(w).type
  BY NamedRow
<1>2. QED  BY <1>1 DEF decode_instruction, decode_completely_instruction

LEMMA FieldBounds ==
  ASSUME NEW w, BytecodeOK(w)
  PROVE  /\ w.lo % 32 < 32 /\ (w.lo \div 32) % 32 < 32 /\ w.lo \div 65536 < 32
         /\ (w.hi \div 2) % 4 < 32
         /\ w.hi % 2 \in {0, 1}
         /\ \A k \in 1 .. 4 : Attempts(w)[k] = \b1000101100 /\ w.hi # \b10001011001 =>
              w.hi % 2 = 0
<1>1. w.hi \in Nat /\ w.hi < 2048 /\ w.lo \in Nat /\ w.lo < 2097152
  BY SMT DEF BytecodeOK
<1>2. /\ w.hi \div 32 < 64 /\ w.hi \div 8 < 256
      /\ w.hi \div 2 = 556 => w.hi \in {1112, 1113}
  BY <1>1, SMT
<1>3. /\ Attempts(w)[1] = w.hi /\ Attempts(w)[2] = w.hi \div 32
      /\ Attempts(w)[3] = w.hi \div 8 /\ Attempts(w)[4] = w.hi \div 2
  BY DEF Attempts
<1>4. \A k \in 1 .. 4 : Attempts(w)[k] = 556 => w.hi \in {556, 1112, 1113}
  BY <1>1, <1>2, <1>3, SMT
<1>5. \A k \in 1 .. 4 : Attempts(w)[k] = 556 /\ w.hi # 1113 => w.hi % 2 = 0
  BY <1>1, <1>4, SMT
<1>6. QED  BY <1>1, <1>5, SMT

\* Sign extension by a mask is that of the manual.
LEMMA Extensions ==
  /\ \A v \in Nat : v < 512 => SignExtended(v, Bit8, SignBit(v, Bit8)) = Signed(v, 512)
  /\ \A v \in Nat : v < 524288 =>
       SignExtended(v, Bit18, SignBit(v, Bit18)) = Signed(v, 524288)
<1>1. \A v \in Nat : v < 512 => SignExtended(v, Bit8, SignBit(v, Bit8)) = Signed(v, 512)
  BY SMTT(60) DEF SignExtended, SignBit, Signed, Bit8
<1>2. \A v \in Nat : v < 524288 =>
        SignExtended(v, Bit18, SignBit(v, Bit18)) = Signed(v, 524288)
  BY SMTT(60) DEF SignExtended, SignBit, Signed, Bit18
<1>3. QED  BY <1>1, <1>2

-----------------------------------------------------------------------------
\* The search, by the opcodes of the table in decimal.

Opcodes ==
  {684, 177, 940, 241, 1698, 234, 202, 1360, 5, 1712, 84, 1691, 1690, 1984, 448, 480,
   1986, 962, 225, 210, 556, 145, 1240, 180, 181, 11010001, 1001001000, 0}

NameOf(o) ==
  CASE o = 684 -> "ADDS_extended_register"
    [] o = 177 -> "ADDS_immediate"
    [] o = 940 -> "SUBS_extended_register"
    [] o = 241 -> "SUBS_immediate"
    [] o = 1698 -> "HLT"
    [] o = 234 -> "ANDS_shifted_register"
    [] o = 202 -> "EOR_shifted_register"
    [] o = 1360 -> "ORR_shifted_register"
    [] o = 5 -> "B"
    [] o = 1712 -> "BR"
    [] o = 84 -> "BCOND"
    [] o = 1691 -> "LSL_immediate"
    [] o = 1690 -> "LSR_immediate"
    [] o = 1984 -> "STUR"
    [] o = 448 -> "STURB"
    [] o = 480 -> "STURH"
    [] o = 1986 -> "LDUR"
    [] o = 962 -> "LDURH"
    [] o = 225 -> "LDURB"
    [] o = 210 -> "MOVZ"
    [] o = 556 -> "ADD_extended_register"
    [] o = 145 -> "ADD_immediate"
    [] o = 1240 -> "MUL"
    [] o = 180 -> "CBZ"
    [] o = 181 -> "CBNZ"
    [] o = 11010001 -> "SUB_immediate"
    [] o = 1001001000 -> "AND_immediate"
    [] o = 0 -> "NULL"

LEMMA TableNames ==
  \A row \in opcode_table : row.opcode \in Opcodes /\ row.name = NameOf(row.opcode)
<1>1. \A o, t, n : Row(o, t, n).name = n /\ Row(o, t, n).opcode = o
  BY DEF Row
<1>2. QED  BY <1>1, SMTT(60) DEF opcode_table, NullRow, Opcodes, NameOf

LEMMA OpcodesFound ==
  ASSUME NEW o \in Opcodes
  PROVE  \E row \in opcode_table : row.opcode = o
<1>1. \A p, t, n : Row(p, t, n).opcode = p
  BY DEF Row
<1>2. QED  BY <1>1, SMTT(60) DEF opcode_table, NullRow, Opcodes

LEMMA MatchesOfOpcode ==
  ASSUME NEW o
  PROVE  /\ Matches(o) # {} <=> o \in Opcodes
         /\ \A row \in Matches(o) : row \in opcode_table /\ row.name = NameOf(o)
<1>1. o \in Opcodes => Matches(o) # {}
  BY OpcodesFound DEF Matches
<1>2. Matches(o) # {} => o \in Opcodes
  BY TableNames DEF Matches
<1>3. \A row \in Matches(o) : row \in opcode_table /\ row.name = NameOf(o)
  BY TableNames DEF Matches
<1>4. QED  BY <1>1, <1>2, <1>3

\* The name the search finds: that of the first opcode in the table.
LEMMA NameFound ==
  ASSUME NEW w
  PROVE  LET found == FirstMatch(w).name
             o == Attempts(w)
         IN  /\ o[1] \in Opcodes => found = NameOf(o[1])
             /\ o[1] \notin Opcodes /\ o[2] \in Opcodes => found = NameOf(o[2])
             /\ o[1] \notin Opcodes /\ o[2] \notin Opcodes /\ o[3] \in Opcodes =>
                  found = NameOf(o[3])
             /\ o[1] \notin Opcodes /\ o[2] \notin Opcodes /\ o[3] \notin Opcodes
                  /\ o[4] \in Opcodes => found = NameOf(o[4])
             /\ o[1] \notin Opcodes /\ o[2] \notin Opcodes /\ o[3] \notin Opcodes
                  /\ o[4] \notin Opcodes => found = "unset"
<1> DEFINE row == FirstMatch(w)
           o == Attempts(w)
           Only(k) == CHOOSE r \in Matches(o[k]) : TRUE
<1>1. \A k \in 1 .. 4 : Matches(o[k]) # {} <=> o[k] \in Opcodes
  BY MatchesOfOpcode
<1>2. \A k \in 1 .. 4 : Matches(o[k]) # {} => Only(k).name = NameOf(o[k])
  BY MatchesOfOpcode
<1>3. /\ Matches(o[1]) # {} => row = Only(1)
      /\ Matches(o[1]) = {} /\ Matches(o[2]) # {} => row = Only(2)
      /\ Matches(o[1]) = {} /\ Matches(o[2]) = {} /\ Matches(o[3]) # {} => row = Only(3)
      /\ Matches(o[1]) = {} /\ Matches(o[2]) = {} /\ Matches(o[3]) = {}
           /\ Matches(o[4]) # {} => row = Only(4)
      /\ Matches(o[1]) = {} /\ Matches(o[2]) = {} /\ Matches(o[3]) = {}
           /\ Matches(o[4]) = {} => row = NoRow
  BY DEF FirstMatch
<1>4. NoRow.name = "unset"
  BY DEF NoRow, Row
<1> HIDE DEF row, Only
<1>5. QED  BY <1>1, <1>2, <1>3, <1>4 DEF row

-----------------------------------------------------------------------------
\* What each documented instruction fixes of its bytecode.

OpNames ==
  {"ADDS_register", "SUBS_register", "HLT", "ANDS", "EOR", "ORR", "BR", "MOVZ",
   "ADD_register", "MUL", "STUR", "STURB", "STURH", "LDUR", "LDURB", "LDURH",
   "ADDS_immediate", "SUBS_immediate", "B.cond", "ADD_immediate", "CBZ", "CBNZ",
   "B", "LSL", "LSR", "undocumented"}

\* The top bits each instruction has.
TopBits(op) ==
  {h \in Tops :
     /\ op \in OpNames
     /\ op = "ADDS_register" => h = 1368
     /\ op = "ADDS_immediate" => h \div 8 = 177
     /\ op = "SUBS_register" => h = 1880
     /\ op = "SUBS_immediate" => h \div 8 = 241
     /\ op = "HLT" => h = 1698
     /\ op = "ANDS" => h = 1872
     /\ op = "EOR" => h = 1616
     /\ op = "ORR" => h = 1360
     /\ op = "B" => h \div 32 = 5
     /\ op = "BR" => h = 1712
     /\ op = "B.cond" => h \div 8 = 84
     /\ op = "LSR" => h \div 2 = 845
     /\ op = "LSL" => h \div 2 = 845
     /\ op = "STUR" => h = 1984
     /\ op = "STURB" => h = 448
     /\ op = "STURH" => h = 960
     /\ op = "LDUR" => h = 1986
     /\ op = "LDURB" => h = 450
     /\ op = "LDURH" => h = 962
     /\ op = "MOVZ" => h = 1684
     /\ op = "ADD_register" => h = 1112
     /\ op = "ADD_immediate" => h \div 8 = 145
     /\ op = "MUL" => h = 1240
     /\ op = "CBZ" => h \div 8 = 180
     /\ op = "CBNZ" => h \div 8 = 181}

\* B.cond is documented for six conditions only.
LEMMA EncodedCondition ==
  ASSUME NEW w, Op(w) = "B.cond"
  PROVE  w.lo % 32 \in {EQ, NE, GE, LT, GT, LE}
BY SMTT(60) DEF Op

LEMMA OpMeans ==
  ASSUME NEW w, w.hi \in Tops
  PROVE  /\ w.hi \in TopBits(Op(w)) /\ Op(w) \in OpNames
         /\ Op(w) = "LSL" => immr(w) = imms(w) + 1
         /\ Op(w) = "LSR" => imms(w) = 63
<1>1. /\ \A o : IsRegister(w, o) => w.hi = o
      /\ \A o : IsImmediate(w, o) => w.hi \div 8 = o
      /\ \A o : IsTransfer(w, o) => w.hi = o
  BY DEF IsRegister, IsImmediate, IsTransfer
<1>2. Op(w) \in OpNames
  BY SMTT(30) DEF Op, OpNames
<1>3. Op(w) = "ADDS_register" => IsRegister(w, 1368)
  BY SMTT(30) DEF Op
<1>4. Op(w) = "ADDS_immediate" => IsImmediate(w, 177)
  BY SMTT(30) DEF Op
<1>5. Op(w) = "SUBS_register" => IsRegister(w, 1880)
  BY SMTT(30) DEF Op
<1>6. Op(w) = "SUBS_immediate" => IsImmediate(w, 241)
  BY SMTT(30) DEF Op
<1>7. Op(w) = "HLT" => w.hi = 1698
  BY SMTT(30) DEF Op
<1>8. Op(w) = "ANDS" => IsRegister(w, 1872)
  BY SMTT(30) DEF Op
<1>9. Op(w) = "EOR" => IsRegister(w, 1616)
  BY SMTT(30) DEF Op
<1>10. Op(w) = "ORR" => IsRegister(w, 1360)
  BY SMTT(30) DEF Op
<1>11. Op(w) = "B" => w.hi \div 32 = 5
  BY SMTT(30) DEF Op
<1>12. Op(w) = "BR" => w.hi = 1712
  BY SMTT(30) DEF Op
<1>13. Op(w) = "B.cond" => w.hi \div 8 = 84
  BY SMTT(30) DEF Op
<1>14. Op(w) = "LSR" => w.hi \div 2 = 845 /\ imms(w) = 63
  BY SMTT(30) DEF Op
<1>15. Op(w) = "LSL" => w.hi \div 2 = 845 /\ immr(w) = imms(w) + 1
  BY SMTT(30) DEF Op
<1>16. Op(w) = "STUR" => IsTransfer(w, 1984)
  BY SMTT(30) DEF Op
<1>17. Op(w) = "STURB" => IsTransfer(w, 448)
  BY SMTT(30) DEF Op
<1>18. Op(w) = "STURH" => IsTransfer(w, 960)
  BY SMTT(30) DEF Op
<1>19. Op(w) = "LDUR" => IsTransfer(w, 1986)
  BY SMTT(30) DEF Op
<1>20. Op(w) = "LDURB" => IsTransfer(w, 450)
  BY SMTT(30) DEF Op
<1>21. Op(w) = "LDURH" => IsTransfer(w, 962)
  BY SMTT(30) DEF Op
<1>22. Op(w) = "MOVZ" => w.hi = 1684
  BY SMTT(30) DEF Op
<1>23. Op(w) = "ADD_register" => IsRegister(w, 1112)
  BY SMTT(30) DEF Op
<1>24. Op(w) = "ADD_immediate" => IsImmediate(w, 145)
  BY SMTT(30) DEF Op
<1>25. Op(w) = "MUL" => w.hi = 1240
  BY SMTT(30) DEF Op
<1>26. Op(w) = "CBZ" => w.hi \div 8 = 180
  BY SMTT(30) DEF Op
<1>27. Op(w) = "CBNZ" => w.hi \div 8 = 181
  BY SMTT(30) DEF Op
<1>28. w.hi \in TopBits(Op(w))
  BY <1>1, <1>2, <1>3, <1>4, <1>5, <1>6, <1>7, <1>8, <1>9, <1>10, <1>11, <1>12, <1>13, <1>14, <1>15, <1>16, <1>17, <1>18, <1>19, <1>20, <1>21, <1>22, <1>23, <1>24, <1>25, <1>26, <1>27 DEF TopBits
<1>29. QED  BY <1>2, <1>14, <1>15, <1>28

LEMMA HandlerNames ==
  /\ HandlerOf("ADDS_register") = "ADDS_extended_register"
  /\ HandlerOf("SUBS_register") = "SUBS_extended_register"
  /\ HandlerOf("ADD_register") = "ADD_extended_register"
  /\ HandlerOf("ANDS") = "ANDS_shifted_register"
  /\ HandlerOf("EOR") = "EOR_shifted_register"
  /\ HandlerOf("ORR") = "ORR_shifted_register"
  /\ HandlerOf("B.cond") = "BCOND"
  /\ HandlerOf("LSL") = "LSL_immediate"
  /\ HandlerOf("LSR") = "LSR_immediate"
  /\ \A op \in {"ADDS_immediate", "SUBS_immediate", "HLT", "B", "BR", "STUR", "STURB", "STURH",
               "LDUR", "LDURB", "LDURH", "MOVZ", "ADD_immediate", "MUL", "CBZ", "CBNZ",
               "undocumented"} : HandlerOf(op) = op
BY DEF HandlerOf

LEMMA HandlerOfLSL ==
  ASSUME NEW op \in OpNames, HandlerOf(op) = "LSL_immediate"
  PROVE  op = "LSL"
BY SMTT(30) DEF HandlerOf, OpNames

\* The search as a function of the top 11 bits alone.
Found(h) ==
  CASE h \in Opcodes -> NameOf(h)
    [] h \notin Opcodes /\ h \div 32 \in Opcodes -> NameOf(h \div 32)
    [] h \notin Opcodes /\ h \div 32 \notin Opcodes /\ h \div 8 \in Opcodes ->
         NameOf(h \div 8)
    [] h \notin Opcodes /\ h \div 32 \notin Opcodes /\ h \div 8 \notin Opcodes
         /\ h \div 2 \in Opcodes -> NameOf(h \div 2)
    [] OTHER -> "unset"

LEMMA NameIsFound ==
  ASSUME NEW w
  PROVE  FirstMatch(w).name = Found(w.hi)
<1>1. /\ Attempts(w)[1] = w.hi /\ Attempts(w)[2] = w.hi \div 32
      /\ Attempts(w)[3] = w.hi \div 8 /\ Attempts(w)[4] = w.hi \div 2
  BY DEF Attempts
<1>2. QED  BY <1>1, NameFound DEF Found

\* The top bits of a documented instruction with an opcode of its own.
LEMMA ExactFound ==
  /\ Found(1368) = "ADDS_extended_register"
  /\ Found(1880) = "SUBS_extended_register"
  /\ Found(1698) = "HLT"
  /\ Found(1872) = "ANDS_shifted_register"
  /\ Found(1616) = "EOR_shifted_register"
  /\ Found(1360) = "ORR_shifted_register"
  /\ Found(1712) = "BR"
  /\ Found(1984) = "STUR"
  /\ Found(448) = "STURB"
  /\ Found(960) = "STURH"
  /\ Found(1986) = "LDUR"
  /\ Found(450) = "LDURB"
  /\ Found(962) = "LDURH"
  /\ Found(1684) = "MOVZ"
  /\ Found(1112) = "ADD_extended_register"
  /\ Found(1240) = "MUL"
  /\ Found(1690) = "LSR_immediate"
  /\ Found(1691) = "LSL_immediate"
<1>1. Found(1368) = "ADDS_extended_register"
  <2>1. 1368 \div 32 = 42 /\ 1368 \div 8 = 171 /\ 1368 \div 2 = 684
    OBVIOUS
  <2>2. 1368 \notin Opcodes /\ 42 \notin Opcodes /\ 171 \notin Opcodes /\ 684 \in Opcodes
    BY DEF Opcodes
  <2>3. NameOf(684) = "ADDS_extended_register"
    BY DEF NameOf
  <2>4. QED  BY <2>1, <2>2, <2>3 DEF Found
<1>2. Found(1880) = "SUBS_extended_register"
  <2>1. 1880 \div 32 = 58 /\ 1880 \div 8 = 235 /\ 1880 \div 2 = 940
    OBVIOUS
  <2>2. 1880 \notin Opcodes /\ 58 \notin Opcodes /\ 235 \notin Opcodes /\ 940 \in Opcodes
    BY DEF Opcodes
  <2>3. NameOf(940) = "SUBS_extended_register"
    BY DEF NameOf
  <2>4. QED  BY <2>1, <2>2, <2>3 DEF Found
<1>3. Found(1698) = "HLT"
  <2>1. 1698 \div 32 = 53 /\ 1698 \div 8 = 212 /\ 1698 \div 2 = 849
    OBVIOUS
  <2>2. 1698 \in Opcodes
    BY DEF Opcodes
  <2>3. NameOf(1698) = "HLT"
    BY DEF NameOf
  <2>4. QED  BY <2>1, <2>2, <2>3 DEF Found
<1>4. Found(1872) = "ANDS_shifted_register"
  <2>1. 1872 \div 32 = 58 /\ 1872 \div 8 = 234 /\ 1872 \div 2 = 936
    OBVIOUS
  <2>2. 1872 \notin Opcodes /\ 58 \notin Opcodes /\ 234 \in Opcodes
    BY DEF Opcodes
  <2>3. NameOf(234) = "ANDS_shifted_register"
    BY DEF NameOf
  <2>4. QED  BY <2>1, <2>2, <2>3 DEF Found
<1>5. Found(1616) = "EOR_shifted_register"
  <2>1. 1616 \div 32 = 50 /\ 1616 \div 8 = 202 /\ 1616 \div 2 = 808
    OBVIOUS
  <2>2. 1616 \notin Opcodes /\ 50 \notin Opcodes /\ 202 \in Opcodes
    BY DEF Opcodes
  <2>3. NameOf(202) = "EOR_shifted_register"
    BY DEF NameOf
  <2>4. QED  BY <2>1, <2>2, <2>3 DEF Found
<1>6. Found(1360) = "ORR_shifted_register"
  <2>1. 1360 \div 32 = 42 /\ 1360 \div 8 = 170 /\ 1360 \div 2 = 680
    OBVIOUS
  <2>2. 1360 \in Opcodes
    BY DEF Opcodes
  <2>3. NameOf(1360) = "ORR_shifted_register"
    BY DEF NameOf
  <2>4. QED  BY <2>1, <2>2, <2>3 DEF Found
<1>7. Found(1712) = "BR"
  <2>1. 1712 \div 32 = 53 /\ 1712 \div 8 = 214 /\ 1712 \div 2 = 856
    OBVIOUS
  <2>2. 1712 \in Opcodes
    BY DEF Opcodes
  <2>3. NameOf(1712) = "BR"
    BY DEF NameOf
  <2>4. QED  BY <2>1, <2>2, <2>3 DEF Found
<1>8. Found(1984) = "STUR"
  <2>1. 1984 \div 32 = 62 /\ 1984 \div 8 = 248 /\ 1984 \div 2 = 992
    OBVIOUS
  <2>2. 1984 \in Opcodes
    BY DEF Opcodes
  <2>3. NameOf(1984) = "STUR"
    BY DEF NameOf
  <2>4. QED  BY <2>1, <2>2, <2>3 DEF Found
<1>9. Found(448) = "STURB"
  <2>1. 448 \div 32 = 14 /\ 448 \div 8 = 56 /\ 448 \div 2 = 224
    OBVIOUS
  <2>2. 448 \in Opcodes
    BY DEF Opcodes
  <2>3. NameOf(448) = "STURB"
    BY DEF NameOf
  <2>4. QED  BY <2>1, <2>2, <2>3 DEF Found
<1>10. Found(960) = "STURH"
  <2>1. 960 \div 32 = 30 /\ 960 \div 8 = 120 /\ 960 \div 2 = 480
    OBVIOUS
  <2>2. 960 \notin Opcodes /\ 30 \notin Opcodes /\ 120 \notin Opcodes /\ 480 \in Opcodes
    BY DEF Opcodes
  <2>3. NameOf(480) = "STURH"
    BY DEF NameOf
  <2>4. QED  BY <2>1, <2>2, <2>3 DEF Found
<1>11. Found(1986) = "LDUR"
  <2>1. 1986 \div 32 = 62 /\ 1986 \div 8 = 248 /\ 1986 \div 2 = 993
    OBVIOUS
  <2>2. 1986 \in Opcodes
    BY DEF Opcodes
  <2>3. NameOf(1986) = "LDUR"
    BY DEF NameOf
  <2>4. QED  BY <2>1, <2>2, <2>3 DEF Found
<1>12. Found(450) = "LDURB"
  <2>1. 450 \div 32 = 14 /\ 450 \div 8 = 56 /\ 450 \div 2 = 225
    OBVIOUS
  <2>2. 450 \notin Opcodes /\ 14 \notin Opcodes /\ 56 \notin Opcodes /\ 225 \in Opcodes
    BY DEF Opcodes
  <2>3. NameOf(225) = "LDURB"
    BY DEF NameOf
  <2>4. QED  BY <2>1, <2>2, <2>3 DEF Found
<1>13. Found(962) = "LDURH"
  <2>1. 962 \div 32 = 30 /\ 962 \div 8 = 120 /\ 962 \div 2 = 481
    OBVIOUS
  <2>2. 962 \in Opcodes
    BY DEF Opcodes
  <2>3. NameOf(962) = "LDURH"
    BY DEF NameOf
  <2>4. QED  BY <2>1, <2>2, <2>3 DEF Found
<1>14. Found(1684) = "MOVZ"
  <2>1. 1684 \div 32 = 52 /\ 1684 \div 8 = 210 /\ 1684 \div 2 = 842
    OBVIOUS
  <2>2. 1684 \notin Opcodes /\ 52 \notin Opcodes /\ 210 \in Opcodes
    BY DEF Opcodes
  <2>3. NameOf(210) = "MOVZ"
    BY DEF NameOf
  <2>4. QED  BY <2>1, <2>2, <2>3 DEF Found
<1>15. Found(1112) = "ADD_extended_register"
  <2>1. 1112 \div 32 = 34 /\ 1112 \div 8 = 139 /\ 1112 \div 2 = 556
    OBVIOUS
  <2>2. 1112 \notin Opcodes /\ 34 \notin Opcodes /\ 139 \notin Opcodes /\ 556 \in Opcodes
    BY DEF Opcodes
  <2>3. NameOf(556) = "ADD_extended_register"
    BY DEF NameOf
  <2>4. QED  BY <2>1, <2>2, <2>3 DEF Found
<1>16. Found(1240) = "MUL"
  <2>1. 1240 \div 32 = 38 /\ 1240 \div 8 = 155 /\ 1240 \div 2 = 620
    OBVIOUS
  <2>2. 1240 \in Opcodes
    BY DEF Opcodes
  <2>3. NameOf(1240) = "MUL"
    BY DEF NameOf
  <2>4. QED  BY <2>1, <2>2, <2>3 DEF Found
<1>17. Found(1690) = "LSR_immediate"
  <2>1. 1690 \div 32 = 52 /\ 1690 \div 8 = 211 /\ 1690 \div 2 = 845
    OBVIOUS
  <2>2. 1690 \in Opcodes
    BY DEF Opcodes
  <2>3. NameOf(1690) = "LSR_immediate"
    BY DEF NameOf
  <2>4. QED  BY <2>1, <2>2, <2>3 DEF Found
<1>18. Found(1691) = "LSL_immediate"
  <2>1. 1691 \div 32 = 52 /\ 1691 \div 8 = 211 /\ 1691 \div 2 = 845
    OBVIOUS
  <2>2. 1691 \in Opcodes
    BY DEF Opcodes
  <2>3. NameOf(1691) = "LSL_immediate"
    BY DEF NameOf
  <2>4. QED  BY <2>1, <2>2, <2>3 DEF Found
<1>19. QED
  BY <1>1, <1>2, <1>3, <1>4, <1>5, <1>6, <1>7, <1>8, <1>9, <1>10, <1>11, <1>12, <1>13, <1>14, <1>15, <1>16, <1>17, <1>18

\* The top bits of an instruction with an opcode of eight bits.
LEMMA OctetsFound ==
  ASSUME NEW h \in Tops
  PROVE  /\ h \div 8 = 177 => Found(h) = "ADDS_immediate"
         /\ h \div 8 = 241 => Found(h) = "SUBS_immediate"
         /\ h \div 8 = 84 => Found(h) = "BCOND"
         /\ h \div 8 = 145 => Found(h) = "ADD_immediate"
         /\ h \div 8 = 180 => Found(h) = "CBZ"
         /\ h \div 8 = 181 => Found(h) = "CBNZ"
<1>1. ASSUME h \div 8 = 177 PROVE Found(h) = "ADDS_immediate"
  <2>1. h \in 1416 .. 1423 /\ h \div 32 = 44
    BY <1>1 DEF Tops
  <2>2. h \notin Opcodes /\ h \div 32 \notin Opcodes
    BY <2>1 DEF Opcodes
  <2>3. 177 \in Opcodes /\ NameOf(177) = "ADDS_immediate"
    BY DEF Opcodes, NameOf
  <2>4. QED  BY <1>1, <2>2, <2>3 DEF Found
<1>2. ASSUME h \div 8 = 241 PROVE Found(h) = "SUBS_immediate"
  <2>1. h \in 1928 .. 1935 /\ h \div 32 = 60
    BY <1>2 DEF Tops
  <2>2. h \notin Opcodes /\ h \div 32 \notin Opcodes
    BY <2>1 DEF Opcodes
  <2>3. 241 \in Opcodes /\ NameOf(241) = "SUBS_immediate"
    BY DEF Opcodes, NameOf
  <2>4. QED  BY <1>2, <2>2, <2>3 DEF Found
<1>3. ASSUME h \div 8 = 84 PROVE Found(h) = "BCOND"
  <2>1. h \in 672 .. 679 /\ h \div 32 = 21
    BY <1>3 DEF Tops
  <2>2. h \notin Opcodes /\ h \div 32 \notin Opcodes
    BY <2>1 DEF Opcodes
  <2>3. 84 \in Opcodes /\ NameOf(84) = "BCOND"
    BY DEF Opcodes, NameOf
  <2>4. QED  BY <1>3, <2>2, <2>3 DEF Found
<1>4. ASSUME h \div 8 = 145 PROVE Found(h) = "ADD_immediate"
  <2>1. h \in 1160 .. 1167 /\ h \div 32 = 36
    BY <1>4 DEF Tops
  <2>2. h \notin Opcodes /\ h \div 32 \notin Opcodes
    BY <2>1 DEF Opcodes
  <2>3. 145 \in Opcodes /\ NameOf(145) = "ADD_immediate"
    BY DEF Opcodes, NameOf
  <2>4. QED  BY <1>4, <2>2, <2>3 DEF Found
<1>5. ASSUME h \div 8 = 180 PROVE Found(h) = "CBZ"
  <2>1. h \in 1440 .. 1447 /\ h \div 32 = 45
    BY <1>5 DEF Tops
  <2>2. h \notin Opcodes /\ h \div 32 \notin Opcodes
    BY <2>1 DEF Opcodes
  <2>3. 180 \in Opcodes /\ NameOf(180) = "CBZ"
    BY DEF Opcodes, NameOf
  <2>4. QED  BY <1>5, <2>2, <2>3 DEF Found
<1>6. ASSUME h \div 8 = 181 PROVE Found(h) = "CBNZ"
  <2>1. h \in 1448 .. 1455 /\ h \div 32 = 45
    BY <1>6 DEF Tops
  <2>2. h \notin Opcodes /\ h \div 32 \notin Opcodes
    BY <2>1 DEF Opcodes
  <2>3. 181 \in Opcodes /\ NameOf(181) = "CBNZ"
    BY DEF Opcodes, NameOf
  <2>4. QED  BY <1>6, <2>2, <2>3 DEF Found
<1>7. QED  BY <1>1, <1>2, <1>3, <1>4, <1>5, <1>6

\* The top bits of B, but for those that are the opcode of another row.
LEMMA BranchFound ==
  ASSUME NEW h \in Tops, h \div 32 = 5
  PROVE  h \notin {177, 180, 181} => Found(h) = "B"
<1>1. h \in 160 .. 191
  BY DEF Tops
<1>2. h \notin {177, 180, 181} => h \notin Opcodes
  BY <1>1 DEF Opcodes
<1>3. 5 \in Opcodes /\ NameOf(5) = "B"
  BY DEF Opcodes, NameOf
<1>4. QED  BY <1>2, <1>3 DEF Found

\* Only the opcode 0 names the zero rows.
LEMMA NamesOfOpcodes ==
  ASSUME NEW o \in Opcodes, o < 2048
  PROVE  /\ NameOf(o) = "NULL" <=> o = 0
         /\ NameOf(o) \notin {"SUB_immediate", "AND_immediate"}
<1>1. \A p, t, n : Row(p, t, n).name = n /\ Row(p, t, n).opcode = p
  BY DEF Row
<1>2. \A row \in opcode_table :
        /\ (row.name = "NULL") <=> (row.opcode = 0)
        /\ row.opcode < 2048 => row.name \notin {"SUB_immediate", "AND_immediate"}
  BY <1>1, SMTT(60) DEF opcode_table, NullRow
<1>3. PICK row \in opcode_table : row.opcode = o
  BY OpcodesFound
<1>4. row.name = NameOf(o)
  BY <1>3, TableNames
<1>5. QED  BY <1>2, <1>3, <1>4

\* The top bits of empty memory and its neighbours.
EmptyTops == {h \in Tops : h < 32 /\ h # 5}

LEMMA NamesFound ==
  ASSUME NEW h \in Tops
  PROVE  /\ Found(h) = "NULL" <=> h < 32 /\ h # 5
         /\ Found(h) \notin {"SUB_immediate", "AND_immediate"}
<1> h \in Nat /\ h < 2048
  BY DEF Tops
<1>1. /\ h \div 32 \in Nat /\ h \div 8 \in Nat /\ h \div 2 \in Nat
      /\ h \div 32 < 2048 /\ h \div 8 < 2048 /\ h \div 2 < 2048
      /\ h \div 32 = 0 <=> h < 32
      /\ h \div 8 = 0 => h < 32
      /\ h \div 2 = 0 => h < 32
  OBVIOUS
<1>2. CASE h \in Opcodes
  <2>1. h < 32 => h \in {0, 5}
    BY <1>2 DEF Opcodes
  <2>2. Found(h) = NameOf(h)
    BY <1>2 DEF Found
  <2>3. QED  BY <1>2, <2>1, <2>2, NamesOfOpcodes
<1>3. CASE h \notin Opcodes /\ h \div 32 \in Opcodes
  <2>1. 5 \in Opcodes
    BY DEF Opcodes
  <2>2. Found(h) = NameOf(h \div 32) /\ h # 5
    BY <1>3, <2>1 DEF Found
  <2>3. /\ NameOf(h \div 32) = "NULL" <=> h < 32
        /\ NameOf(h \div 32) # "SUB_immediate" /\ NameOf(h \div 32) # "AND_immediate"
    BY <1>1, <1>3, NamesOfOpcodes
  <2>4. QED  BY <2>2, <2>3
<1>4. CASE h \notin Opcodes /\ h \div 32 \notin Opcodes
  <2>1. h >= 32
    <3>1. 0 \in Opcodes
      BY DEF Opcodes
    <3>2. QED  BY <1>1, <1>4, <3>1
  <2>2. \/ h \div 8 \in Opcodes /\ Found(h) = NameOf(h \div 8)
        \/ h \div 2 \in Opcodes /\ Found(h) = NameOf(h \div 2)
        \/ Found(h) = "unset"
    BY <1>4 DEF Found
  <2>3. ASSUME h \div 8 \in Opcodes
        PROVE  NameOf(h \div 8) \notin {"NULL", "SUB_immediate", "AND_immediate"}
    BY <1>1, <2>1, <2>3, NamesOfOpcodes
  <2>4. ASSUME h \div 2 \in Opcodes
        PROVE  NameOf(h \div 2) \notin {"NULL", "SUB_immediate", "AND_immediate"}
    BY <1>1, <2>1, <2>4, NamesOfOpcodes
  <2>5. QED  BY <2>1, <2>2, <2>3, <2>4
<1>5. QED  BY <1>2, <1>3, <1>4

LEMMA NullFound ==
  ASSUME NEW h \in Tops
  PROVE  (Found(h) = "NULL") <=> h \in EmptyTops
BY NamesFound DEF EmptyTops, Tops

LEMMA NoOrphanFound ==
  ASSUME NEW h \in Tops
  PROVE  Found(h) \notin {"SUB_immediate", "AND_immediate"}
BY NamesFound

\* The two shifts of the manual share their top ten bits.
LEMMA ShiftTop ==
  ASSUME NEW h \in Tops, h \div 2 = 845
  PROVE  h \in {1690, 1691}
BY DEF Tops

\* Empty memory is no documented instruction.
LEMMA EmptyUndocumented ==
  ASSUME NEW op, NEW h \in Tops, h \in TopBits(op), h \in EmptyTops
  PROVE  op = "undocumented"
<1>1. h \in Nat /\ h < 32 /\ h # 5
  BY DEF EmptyTops, Tops
<1>2. h \div 8 < 4 /\ h \div 32 = 0 /\ h \div 2 < 16
  BY <1>1
<1>3. h \div 8 \notin {177, 241, 84, 145, 180, 181} /\ h \div 2 # 845 /\ h \div 32 # 5
  BY <1>2
<1>4. h \notin {1368, 1880, 1698, 1872, 1616, 1360, 1712, 1984, 448, 960, 1986, 450,
               962, 1684, 1112, 1240}
  BY <1>1
<1>5. QED  BY <1>3, <1>4 DEF TopBits, OpNames

\* B in the window of an 8-bit row, and a shift whose bit 21 is not the one the
\* table has.
Stolen(op, h) ==
  \/ op = "B" /\ h \in {177, 180, 181}
  \/ op = "LSL" /\ h = 1690
  \/ op = "LSR" /\ h = 1691

\* Every other instruction reaches its handler.
LEMMA Encodings ==
  ASSUME NEW op, NEW h \in TopBits(op)
  PROVE  op = "undocumented" \/ Stolen(op, h) \/ Found(h) = HandlerOf(op)
<1>1. ASSUME op # "undocumented", ~(op = "B" /\ h \in {177, 180, 181}),
             ~(op = "LSL" /\ h = 1690), ~(op = "LSR" /\ h = 1691)
      PROVE  Found(h) = HandlerOf(op)
  <2> h \in Tops
    BY DEF TopBits
  <2>1. ASSUME op \in {"LSL", "LSR"} PROVE h = IF op = "LSL" THEN 1691 ELSE 1690
    <3>1. h \div 2 = 845
      BY <2>1 DEF TopBits
    <3>2. h \in {1690, 1691}
      BY <3>1, ShiftTop
    <3>3. QED  BY <1>1, <2>1, <3>2
  <2>2. /\ op = "B" => h \notin {177, 180, 181}
        /\ op = "LSL" => h = 1691
        /\ op = "LSR" => h = 1690
    BY <1>1, <2>1
  <2>3. CASE op \in {"ADDS_register", "SUBS_register", "HLT", "ANDS", "EOR", "ORR", "BR",
                    "MOVZ", "ADD_register", "MUL"}
    BY <2>3, ExactFound, HandlerNames DEF TopBits
  <2>4. CASE op \in {"STUR", "STURB", "STURH", "LDUR", "LDURB", "LDURH"}
    BY <2>4, ExactFound, HandlerNames DEF TopBits
  <2>5. CASE op \in {"ADDS_immediate", "SUBS_immediate", "B.cond", "ADD_immediate", "CBZ",
                    "CBNZ"}
    BY <2>5, OctetsFound, HandlerNames DEF TopBits
  <2>6. CASE op = "B"
    BY <2>2, <2>6, BranchFound, HandlerNames DEF TopBits
  <2>7. CASE op \in {"LSL", "LSR"}
    BY <2>2, <2>7, ExactFound, HandlerNames
  <2>8. QED  BY <1>1, <2>3, <2>4, <2>5, <2>6, <2>7 DEF TopBits, OpNames
<1>2. QED  BY <1>1 DEF Stolen

\* A row is found for every documented instruction.
LEMMA DocumentedFound ==
  ASSUME NEW w, BytecodeOK(w), Op(w) # "undocumented"
  PROVE  FirstMatch(w) # NoRow
<1>1. PICK h : h = w.hi
  OBVIOUS
<1>2. PICK op : op = Op(w)
  OBVIOUS
<1>3. h \in TopBits(op) /\ op \in OpNames /\ op # "undocumented"
  BY <1>1, <1>2, BytecodeRanges, OpMeans
<1>4. HandlerOf(op) # "unset"
  BY <1>3, HandlerNames DEF OpNames
<1>5. Stolen(op, h) => Found(h) # "unset"
  <2>1. /\ 177 \in Opcodes /\ NameOf(177) = "ADDS_immediate"
        /\ 180 \in Opcodes /\ NameOf(180) = "CBZ"
        /\ 181 \in Opcodes /\ NameOf(181) = "CBNZ"
    BY DEF Opcodes, NameOf
  <2>2. \A k \in {177, 180, 181} : Found(k) = NameOf(k)
    BY <2>1 DEF Found
  <2>3. QED  BY <2>1, <2>2, ExactFound DEF Stolen
<1>6. Found(h) # "unset"
  BY <1>3, <1>4, <1>5, Encodings
<1>7. NoRow.name = "unset"
  BY DEF NoRow, Row
<1>8. QED  BY <1>1, <1>6, <1>7, NameIsFound

\* Where a row is found, the fields that number registers stay below 32, but for
\* rm of one encoding of ADD.
LEMMA RegisterIndexes ==
  ASSUME NEW w, BytecodeOK(w), NEW stack, FirstMatch(w) # NoRow,
         NEW f \in Indexes(decode_instruction(w, stack).name)
  PROVE  LET d == decode_instruction(w, stack)
         IN  \/ d[f] < 32
             \/ /\ f = "rm" /\ d.name = "ADD_extended_register"
                /\ w.hi = \b10001011001 /\ d[f] < 64
<1> DEFINE row == FirstMatch(w)
           d == decode_instruction(w, stack)
<1>1. row \in opcode_table \union {NoRow} /\ d.name = row.name
  BY DecodedRow, DecodedName
<1> HIDE DEF row, d
<1>2. CASE d.name \in OfType.I
  <2>1. row.type = "I" /\ f \in {"rd", "rn", "shamt"}
    BY <1>1, <1>2, RowTypes DEF Uses, Indexes, OfType, d
  <2>2. d.rd < 32 /\ d.rn < 32 /\ d.shamt < 32
    BY <1>1, <2>1, Fields, FieldBounds DEF row, d
  <2>3. QED  BY <2>1, <2>2 DEF d
<1>3. CASE d.name \in OfType.X
  <2>1. row.type = "X" /\ f \in {"rd", "rn", "rm"}
    BY <1>1, <1>3, RowTypes DEF Uses, Indexes, OfType, d
  <2>2. d.rd < 32 /\ d.rn < 32 /\ d.rm < 32
    BY <1>1, <2>1, Fields, FieldBounds DEF row, d
  <2>3. QED  BY <2>1, <2>2 DEF d
<1>4. CASE d.name \in {"LSL_immediate", "LSR_immediate"}
  <2>1. f \in {"rd", "rn"}
    <3>1. Uses(d.name) = {"rd", "rn", "rm"}
      BY <1>4 DEF Uses
    <3>2. f \in Indexes(d.name)
      BY DEF d
    <3>3. f \in Uses(d.name) /\ f # "rm"
      BY <1>4, <3>2 DEF Indexes
    <3>4. QED  BY <3>1, <3>3
  <2>2. row.name \in OfType.R
    BY <1>1, <1>4 DEF OfType
  <2>3. row.type = "R"
    BY <1>1, <2>2, RowTypes
  <2>4. d.rd < 32 /\ d.rn < 32
    BY <2>3, Fields, FieldBounds DEF row, d
  <2>5. QED  BY <2>1, <2>4 DEF d
<1>5. CASE d.name = "ADD_extended_register"
  <2>1. row.name \in OfType.R /\ f \in {"rd", "rn", "rm"}
    <3>1. f \in Uses(d.name)
      BY DEF Indexes, d
    <3>2. Uses(d.name) = {"rd", "rn", "rm"}
      BY <1>5 DEF Uses
    <3>3. row.name \in OfType.R
      BY <1>1, <1>5 DEF OfType
    <3>4. QED  BY <3>1, <3>2, <3>3
  <2>2. row.type = "R" /\ row.opcode = \b1000101100
    <3>1. row.name = "ADD_extended_register" /\ row \in opcode_table \union {NoRow}
      BY <1>1, <1>5
    <3>2. row.type = "R"
      BY <2>1, <3>1, RowTypes
    <3>3. row.opcode = \b1000101100
      BY <3>1, RowTypes
    <3>4. QED  BY <3>2, <3>3
  <2>3. d.rd < 32 /\ d.rn < 32 /\ d.rm = ((w.hi % 2) * 32) + (w.lo \div 65536)
    BY <2>2, Fields, FieldBounds DEF row, d
  <2>4. w.lo \div 65536 < 32 /\ w.lo \div 65536 \in Int /\ w.hi % 2 \in {0, 1}
    BY FieldBounds DEF BytecodeOK
  <2>5. d.rm < 64
    BY <2>3, <2>4
  <2>6. ASSUME w.hi # \b10001011001 PROVE d.rm < 32
    <3>1. \E k \in 1 .. 4 : Attempts(w)[k] = \b1000101100
      BY <2>2, FoundOpcode DEF row
    <3>2. w.hi % 2 = 0
      BY <2>6, <3>1, FieldBounds
    <3>3. QED  BY <2>3, <2>4, <3>2
  <2>7. QED  BY <1>5, <2>1, <2>3, <2>5, <2>6 DEF d
<1>6. CASE d.name \in OfType.D
  <2>1. row.type = "D" /\ f \in {"rd", "rn"}
    BY <1>1, <1>6, RowTypes DEF Uses, Indexes, OfType, d
  <2>2. d.rd < 32 /\ d.rn < 32
    BY <1>1, <2>1, Fields, FieldBounds DEF row, d
  <2>3. QED  BY <2>1, <2>2 DEF d
<1>7. CASE d.name \in OfType.IW
  <2>1. row.type = "IW" /\ f = "rd"
    BY <1>1, <1>7, RowTypes DEF Uses, Indexes, OfType, d
  <2>2. d.rd < 32
    BY <1>1, <2>1, Fields, FieldBounds DEF row, d
  <2>3. QED  BY <2>1, <2>2 DEF d
<1>8. CASE d.name \in OfType.CB
  <2>1. row.type = "CB" /\ f = "rt"
    BY <1>1, <1>8, RowTypes DEF Uses, Indexes, OfType, d
  <2>2. d.rt < 32
    BY <1>1, <2>1, Fields, FieldBounds DEF row, d
  <2>3. QED  BY <2>1, <2>2 DEF d
<1>9. CASE d.name \notin OfType.I \union OfType.X \union OfType.R \union OfType.D
                        \union OfType.IW \union OfType.CB
  <2>1. Uses(d.name) \subseteq {"br_address"}
    BY <1>9 DEF Uses, OfType
  <2>2. FALSE
    BY <2>1 DEF Indexes, d
  <2>3. QED  BY <2>2
<1>10. QED
  BY <1>2, <1>3, <1>4, <1>5, <1>6, <1>7, <1>8, <1>9 DEF OfType
=============================================================================
