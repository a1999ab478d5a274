------------------------------- MODULE Decoder -------------------------------
(***************************************************************************)
(* decode_instruction of sim.c: from a 32-bit bytecode to the instruction   *)
(* record the handlers receive.  A bytecode is kept as its two parts,        *)
(* hi = bits 31..21 and lo = bits 20..0: every opcode comparison looks at hi *)
(* alone.                                                                    *)
(***************************************************************************)
EXTENDS Integers, Sequences

BytecodeOK(b) == /\ b.hi \in Nat /\ b.hi < 2048
                 /\ b.lo \in Nat /\ b.lo < 2097152

\* Slips: a row with another type.
Row_MOVZ_I(opcode, type, name) ==
  [opcode |-> opcode, type |-> IF name = "MOVZ" THEN "I" ELSE type, name |-> name]
Row_SUBS_R(opcode, type, name) ==
  [opcode |-> opcode, name |-> name,
   type |-> IF name = "SUBS_extended_register" THEN "R" ELSE type]

Row(opcode, type, name) == [opcode |-> opcode, type |-> type, name |-> name]

\* A row C leaves zero: opcode 0, the empty type and a null name.  NoRow stands
\* for a search that found none; "unset" is a name or a type no comparison knows.
NullRow == Row(0, "empty", "NULL")
NoRow   == Row(0, "unset", "unset")

\* The 27 rows the initialiser gives, the last two in decimal, and the zero ones
\* that fill the array of 50.  A row is named here for the handler its name
\* selects.  No two rows but those have the same opcode, so
\* the first row that matches is the only one.
opcode_table == {
  Row(\b1010101100,  "X",  "ADDS_extended_register"),
  Row(\b10110001,    "I",  "ADDS_immediate"),
  Row(\b1110101100,  "X",  "SUBS_extended_register"),
  Row(\b11110001,    "I",  "SUBS_immediate"),
  Row(\b11010100010, "CB", "HLT"),
  Row(\b11101010,    "X",  "ANDS_shifted_register"),
  Row(\b11001010,    "X",  "EOR_shifted_register"),
  Row(\b10101010000, "I",  "ORR_shifted_register"),
  Row(\b000101,      "B",  "B"),
  Row(\b11010110000, "I",  "BR"),
  Row(\b01010100,    "CB", "BCOND"),
  Row(\b11010011011, "R",  "LSL_immediate"),
  Row(\b11010011010, "R",  "LSR_immediate"),
  Row(\b11111000000, "D",  "STUR"),
  Row(\b00111000000, "D",  "STURB"),
  Row(\b0111100000,  "D",  "STURH"),
  Row(\b11111000010, "D",  "LDUR"),
  Row(\b01111000010, "D",  "LDURH"),
  Row(\b0011100001,  "D",  "LDURB"),
  Row(\b11010010,    "IW", "MOVZ"),
  Row(\b1000101100,  "R",  "ADD_extended_register"),
  Row(\b10010001,    "I",  "ADD_immediate"),
  Row(\b10011011000, "X",  "MUL"),
  Row(\b10110100,    "CB", "CBZ"),
  Row(\b10110101,    "CB", "CBNZ"),
  Row(11010001,      "I",  "SUB_immediate"),
  Row(1001001000,    "I",  "AND_immediate"),
  NullRow}

\* Slip: the search stops before the zero rows.
Matches_Initialised(opcode) == {row \in opcode_table \ {NullRow} : row.opcode = opcode}
Matches(opcode) == {row \in opcode_table : row.opcode = opcode}

\* Slip: the second shift one bit short.
Attempts_25(b) == <<b.hi, b.hi \div 16, b.hi \div 8, b.hi \div 2>>

\* The opcodes searched for, in order: the top 11, 6, 8 and 10 bits.
Attempts(b) == <<b.hi, b.hi \div 32, b.hi \div 8, b.hi \div 2>>

\* The first search that finds a row decides.
FirstMatch(b) ==
  LET opcode   == Attempts(b)
      Found(k) == Matches(opcode[k]) # {}
      Only(S)  == CHOOSE row \in S : TRUE
  IN  CASE Found(1) -> Only(Matches(opcode[1]))
        [] ~Found(1) /\ Found(2) -> Only(Matches(opcode[2]))
        [] ~Found(1) /\ ~Found(2) /\ Found(3) -> Only(Matches(opcode[3]))
        [] ~Found(1) /\ ~Found(2) /\ ~Found(3) /\ Found(4) -> Only(Matches(opcode[4]))
        [] OTHER -> NoRow

\* The record as the stack left it: every field is uninitialised, so that name
\* and type may be those of an instruction decoded before, and any other word
\* may lie in the numbers.
AnyName == {row.name : row \in opcode_table \union {NoRow}}
AnyType == {row.type : row \in opcode_table \union {NoRow}}
Instruction ==
  [name : AnyName, rd : Nat, rn : Nat, rm : Nat, rt : Nat, shamt : Nat,
   alu_immediate : Nat, dt_address : Nat, br_address : Nat, cond_br_address : Nat,
   mov_immediate : Nat]
Leftover ==
  [name : AnyName, type : AnyType, rd : Nat, rn : Nat, rm : Nat, rt : Nat, shamt : Nat,
   alu_immediate : Nat, dt_address : Nat, br_address : Nat, cond_br_address : Nat,
   mov_immediate : Nat]

\* Name and type: those of the row found, and the stack's own where none was.
decode_instruction_opcode(b, stack) ==
  LET row   == FirstMatch(b)
      known == IF row = NoRow THEN stack ELSE row
  IN  [name |-> known.name, type |-> known.type]

\* The fields the type extracts; a field it does not set stays as on the stack.
decode_completely_instruction(named, b, stack) ==
  LET For(types, field, old) == IF named.type \in types THEN field ELSE old
  IN  [name            |-> named.name,
       rd              |-> For({"I", "X", "IW", "R", "D"}, b.lo % 32, stack.rd),
       rn              |-> For({"I", "X", "R", "D"}, (b.lo \div 32) % 32, stack.rn),
       rm              |-> IF named.type = "R"
                           THEN ((b.hi % 2) * 32) + (b.lo \div 65536)
                           ELSE For({"X"}, b.lo \div 65536, stack.rm),
       rt              |-> For({"CB"}, b.lo % 32, stack.rt),
       shamt           |-> CASE named.type = "IW" -> b.hi % 4
                             [] named.type = "R"  -> (b.lo \div 1024) % 64
                             [] OTHER -> For({"I"}, (b.hi \div 2) % 4, stack.shamt),
       alu_immediate   |-> For({"I"}, ((b.hi % 2) * 2048) + (b.lo \div 1024),
                               stack.alu_immediate),
       dt_address      |-> For({"D"}, b.lo \div 4096, stack.dt_address),
       br_address      |-> For({"B"}, b.lo % 64, stack.br_address),
       cond_br_address |-> For({"CB"}, ((b.hi % 8) * 65536) + (b.lo \div 32),
                               stack.cond_br_address),
       mov_immediate   |-> For({"IW"}, b.lo \div 32, stack.mov_immediate)]

decode_instruction(b, stack) ==
  decode_completely_instruction(decode_instruction_opcode(b, stack), b, stack)

\* The fields each handler uses, and those of them that index the register file.
Uses(handler) ==
  CASE handler \in {"ADDS_immediate", "SUBS_immediate", "ADD_immediate"} ->
         {"rd", "rn", "alu_immediate"}
    [] handler \in {"ADDS_extended_register", "SUBS_extended_register",
                    "ANDS_shifted_register", "EOR_shifted_register", "MUL",
                    "ADD_extended_register"} -> {"rd", "rn", "rm"}
    [] handler = "ORR_shifted_register" -> {"rd", "rn", "shamt"}
    [] handler \in {"LSL_immediate", "LSR_immediate"} -> {"rd", "rn", "rm"}
    [] handler \in {"STUR", "STURB", "STURH", "LDUR", "LDURB", "LDURH"} ->
         {"rd", "rn", "dt_address"}
    [] handler = "MOVZ"  -> {"rd", "mov_immediate"}
    [] handler = "BCOND" -> {"rt", "cond_br_address"}
    [] handler = "CBZ"   -> {"rt", "cond_br_address"}
    [] handler = "CBNZ"  -> {"rt", "cond_br_address", "br_address"}
    [] handler = "B"     -> {"br_address"}
    [] handler = "BR"    -> {"rn"}
    [] OTHER -> {}
Indexes(handler) ==
  {f \in Uses(handler) :
     \/ f \in {"rd", "rn", "shamt"}
     \/ f = "rm" /\ handler \notin {"LSL_immediate", "LSR_immediate"}
     \/ f = "rt" /\ handler # "BCOND"}
-----------------------------------------------------------------------------
\* 1 << 8 and 1 << 18: the sign bits of a data offset and of a branch offset.
Bit8  == 256
Bit18 == 262144

\* Slip: offsets are not sign-extended.
SignExtended_Zero(field, sign, negative) == field % sign

\* A field as the signed offset the handlers build from it: sign is the weight
\* of its sign bit, negative their test of that bit.
SignExtended(field, sign, negative) == (field % sign) - (IF negative THEN sign ELSE 0)
SignBit(field, sign) == (field \div sign) % 2 = 1
=============================================================================
