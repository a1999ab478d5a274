-------------------------------- MODULE Armv8 --------------------------------
(***************************************************************************)
(* The instructions the assignment asks for (I304_TP1_Simulador_CPU.pdf,     *)
(* pages 9 to 13), in the encodings of the manual it cites, which are those  *)
(* of the .s/.x pairs under inputs/.  This is the yardstick for the decoder, *)
(* written without looking at opcode_table: an encoding is "documented" when *)
(* the assignment does not set it aside.  A bytecode is [hi, lo] as in        *)
(* Decoder.                                                                  *)
(***************************************************************************)
EXTENDS Integers

\* Fields, by the manual's names.
Rd(b)    == b.lo % 32
Rn(b)    == (b.lo \div 32) % 32
Rm(b)    == b.lo \div 65536
imm6(b)  == (b.lo \div 1024) % 64
imms(b)  == imm6(b)
immr(b)  == ((b.hi % 2) * 32) + Rm(b)
imm12(b) == ((b.hi % 2) * 2048) + (b.lo \div 1024)
sh(b)    == (b.hi \div 2) % 4
imm16(b) == b.lo \div 32
cond(b)  == b.lo % 16

Signed(v, width) == IF v < width \div 2 THEN v ELSE v - width
imm9(b)  == Signed(b.lo \div 4096, 512)
imm19(b) == Signed(((b.hi % 8) * 65536) + (b.lo \div 32), 524288)
imm26(b) == Signed(((b.hi % 32) * 2097152) + b.lo, 67108864)

\* B.cond: the six conditions listed on pages 10 and 11.
EQ == 0
NE == 1
GE == 10
LT == 11
GT == 12
LE == 13

\* Register forms: no shift of the second operand (pages 7 and 8, items 2, 3 and 5).
IsRegister(b, op11) == b.hi = op11 /\ imm6(b) = 0
\* Immediate forms: shift 00 or 01 (page 8, item 4).
IsImmediate(b, op8) == b.hi \div 8 = op8 /\ sh(b) \in {0, 1}
IsTransfer(b, op11) == b.hi = op11 /\ (b.lo \div 1024) % 4 = 0

\* The instruction a bytecode encodes.
Op(b) ==
  CASE IsRegister(b, \b10101011000)  -> "ADDS_register"
    [] IsImmediate(b, \b10110001)    -> "ADDS_immediate"
    [] IsRegister(b, \b11101011000)  -> "SUBS_register"
    [] IsImmediate(b, \b11110001)    -> "SUBS_immediate"
    [] b.hi = \b11010100010 /\ b.lo % 32 = 0 -> "HLT"
    [] IsRegister(b, \b11101010000)  -> "ANDS"
    [] IsRegister(b, \b11001010000)  -> "EOR"
    [] IsRegister(b, \b10101010000)  -> "ORR"
    [] b.hi \div 32 = \b000101       -> "B"
    [] b.hi = \b11010110000 /\ Rm(b) = 31 /\ imm6(b) = 0 /\ Rd(b) = 0 -> "BR"
    [] b.hi \div 8 = \b01010100 /\ b.lo % 32 \in {EQ, NE, GE, LT, GT, LE} -> "B.cond"
    [] b.hi \div 2 = \b1101001101 /\ imms(b) = 63 -> "LSR"
    [] b.hi \div 2 = \b1101001101 /\ immr(b) = imms(b) + 1 -> "LSL"
    [] IsTransfer(b, \b11111000000)  -> "STUR"
    [] IsTransfer(b, \b00111000000)  -> "STURB"
    [] IsTransfer(b, \b01111000000)  -> "STURH"
    [] IsTransfer(b, \b11111000010)  -> "LDUR"
    [] IsTransfer(b, \b00111000010)  -> "LDURB"
    [] IsTransfer(b, \b01111000010)  -> "LDURH"
    [] b.hi = \b11010010100          -> "MOVZ"
    [] IsRegister(b, \b10001011000)  -> "ADD_register"
    [] IsImmediate(b, \b10010001)    -> "ADD_immediate"
    [] b.hi = \b10011011000 /\ imm6(b) = 31 -> "MUL"
    [] b.hi \div 8 = \b10110100      -> "CBZ"
    [] b.hi \div 8 = \b10110101      -> "CBNZ"
    [] OTHER                         -> "undocumented"

\* The handler meant for an instruction, named after the function of sim.c.
HandlerOf(op) ==
  CASE op = "ADDS_register"  -> "ADDS_extended_register"
    [] op = "SUBS_register"  -> "SUBS_extended_register"
    [] op = "ADD_register"   -> "ADD_extended_register"
    [] op = "ANDS"           -> "ANDS_shifted_register"
    [] op = "EOR"            -> "EOR_shifted_register"
    [] op = "ORR"            -> "ORR_shifted_register"
    [] op = "B.cond"         -> "BCOND"
    [] op = "LSL"            -> "LSL_immediate"
    [] op = "LSR"            -> "LSR_immediate"
    [] OTHER                 -> op
=============================================================================
