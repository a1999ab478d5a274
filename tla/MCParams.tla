------------------------------- MODULE MCParams ------------------------------
(***************************************************************************)
(* The small machine the runs share.  Bytes of two bits make words of 8 and  *)
(* registers of 16 bits; instructions keep their 32-bit encodings, and a     *)
(* memory word stands for the bytecode it numbers in Dictionary.  As in the  *)
(* program the stack region starts 4 bytes below the end of the 32-bit       *)
(* space and runs past it.                                                   *)
(***************************************************************************)
EXTENDS Integers, Sequences, Bitwise

MCByteBits == 2
MCBYTE == 4
MCByteAnd == [x \in 0 .. 3 |-> [y \in 0 .. 3 |-> x & y]]
MCByteOr  == [x \in 0 .. 3 |-> [y \in 0 .. 3 |-> x | y]]
MCByteXor == [x \in 0 .. 3 |-> [y \in 0 .. 3 |-> x ^^ y]]

TextStart == 32
DataStart == 100             \* below the largest int, as 0x10000000 is
MCRegions == << [start |-> TextStart, size |-> 64],
                [start |-> DataStart, size |-> 16],
                [start |-> 252, size |-> 16] >>

\* Stacks: no name, with bit 18 clear or set; a STURB decoded before; the name
\* of an earlier ADDS with other words around it, and of an earlier BR.
Holding(name, type, word) ==
  [name |-> name, type |-> type, rd |-> word, rn |-> word, rm |-> word, rt |-> word,
   shamt |-> word, alu_immediate |-> word, dt_address |-> word, br_address |-> word,
   cond_br_address |-> word, mov_immediate |-> word]
MCGarbage == {Holding("unset", "unset", 0), Holding("unset", "unset", 262144),
              Holding("STURB", "D", 0), Holding("ADDS_immediate", "unset", 100),
              Holding("BR", "unset", 1)}
MCStray   == {0, 9}

-----------------------------------------------------------------------------
\* The encodings of the test programs under inputs/.

Encoding(hi, lo) == [hi |-> hi, lo |-> lo]
R3(op11, d, n, m)  == Encoding(op11, (m * 65536) + (n * 32) + d)
I12(op8, d, n, imm) == Encoding((op8 * 8) + (imm \div 2048), ((imm % 2048) * 1024) + (n * 32) + d)
D9(op11, t, n, imm) == Encoding(op11, ((imm % 512) * 4096) + (n * 32) + t)
CB19(op8, t, imm) ==
  Encoding((op8 * 8) + ((imm % 524288) \div 65536), ((imm % 65536) * 32) + t)

adds(d, n, m)   == R3(\b10101011000, d, n, m)
subs(d, n, m)   == R3(\b11101011000, d, n, m)
cmp(n, m)       == subs(31, n, m)
ands(d, n, m)   == R3(\b11101010000, d, n, m)
eor(d, n, m)    == R3(\b11001010000, d, n, m)
orr(d, n, m)    == R3(\b10101010000, d, n, m)
add(d, n, m)    == R3(\b10001011000, d, n, m)
adduxtx(d, n, m) == Encoding(\b10001011001, (m * 65536) + (3 * 8192) + (n * 32) + d)
mul(d, n, m)    == Encoding(\b10011011000, (m * 65536) + (31 * 1024) + (n * 32) + d)
addsi(d, n, imm) == I12(\b10110001, d, n, imm)
subsi(d, n, imm) == I12(\b11110001, d, n, imm)
addi(d, n, imm)  == I12(\b10010001, d, n, imm)
addi12(d, n, imm) == Encoding((\b10010001 * 8) + 2, (imm * 1024) + (n * 32) + d)
subsi12(d, n, imm) == Encoding((\b11110001 * 8) + 2, (imm * 1024) + (n * 32) + d)
movz(d, imm)    == Encoding(\b11010010100, (imm * 32) + d)
lsl(d, n, s)    == Encoding((\b1101001101 * 2) + (((64 - s) % 64) \div 32),
                            ((((64 - s) % 64) % 32) * 65536) + ((63 - s) * 1024) + (n * 32) + d)
lsr(d, n, s)    == Encoding((\b1101001101 * 2) + (s \div 32),
                            ((s % 32) * 65536) + (63 * 1024) + (n * 32) + d)
stur(t, n, imm)  == D9(\b11111000000, t, n, imm)
sturb(t, n, imm) == D9(\b00111000000, t, n, imm)
sturh(t, n, imm) == D9(\b01111000000, t, n, imm)
ldur(t, n, imm)  == D9(\b11111000010, t, n, imm)
ldurb(t, n, imm) == D9(\b00111000010, t, n, imm)
ldurh(t, n, imm) == D9(\b01111000010, t, n, imm)
cbz(t, off)     == CB19(\b10110100, t, off)
cbnz(t, off)    == CB19(\b10110101, t, off)
bcond(c, off)   == CB19(\b01010100, c, off)
b(off)          == Encoding((5 * 32) + ((off % 67108864) \div 2097152), off % 2097152)
br(n)           == Encoding(\b11010110000, (31 * 65536) + (n * 32))
hlt             == Encoding(\b11010100010, 0)
svc             == Encoding(\b11010100000, 1)   \* in no row of the table
zeros           == Encoding(0, 0)
beq(off) == bcond(\b0000, off)
bne(off) == bcond(\b0001, off)
bgt(off) == bcond(\b1100, off)
blt(off) == bcond(\b1011, off)
bge(off) == bcond(\b1010, off)
ble(off) == bcond(\b1101, off)
bhi(off) == bcond(\b1000, off)                  \* not a condition of the switch

-----------------------------------------------------------------------------
\* The programs, with the addresses of this machine.

\* sturb.s, with a store at the last byte of the data region and one outside
\* every region.
Bytes == << movz(1, DataStart), movz(10, 27), stur(10, 1, 0), sturb(10, 1, 6),
            ldur(13, 1, 0), ldur(14, 1, 4), ldurb(15, 1, 6), sturb(13, 1, 15),
            sturb(10, 1, -1), hlt >>

\* sturh.s
Halves == << movz(1, DataStart), movz(2, 43981), sturh(2, 1, 4), ldurh(3, 1, 4),
             adds(0, 3, 1), subs(4, 3, 2), sturh(2, 1, 6), ldur(5, 1, 4), hlt >>

\* bcond.s: every condition, taken or not as the registers set by input are.
Conditions == << cmp(11, 11), beq(2), addsi(2, 0, 10), cmp(1, 12), bne(2),
                 addsi(3, 0, 20), cmp(1, 12), bgt(2), addsi(4, 0, 30), cmp(12, 1),
                 ble(2), blt(2), bge(1), bhi(2), subsi(6, 1, 50), hlt >>

\* cbz.s and cbnz.s
Zero == << addsi(3, 3, 3), cbnz(1, 3), addsi(6, 6, 6), cbz(1, 2), hlt,
           addsi(5, 5, 5), hlt >>

\* A counting loop: the backward branch is a CBNZ.
Loop == << movz(2, 2), subsi(2, 2, 1), cbnz(2, -1), hlt >>

\* The same with a backward B.COND, as in blt.s, left with Z set.
LoopCond == << movz(2, 2), subsi(2, 2, 1), bne(-1), subsi(31, 12, 1), hlt >>

\* b.s and br.s: the register of br comes from input.
Jumps == << b(2), hlt, movz(4, TextStart + 20), br(4), hlt, br(1), hlt >>

\* The arithmetic of the other tests.
Arithmetic == << addi(0, 0, 5), addsi(3, 31, 3), mul(2, 0, 3), ands(4, 2, 3), eor(5, 2, 3),
                 orr(6, 1, 3), lsl(7, 3, 2), lsr(8, 7, 1), lsr(9, 7, 33), add(10, 7, 3),
                 adduxtx(11, 7, 3), adds(31, 7, 3), subs(31, 3, 7), add(12, 31, 3),
                 addi12(12, 0, 1), hlt >>

\* A store below its base, and loads and stores at both ends of the stack.  Its
\* bytes from 256 on are beyond the 32-bit space.
Stack == << movz(1, 252), stur(1, 1, 0), stur(1, 1, 4), ldur(2, 1, 0), stur(1, 1, 8), ldur(3, 1, 8),
            movz(4, DataStart + 4), stur(1, 4, -2), ldurb(5, 4, -2), ldur(6, 4, -2),
            movz(7, 261), sturb(1, 7, 0), ldurb(8, 7, 0), sturh(1, 7, 1), hlt >>

\* No HLT: an unknown instruction, then the zero words behind the program.
RunsOff == << addsi(1, 1, 1), svc, addsi(1, 1, 1) >>

\* orr.s, which has no HLT.
NoHalt == << orr(0, 1, 2), addsi(0, 10, 1), orr(1, 11, 0) >>

\* Stores and loads of 64 bits, and an unaligned load.
Wide == << movz(1, DataStart), movz(2, 43981), stur(2, 1, 0), ldur(3, 1, 0), ldur(4, 1, 2),
           hlt >>

\* Branches B cannot make: one whose top 11 bits are the opcode of ADDS, with Z
\* set before it, and one backwards.
Far == << cmp(9, 9), b(17 * 2097152), b(-1), hlt >>

\* Register 31 with a value, in every use that can be told from zero; the flags
\* of a shifted immediate; shifts that set flags or run as the other one.
Misread == << movz(31, TextStart + 56), movz(1, DataStart), sturh(31, 1, 0), adds(2, 31, 31),
              cbz(31, 2), cbnz(31, 2), hlt, movz(3, 4096), subsi12(4, 3, 1), cmp(9, 9),
              lsl(5, 3, 1), lsl(6, 3, 63), br(31), hlt, hlt >>

\* A loop that never ends.
Spin == << addi(2, 2, 1), b(0) >>

\* A program that stores into its own text.
Overwrites == << movz(1, TextStart), movz(2, 0), ldur(3, 1, 20), stur(3, 1, 12), movz(4, 7),
                 hlt >>

AllPrograms == {Bytes, Halves, Conditions, Zero, Loop, LoopCond, Jumps, Arithmetic, Stack,
                RunsOff, NoHalt, Wide, Far, Spin, Overwrites, Misread}

-----------------------------------------------------------------------------
\* The dictionary holds the instructions of all programs; word 0 is the zero
\* bytecode.
Dictionary == Bytes \o Halves \o Conditions \o Zero \o Loop \o LoopCond \o Jumps
  \o Arithmetic \o Stack \o RunsOff \o NoHalt \o Wide \o Far \o Spin \o Overwrites
  \o Misread

MCBytecode == [w \in 0 .. 255 |->
  IF w = 0 THEN zeros ELSE IF w <= Len(Dictionary) THEN Dictionary[w] ELSE svc]
WordOf(code) == CHOOSE w \in 0 .. 255 : MCBytecode[w] = code
Assembled(p) == [k \in 1 .. Len(p) |-> WordOf(p[k])]
=============================================================================
