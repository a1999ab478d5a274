-------------------------------- MODULE Words --------------------------------
(***************************************************************************)
(* The unsigned C integers the simulator computes with.  A byte has BYTE    *)
(* values (256 in the program) and every other width is built from it as in *)
(* C: uint16_t is two bytes, uint32_t four, uint64_t eight.  Keeping BYTE a *)
(* parameter keeps each truncation and wrap-around of the code at its own    *)
(* width while TLC explores bytes of two bits.                              *)
(***************************************************************************)
EXTENDS Integers

CONSTANTS
  ByteBits,       \* bits of a byte, 8 in the program
  BYTE,           \* values of a byte, 256 in the program
  ByteAnd,        \* the C operators &, | and ^ on one byte
  ByteOr,
  ByteXor

Byte  == 0 .. (BYTE - 1)            \* uint8_t
HALF  == BYTE * BYTE                \* values of uint16_t
WORD  == HALF * HALF                \* values of uint32_t
DWORD == WORD * WORD                \* values of uint64_t
Word  == 0 .. (WORD - 1)
Dword == 0 .. (DWORD - 1)
XLEN  == 8 * ByteBits               \* bits of a register

ASSUME WordsAssumption ==
  /\ ByteBits \in Nat \ {0}
  /\ BYTE \in Nat /\ BYTE > 1 /\ BYTE % 2 = 0
  /\ {ByteAnd, ByteOr, ByteXor} \subseteq [Byte -> [Byte -> Byte]]

\* The provers know nothing of exponentiation beyond these facts.
ASSUME PowerAssumption ==
  /\ BYTE = 2 ^ ByteBits
  /\ BYTE ^ 0 = 1 /\ BYTE ^ 1 = BYTE
  /\ \A n \in 0 .. 64 : n < XLEN => 2 ^ n \in Nat \ {0}

\* Conversion of any integer to uint64_t.
Trunc(v) == v % DWORD

Place(k) == CASE k = 0 -> 1 [] k = 1 -> BYTE [] k = 2 -> HALF [] k = 3 -> HALF * BYTE

\* Slips: no mask after the shift; the other bytes are not kept.
ByteOf_Unmasked(w, k) == w \div Place(k)
ReplaceByte_Alone(w, k, v) == v * Place(k)

\* Byte k of a word, 0 the least significant, and the word with byte k or
\* halfword k replaced.
ByteOf(w, k) == (w \div Place(k)) % BYTE
ReplaceByte(w, k, v) == w + ((v - ByteOf(w, k)) * Place(k))
HalfOf(w, k) == IF k = 0 THEN w % HALF ELSE w \div HALF
ReplaceHalf(w, k, v) == w + ((v - HalfOf(w, k)) * (IF k = 0 THEN 1 ELSE HALF))

\* A byte operator applied to every byte of two 64-bit values.
Lift(op, m) ==
  [x \in 0 .. ((m * m) - 1) |->
     [y \in 0 .. ((m * m) - 1) |-> (m * op[x \div m][y \div m]) + op[x % m][y % m]]]
Bytewise(op) == Lift(Lift(Lift(op, BYTE), HALF), WORD)
And64(x, y) == Bytewise(ByteAnd)[x][y]
Or64(x, y)  == Bytewise(ByteOr)[x][y]
Xor64(x, y) == Bytewise(ByteXor)[x][y]

\* x * y modulo DWORD, by the two words of x so that TLC stays within 31 bits.
Mul(x, y) == Trunc(((((x \div WORD) * y) % WORD) * WORD) + ((x % WORD) * y))

\* Logical shifts by n < 64; every bit is lost when n reaches the width.
ShiftLeft(x, n)  == IF n >= XLEN THEN 0 ELSE Trunc(x * (2 ^ n))
ShiftRight(x, n) == IF n >= XLEN THEN 0 ELSE x \div (2 ^ n)

\* The flags of a result: bit 63 and zero.
FlagN(v) == IF v < DWORD \div 2 THEN 0 ELSE 1
FlagZ(v) == IF v = 0 THEN 1 ELSE 0
=============================================================================
