----------------------------- MODULE WordLemmas ------------------------------
(***************************************************************************)
(* What the operators of Words and Memory return.  Everything rests on       *)
(* WordsAssumption alone, but for the shifts, which use PowerAssumption, and *)
(* the accessors, which use MemoryAssumption.                                *)
(***************************************************************************)
EXTENDS Memory, TLAPS

\* The widths are positive and ordered.
LEMMA Widths ==
  /\ BYTE \in Nat /\ HALF \in Nat /\ WORD \in Nat /\ DWORD \in Nat
  /\ 2 <= BYTE /\ BYTE <= HALF /\ HALF <= WORD /\ WORD <= DWORD
<1>1. BYTE \in Nat /\ 2 <= BYTE
  BY WordsAssumption
<1>2. \A m \in Nat : 2 <= m => m * m \in Nat /\ m <= m * m
  OBVIOUS
<1>3. HALF \in Nat /\ BYTE <= HALF
  BY <1>1, <1>2 DEF HALF
<1>4. WORD \in Nat /\ HALF <= WORD
  BY <1>1, <1>2, <1>3 DEF WORD
<1>5. DWORD \in Nat /\ WORD <= DWORD
  BY <1>1, <1>2, <1>3, <1>4 DEF DWORD
<1>6. QED  BY <1>1, <1>3, <1>4, <1>5

LEMMA DivMod ==
  ASSUME NEW v \in Int, NEW d \in Nat \ {0}
  PROVE  /\ v \div d \in Int /\ v % d \in 0 .. (d - 1)
         /\ v = (d * (v \div d)) + (v % d)
OBVIOUS

\* Quotient and remainder are unique.
LEMMA DivModUnique ==
  ASSUME NEW d \in Nat \ {0}, NEW q \in Int, NEW r \in 0 .. (d - 1)
  PROVE  /\ ((d * q) + r) \div d = q
         /\ ((d * q) + r) % d = r
<1> DEFINE v == (d * q) + r
           p == v \div d
           s == v % d
<1>1. v \in Int
  OBVIOUS
<1>2. p \in Int /\ s \in 0 .. (d - 1) /\ v = (d * p) + s
  BY <1>1, DivMod
<1>3. d * q = (d * p) + (s - r)
  BY <1>2
<1> HIDE DEF v, p, s
<1>4. (d * q) - (d * p) = d * (q - p)
  BY <1>2
<1>5. q - p \in Int /\ d * (q - p) = s - r /\ s - r < d /\ 0 - d < s - r
  BY <1>2, <1>3, <1>4
<1>6. \A k \in Int : k >= 1 => d * k >= d
  OBVIOUS
<1>7. \A k \in Int : k <= -1 => d * k <= 0 - d
  OBVIOUS
<1>8. q = p
  BY <1>2, <1>5, <1>6, <1>7
<1>9. s = r
  BY <1>2, <1>3, <1>8
<1>10. QED  BY <1>8, <1>9 DEF p, s, v

LEMMA DivBound ==
  ASSUME NEW v \in Nat, NEW d \in Nat \ {0}
  PROVE  v \div d \in 0 .. v
OBVIOUS

LEMMA ModFour ==
  ASSUME NEW v \in Int, NEW m \in Nat \ {0}
  PROVE  (v % (4 * m)) % 4 = v % 4
<1> DEFINE d == 4 * m
           q == v \div d
           r == v % d
<1>1. d \in Nat \ {0}
  OBVIOUS
<1> HIDE DEF d
<1>2. q \in Int /\ r \in Int /\ v = (d * q) + r
  BY <1>1, DivMod
<1> HIDE DEF q, r
<1>3. d * q = 4 * (m * q) /\ m * q \in Int
  BY <1>2 DEF d
<1>4. \A p, s \in Int : ((4 * p) + s) % 4 = s % 4
  OBVIOUS
<1>5. QED  BY <1>2, <1>3, <1>4 DEF r, d

LEMMA FourDividesDword == \E m \in Nat \ {0} : DWORD = 4 * m
<1>1. PICK k \in Nat \ {0} : BYTE = 2 * k
  BY WordsAssumption
<1>2. HALF = 4 * (k * k) /\ k * k \in Nat \ {0}
  BY <1>1 DEF HALF
<1>3. \A h \in Nat : (h * h) * (h * h) = h * ((h * h) * h)
  OBVIOUS
<1>4. DWORD = HALF * (WORD * HALF)
  BY <1>3, Widths DEF WORD, DWORD
<1>5. \A a, b \in Nat \ {0} : (4 * a) * b = 4 * (a * b) /\ a * b \in Nat \ {0}
  OBVIOUS
<1>6. WORD * HALF \in Nat \ {0}
  BY Widths
<1>7. QED  BY <1>2, <1>4, <1>5, <1>6

-----------------------------------------------------------------------------
\* Results of the operators of Words.

LEMMA TruncType ==
  ASSUME NEW v \in Int
  PROVE  Trunc(v) \in Dword
BY Widths, DivMod DEF Trunc, Dword

LEMMA TruncMod4 ==
  ASSUME NEW v \in Int
  PROVE  Trunc(v) % 4 = v % 4
BY FourDividesDword, ModFour DEF Trunc

LEMMA ByteOfType ==
  ASSUME NEW v \in Int, NEW k \in 0 .. 3
  PROVE  ByteOf(v, k) \in Byte
<1>1. Place(k) \in Nat \ {0}
  BY Widths DEF Place
<1>2. v \div Place(k) \in Int
  BY <1>1, DivMod
<1>3. BYTE \in Nat \ {0}
  BY Widths
<1>4. QED  BY <1>2, <1>3, DivMod DEF ByteOf, Byte

LEMMA HalfOfType ==
  ASSUME NEW v \in Word, NEW k \in {0, 1}
  PROVE  HalfOf(v, k) \in Dword
<1>1. HALF \in Nat \ {0} /\ v \in Nat /\ v < DWORD
  BY Widths DEF Word
<1>2. v % HALF \in 0 .. (HALF - 1)
  BY <1>1, DivMod
<1>3. v \div HALF \in 0 .. v
  BY <1>1, DivBound
<1>4. QED  BY <1>1, <1>2, <1>3, Widths DEF HalfOf, Dword

LEMMA ReplaceHalfType ==
  ASSUME NEW v \in Word, NEW k \in {0, 1}, NEW h \in Int
  PROVE  ReplaceHalf(v, k, h) \in Int
BY HalfOfType, Widths DEF ReplaceHalf, Dword, Word

LEMMA ReplaceByteType ==
  ASSUME NEW v \in Word, NEW k \in 0 .. 3, NEW x \in Int
  PROVE  ReplaceByte(v, k, x) \in Int
BY ByteOfType, Widths DEF ReplaceByte, Byte, Word, Place

\* Two digits in base m, taken apart and put together.
LEMMA Digits ==
  ASSUME NEW m \in Nat \ {0}
  PROVE  /\ \A x \in 0 .. ((m * m) - 1) :
              x \div m \in 0 .. (m - 1) /\ x % m \in 0 .. (m - 1)
         /\ \A hi, lo \in 0 .. (m - 1) : (m * hi) + lo \in 0 .. ((m * m) - 1)
<1>1. ASSUME NEW x \in 0 .. ((m * m) - 1)
      PROVE  x \div m \in 0 .. (m - 1) /\ x % m \in 0 .. (m - 1)
  <2>1. x \in Nat
    OBVIOUS
  <2>2. x \div m \in Nat
    BY <2>1, DivBound
  <2>3. x % m \in 0 .. (m - 1) /\ x = (m * (x \div m)) + (x % m)
    BY <2>1, DivMod
  <2>4. \A q \in Nat : q >= m => m * q >= m * m
    OBVIOUS
  <2>5. QED  BY <2>1, <2>2, <2>3, <2>4
<1>2. ASSUME NEW hi \in 0 .. (m - 1), NEW lo \in 0 .. (m - 1)
      PROVE  (m * hi) + lo \in 0 .. ((m * m) - 1)
  <2>1. m * hi <= m * (m - 1) /\ m * (m - 1) = (m * m) - m /\ m * hi >= 0
    OBVIOUS
  <2>2. m * hi \in Int /\ m * m \in Int
    OBVIOUS
  <2>3. QED  BY <2>1, <2>2
<1>3. QED  BY <1>1, <1>2

LEMMA MulType ==
  ASSUME NEW x \in Dword, NEW y \in Dword
  PROVE  Mul(x, y) \in Dword
<1>1. \A d \in Nat \ {0}, a, e \in Int :
        ((((a \div d) * e) % d) * d) + ((a % d) * e) \in Int
  BY DivMod
<1>2. QED  BY <1>1, TruncType, Widths DEF Mul, Dword

LEMMA ShiftTypes ==
  ASSUME NEW x \in Dword, NEW n \in 0 .. 64
  PROVE  ShiftLeft(x, n) \in Dword /\ ShiftRight(x, n) \in Dword
<1>1. 0 \in Dword
  BY Widths DEF Dword
<1>2. CASE n < XLEN
  <2>1. PICK p \in Nat \ {0} : p = 2 ^ n
    BY <1>2, PowerAssumption
  <2>2. x * p \in Int /\ x \div p \in 0 .. x
    BY DivBound DEF Dword
  <2>3. QED  BY <1>2, <2>1, <2>2, TruncType, Widths DEF ShiftLeft, ShiftRight, Dword
<1>3. CASE ~(n < XLEN)
  <2>1. XLEN \in Int
    BY WordsAssumption DEF XLEN
  <2>2. QED  BY <1>1, <1>3, <2>1 DEF ShiftLeft, ShiftRight
<1>4. QED  BY <1>2, <1>3

\* The flags describe one result.
LEMMA FlagTypes ==
  ASSUME NEW v \in Dword
  PROVE  /\ FlagN(v) \in {0, 1} /\ FlagZ(v) \in {0, 1}
         /\ ~(FlagN(v) = 1 /\ FlagZ(v) = 1)
BY Widths DEF FlagN, FlagZ, Dword

\* The binary operators on the values below m.
Binary(m) == [0 .. (m - 1) -> [0 .. (m - 1) -> 0 .. (m - 1)]]

LEMMA LiftType ==
  ASSUME NEW m \in Nat \ {0}, NEW op \in Binary(m)
  PROVE  Lift(op, m) \in Binary(m * m)
<1>1. ASSUME NEW x \in 0 .. ((m * m) - 1), NEW y \in 0 .. ((m * m) - 1)
      PROVE  (m * op[x \div m][y \div m]) + op[x % m][y % m] \in 0 .. ((m * m) - 1)
  <2>1. /\ op[x \div m][y \div m] \in 0 .. (m - 1)
        /\ op[x % m][y % m] \in 0 .. (m - 1)
    BY Digits DEF Binary
  <2>2. QED  BY <2>1, Digits
<1>2. QED  BY <1>1 DEF Lift, Binary

LEMMA BytewiseType ==
  ASSUME NEW op \in Binary(BYTE)
  PROVE  Bytewise(op) \in Binary(DWORD)
<1>1. BYTE \in Nat \ {0} /\ HALF \in Nat \ {0} /\ WORD \in Nat \ {0}
  BY Widths
<1>2. Lift(op, BYTE) \in Binary(HALF)
  BY <1>1, LiftType DEF HALF
<1>3. Lift(Lift(op, BYTE), HALF) \in Binary(WORD)
  BY <1>1, <1>2, LiftType DEF WORD
<1>4. Lift(Lift(Lift(op, BYTE), HALF), WORD) \in Binary(DWORD)
  BY <1>1, <1>3, LiftType DEF DWORD
<1>5. QED  BY <1>4 DEF Bytewise

LEMMA LogicTypes ==
  ASSUME NEW x \in Dword, NEW y \in Dword
  PROVE  And64(x, y) \in Dword /\ Or64(x, y) \in Dword /\ Xor64(x, y) \in Dword
<1>1. \A op \in {ByteAnd, ByteOr, ByteXor} : op \in Binary(BYTE)
  BY WordsAssumption DEF Binary, Byte
<1>2. \A op \in {ByteAnd, ByteOr, ByteXor} : Bytewise(op) \in Binary(DWORD)
  BY <1>1, BytewiseType
<1>3. QED  BY <1>2 DEF And64, Or64, Xor64, Binary, Dword

-----------------------------------------------------------------------------
\* A word and its bytes.

FourBytes(b0, b1, b2, b3) == (b0 + (BYTE * b1)) + (HALF * (b2 + (BYTE * b3)))

LEMMA TwoBytes ==
  ASSUME NEW lo \in Byte, NEW hi \in Byte
  PROVE  lo + (BYTE * hi) \in 0 .. (HALF - 1)
<1>1. BYTE \in Nat \ {0}
  BY Widths
<1>2. (BYTE * hi) + lo \in 0 .. ((BYTE * BYTE) - 1)
  BY <1>1, Digits DEF Byte
<1>3. QED  BY <1>1, <1>2 DEF HALF, Byte

LEMMA FourBytesType ==
  ASSUME NEW b0 \in Byte, NEW b1 \in Byte, NEW b2 \in Byte, NEW b3 \in Byte
  PROVE  FourBytes(b0, b1, b2, b3) \in Word
<1> DEFINE lo == b0 + (BYTE * b1)
           hi == b2 + (BYTE * b3)
<1>1. lo \in 0 .. (HALF - 1) /\ hi \in 0 .. (HALF - 1)
  BY TwoBytes
<1> HIDE DEF lo, hi
<1>2. HALF \in Nat \ {0}
  BY Widths
<1>3. (HALF * hi) + lo \in 0 .. (WORD - 1)
  BY <1>1, <1>2, Digits DEF WORD
<1>4. (HALF * hi) + lo = lo + (HALF * hi)
  BY <1>1, <1>2
<1>5. QED  BY <1>3, <1>4 DEF FourBytes, Word, lo, hi

LEMMA HalvesOfWord ==
  ASSUME NEW b0 \in Byte, NEW b1 \in Byte, NEW b2 \in Byte, NEW b3 \in Byte
  PROVE  /\ FourBytes(b0, b1, b2, b3) % HALF = b0 + (BYTE * b1)
         /\ FourBytes(b0, b1, b2, b3) \div HALF = b2 + (BYTE * b3)
<1> DEFINE lo == b0 + (BYTE * b1)
           hi == b2 + (BYTE * b3)
<1>1. lo \in 0 .. (HALF - 1) /\ hi \in 0 .. (HALF - 1)
  BY TwoBytes
<1> HIDE DEF lo, hi
<1>2. HALF \in Nat \ {0}
  BY Widths
<1>3. FourBytes(b0, b1, b2, b3) = (HALF * hi) + lo
  <2>1. FourBytes(b0, b1, b2, b3) = lo + (HALF * hi)
    BY DEF FourBytes, lo, hi
  <2>2. QED  BY <1>1, <1>2, <2>1
<1>4. ((HALF * hi) + lo) \div HALF = hi /\ ((HALF * hi) + lo) % HALF = lo
  <2>1. hi \in Int
    BY <1>1
  <2>2. QED  BY <1>1, <1>2, <2>1, DivModUnique
<1>5. QED  BY <1>3, <1>4 DEF lo, hi

\* ByteOf takes a word apart into the bytes it is made of.
LEMMA BytesOfWord ==
  ASSUME NEW b0 \in Byte, NEW b1 \in Byte, NEW b2 \in Byte, NEW b3 \in Byte
  PROVE  LET w == FourBytes(b0, b1, b2, b3)
         IN  ByteOf(w, 0) = b0 /\ ByteOf(w, 1) = b1 /\ ByteOf(w, 2) = b2 /\ ByteOf(w, 3) = b3
<1> DEFINE w == FourBytes(b0, b1, b2, b3)
           lo == b0 + (BYTE * b1)
           hi == b2 + (BYTE * b3)
<1>1. BYTE \in Nat \ {0} /\ HALF \in Nat \ {0} /\ HALF * BYTE \in Nat \ {0}
  <2>1. BYTE \in Nat \ {0} /\ HALF \in Nat \ {0}
    BY Widths
  <2>2. QED  BY <2>1
<1>2. /\ b0 \in 0 .. (BYTE - 1) /\ b1 \in 0 .. (BYTE - 1)
      /\ b2 \in 0 .. (BYTE - 1) /\ b3 \in 0 .. (BYTE - 1)
  BY DEF Byte
<1>3. lo \in 0 .. (HALF - 1) /\ hi \in 0 .. (HALF - 1)
  BY TwoBytes
<1>4. HALF = BYTE * BYTE
  BY DEF HALF
<1>5. ASSUME NEW x \in 0 .. (BYTE - 1), NEW y \in Int
      PROVE  (x + (BYTE * y)) \div BYTE = y /\ (x + (BYTE * y)) % BYTE = x
  <2>1. x + (BYTE * y) = (BYTE * y) + x
    BY <1>1
  <2>2. ((BYTE * y) + x) \div BYTE = y /\ ((BYTE * y) + x) % BYTE = x
    BY <1>1, DivModUnique
  <2>3. QED  BY <2>1, <2>2
<1>6. w \div HALF = hi
  BY HalvesOfWord
<1>7. hi % BYTE = b2
  BY <1>1, <1>2, <1>5
<1>8. w = b0 + (BYTE * (b1 + (BYTE * hi)))
  <2>1. \A x, y, z \in Int : (x + (BYTE * y)) + ((BYTE * BYTE) * z) = x + (BYTE * (y + (BYTE * z)))
    BY <1>1
  <2>2. QED  BY <1>1, <1>2, <1>3, <1>4, <2>1 DEF FourBytes
<1>9. b1 + (BYTE * hi) \in Int
  BY <1>1, <1>2, <1>3
<1>10. w % BYTE = b0 /\ (w \div BYTE) % BYTE = b1
  <2>1. w % BYTE = b0 /\ w \div BYTE = b1 + (BYTE * hi)
    BY <1>2, <1>5, <1>8, <1>9
  <2>2. QED  BY <1>2, <1>3, <1>5, <2>1
<1>11. w \div (HALF * BYTE) = b3
  <2>1. lo + (HALF * b2) \in 0 .. ((HALF * BYTE) - 1)
    <3>1. HALF * b2 <= HALF * (BYTE - 1) /\ HALF * (BYTE - 1) = (HALF * BYTE) - HALF /\ HALF * b2 >= 0
      BY <1>1, <1>2
    <3>2. HALF * b2 \in Int /\ HALF * BYTE \in Int
      BY <1>1, <1>2
    <3>3. QED  BY <1>1, <1>3, <3>1, <3>2
  <2>2. w = ((HALF * BYTE) * b3) + (lo + (HALF * b2))
    <3>1. \A x, y, z \in Int : x + (HALF * (y + (BYTE * z))) = ((HALF * BYTE) * z) + (x + (HALF * y))
      BY <1>1
    <3>2. QED  BY <1>1, <1>2, <1>3, <3>1 DEF FourBytes
  <2>3. b3 \in Int
    BY <1>2
  <2> HIDE DEF w, lo
  <2>4. QED  BY <1>1, <2>1, <2>2, <2>3, DivModUnique
<1>12. b3 % BYTE = b3 /\ w \div 1 = w
  <2>1. w \in Int
    BY FourBytesType, Widths DEF Word
  <2> HIDE DEF w
  <2>2. QED  BY <1>1, <1>2, <2>1
<1>13. QED
  BY <1>6, <1>7, <1>10, <1>11, <1>12 DEF ByteOf, Place

LEMMA ReplacedByte ==
  ASSUME NEW b0 \in Byte, NEW b1 \in Byte, NEW b2 \in Byte, NEW b3 \in Byte, NEW v \in Byte
  PROVE  LET w == FourBytes(b0, b1, b2, b3)
         IN  /\ ReplaceByte(w, 0, v) = FourBytes(v, b1, b2, b3)
             /\ ReplaceByte(w, 1, v) = FourBytes(b0, v, b2, b3)
             /\ ReplaceByte(w, 2, v) = FourBytes(b0, b1, v, b3)
             /\ ReplaceByte(w, 3, v) = FourBytes(b0, b1, b2, v)
<1> DEFINE w == FourBytes(b0, b1, b2, b3)
<1>1. BYTE \in Int /\ HALF \in Int
  BY Widths
<1>2. b0 \in Int /\ b1 \in Int /\ b2 \in Int /\ b3 \in Int /\ v \in Int
  BY <1>1 DEF Byte
<1>3. ReplaceByte(w, 0, v) = w + (v - b0) /\ ReplaceByte(w, 1, v) = w + ((v - b1) * BYTE)
  <2>1. ByteOf(w, 0) = b0 /\ ByteOf(w, 1) = b1
    BY BytesOfWord
  <2> HIDE DEF w
  <2>2. QED  BY <1>2, <2>1 DEF ReplaceByte, Place
<1>4. /\ ReplaceByte(w, 2, v) = w + ((v - b2) * HALF)
      /\ ReplaceByte(w, 3, v) = w + ((v - b3) * (HALF * BYTE))
  <2>1. ByteOf(w, 2) = b2 /\ ByteOf(w, 3) = b3
    BY BytesOfWord
  <2> HIDE DEF w
  <2>2. QED  BY <1>2, <2>1 DEF ReplaceByte, Place
<1>5. w + (v - b0) = FourBytes(v, b1, b2, b3)
  BY <1>1, <1>2 DEF FourBytes
<1>6. w + ((v - b1) * BYTE) = FourBytes(b0, v, b2, b3)
  BY <1>1, <1>2 DEF FourBytes
<1>7. w + ((v - b2) * HALF) = FourBytes(b0, b1, v, b3)
  BY <1>1, <1>2 DEF FourBytes
<1>8. w + ((v - b3) * (HALF * BYTE)) = FourBytes(b0, b1, b2, v)
  BY <1>1, <1>2 DEF FourBytes
<1>9. QED  BY <1>3, <1>4, <1>5, <1>6, <1>7, <1>8

LEMMA ReplacedHalf ==
  ASSUME NEW b0 \in Byte, NEW b1 \in Byte, NEW b2 \in Byte, NEW b3 \in Byte,
         NEW lo \in Byte, NEW hi \in Byte
  PROVE  LET w == FourBytes(b0, b1, b2, b3)
         IN  /\ ReplaceHalf(w, 0, lo + (BYTE * hi)) = FourBytes(lo, hi, b2, b3)
             /\ ReplaceHalf(w, 1, lo + (BYTE * hi)) = FourBytes(b0, b1, lo, hi)
<1> DEFINE w == FourBytes(b0, b1, b2, b3)
           v == lo + (BYTE * hi)
<1>1. BYTE \in Int /\ HALF \in Int
  BY Widths
<1>2. /\ b0 \in Int /\ b1 \in Int /\ b2 \in Int /\ b3 \in Int
      /\ lo \in Int /\ hi \in Int
  BY <1>1 DEF Byte
<1>3. HalfOf(w, 0) = b0 + (BYTE * b1) /\ HalfOf(w, 1) = b2 + (BYTE * b3)
  BY HalvesOfWord DEF HalfOf
<1>4. /\ ReplaceHalf(w, 0, v) = w + (v - (b0 + (BYTE * b1)))
      /\ ReplaceHalf(w, 1, v) = w + ((v - (b2 + (BYTE * b3))) * HALF)
  <2>1. v - (b0 + (BYTE * b1)) \in Int
    BY <1>1, <1>2
  <2> HIDE DEF w, v
  <2>2. QED  BY <1>3, <2>1 DEF ReplaceHalf
<1>5. w + (v - (b0 + (BYTE * b1))) = FourBytes(lo, hi, b2, b3)
  BY <1>1, <1>2 DEF FourBytes
<1>6. w + ((v - (b2 + (BYTE * b3))) * HALF) = FourBytes(b0, b1, lo, hi)
  <2>1. (v - (b2 + (BYTE * b3))) * HALF = (HALF * v) - (HALF * (b2 + (BYTE * b3)))
    BY <1>1, <1>2
  <2>2. QED  BY <1>1, <1>2, <2>1 DEF FourBytes
<1>7. QED  BY <1>4, <1>5, <1>6

-----------------------------------------------------------------------------
\* The accessors of Memory.

\* Simulated addresses are integers.
LEMMA BackedType == Backed \subseteq Int
BY MemoryAssumption DEF Backed, Backs, TEXT, DATA, STACK

\* An access that passes the range test stays inside the region's array.
LEMMA MappedBacked ==
  ASSUME NEW address \in Int, Mapped(address)
  PROVE  address .. (address + 3) \subseteq Backed
<1>1. PICK j \in 1 .. 3 :
        /\ address >= MEM_REGIONS[j].start
        /\ address < MEM_REGIONS[j].start + MEM_REGIONS[j].size
  BY DEF Mapped
<1>2. MEM_REGIONS[j].start \in Nat /\ MEM_REGIONS[j].size \in Nat
  BY MemoryAssumption
<1>3. address .. (address + 3) \subseteq Backs(MEM_REGIONS[j])
  BY <1>1, <1>2 DEF Backs
<1>4. Backs(MEM_REGIONS[j]) \subseteq Backed
  BY DEF Backed, TEXT, DATA, STACK
<1>5. QED  BY <1>3, <1>4

LEMMA ReadType ==
  ASSUME NEW m \in [Backed -> Byte], NEW address \in Int
  PROVE  mem_read_32(m, address) \in Word
<1>1. CASE ~Mapped(address)
  BY <1>1, Widths DEF mem_read_32, Word
<1>2. CASE Mapped(address)
  <2>1. \A k \in 0 .. 3 : m[address + k] \in 0 .. (BYTE - 1)
    BY <1>2, MappedBacked DEF Byte
  <2>2. \A lo, hi \in 0 .. (BYTE - 1) : lo + (BYTE * hi) \in 0 .. (HALF - 1)
    <3>1. BYTE \in Nat \ {0}
      BY Widths
    <3>2. QED  BY <3>1, Digits DEF HALF
  <2>3. \A lo, hi \in 0 .. (HALF - 1) : lo + (HALF * hi) \in 0 .. (WORD - 1)
    <3>1. HALF \in Nat \ {0}
      BY Widths
    <3>2. QED  BY <3>1, Digits DEF WORD
  <2>4. m[address] \in 0 .. (BYTE - 1)
    BY <2>1
  <2>5. QED  BY <1>2, <2>1, <2>2, <2>3, <2>4, SMTT(40) DEF mem_read_32, Word
<1>3. QED  BY <1>1, <1>2

LEMMA WriteType ==
  ASSUME NEW m \in [Backed -> Byte], NEW address \in Int, NEW value \in Int
  PROVE  mem_write_32(m, address, value) \in [Backed -> Byte]
<1>1. \A a \in address .. (address + 3) : a - address \in 0 .. 3
  OBVIOUS
<1>2. QED  BY <1>1, ByteOfType DEF mem_write_32

\* A mapped word is made of the four bytes at its address, and writing back a
\* word replaces just these.
LEMMA ReadBytes ==
  ASSUME NEW m \in [Backed -> Byte], NEW address \in Int, Mapped(address)
  PROVE  /\ \A k \in 0 .. 3 : m[address + k] \in Byte
         /\ m[address] \in Byte
         /\ mem_read_32(m, address) =
              FourBytes(m[address], m[address + 1], m[address + 2], m[address + 3])
<1>1. \A k \in 0 .. 3 : address + k \in Backed
  BY MappedBacked
<1>2. address \in Backed
  BY <1>1
<1>3. QED  BY <1>1, <1>2 DEF mem_read_32, FourBytes

Patched(m, address, b0, b1, b2, b3) ==
  [a \in Backed |-> CASE a = address     -> b0
                      [] a = address + 1 -> b1
                      [] a = address + 2 -> b2
                      [] a = address + 3 -> b3
                      [] OTHER           -> m[a]]

LEMMA WriteBytes ==
  ASSUME NEW m \in [Backed -> Byte], NEW address \in Int, Mapped(address),
         NEW b0 \in Byte, NEW b1 \in Byte, NEW b2 \in Byte, NEW b3 \in Byte
  PROVE  mem_write_32(m, address, FourBytes(b0, b1, b2, b3)) =
          Patched(m, address, b0, b1, b2, b3)
<1> DEFINE w == FourBytes(b0, b1, b2, b3)
<1>1. ByteOf(w, 0) = b0 /\ ByteOf(w, 1) = b1 /\ ByteOf(w, 2) = b2 /\ ByteOf(w, 3) = b3
  BY BytesOfWord
<1> HIDE DEF w
<1>2. ASSUME NEW a \in Backed
      PROVE  (IF a \in address .. (address + 3) THEN ByteOf(w, a - address) ELSE m[a]) =
               CASE a = address     -> b0
                 [] a = address + 1 -> b1
                 [] a = address + 2 -> b2
                 [] a = address + 3 -> b3
                 [] OTHER           -> m[a]
  <2>1. a \in Int
    BY BackedType
  <2>2. CASE a = address
    <3>1. a \in address .. (address + 3) /\ a - address = 0
      BY <2>2
    <3>2. QED  BY <1>1, <2>2, <3>1
  <2>3. CASE a = address + 1
    <3>1. a \in address .. (address + 3) /\ a - address = 1 /\ a # address
      BY <2>3
    <3>2. QED  BY <1>1, <2>3, <3>1
  <2>4. CASE a = address + 2
    <3>1. a \in address .. (address + 3) /\ a - address = 2 /\ a # address /\ a # address + 1
      BY <2>4
    <3>2. QED  BY <1>1, <2>4, <3>1
  <2>5. CASE a = address + 3
    <3>1. /\ a \in address .. (address + 3) /\ a - address = 3
          /\ a # address /\ a # address + 1 /\ a # address + 2
      BY <2>5
    <3>2. QED  BY <1>1, <2>5, <3>1
  <2>6. CASE ~(a \in address .. (address + 3))
    <3>1. a # address /\ a # address + 1 /\ a # address + 2 /\ a # address + 3
      BY <2>6
    <3>2. QED  BY <2>6, <3>1
  <2>7. QED  BY <2>1, <2>2, <2>3, <2>4, <2>5, <2>6
<1>3. QED  BY <1>2 DEF mem_write_32, Patched, w

\* A word read, with one byte replaced and written back, changes that byte of memory.
LEMMA StoredByte ==
  ASSUME NEW m \in [Backed -> Byte], NEW address \in Int, Mapped(address),
         NEW k \in 0 .. 3, NEW v \in Byte, NEW p, p = address + k
  PROVE  \A a \in Backed :
           mem_write_32(m, address, ReplaceByte(mem_read_32(m, address), k, v))[a] =
             IF a = p THEN v ELSE m[a]
<1> DEFINE b0 == m[address]
           b1 == m[address + 1]
           b2 == m[address + 2]
           b3 == m[address + 3]
           w  == FourBytes(b0, b1, b2, b3)
<1>1. /\ b0 \in Byte /\ b1 \in Byte /\ b2 \in Byte /\ b3 \in Byte
      /\ mem_read_32(m, address) = w
  BY ReadBytes
<1>2. \A a \in Backed : m[a] = CASE a = address     -> b0
                              [] a = address + 1 -> b1
                              [] a = address + 2 -> b2
                              [] a = address + 3 -> b3
                              [] OTHER           -> m[a]
  OBVIOUS
<1>3. m = [a \in Backed |-> m[a]] /\ \A a \in Backed : a \in Int
  BY BackedType
<1> HIDE DEF b0, b1, b2, b3
<1>4. CASE k = 0
  <2>1. ReplaceByte(w, k, v) = FourBytes(v, b1, b2, b3)
    BY <1>1, <1>4, ReplacedByte
  <2>2. mem_write_32(m, address, FourBytes(v, b1, b2, b3)) =
          Patched(m, address, v, b1, b2, b3)
    BY <1>1, WriteBytes
  <2>3. p = address
    BY <1>4
  <2> HIDE DEF w
  <2>4. QED  BY <1>1, <1>2, <1>3, <2>1, <2>2, <2>3 DEF Patched
<1>5. CASE k = 1
  <2>1. ReplaceByte(w, k, v) = FourBytes(b0, v, b2, b3)
    BY <1>1, <1>5, ReplacedByte
  <2>2. mem_write_32(m, address, FourBytes(b0, v, b2, b3)) =
          Patched(m, address, b0, v, b2, b3)
    BY <1>1, WriteBytes
  <2>3. p = address + 1
    BY <1>5
  <2> HIDE DEF w
  <2>4. QED  BY <1>1, <1>2, <1>3, <2>1, <2>2, <2>3 DEF Patched
<1>6. CASE k = 2
  <2>1. ReplaceByte(w, k, v) = FourBytes(b0, b1, v, b3)
    BY <1>1, <1>6, ReplacedByte
  <2>2. mem_write_32(m, address, FourBytes(b0, b1, v, b3)) =
          Patched(m, address, b0, b1, v, b3)
    BY <1>1, WriteBytes
  <2>3. p = address + 2
    BY <1>6
  <2> HIDE DEF w
  <2>4. QED  BY <1>1, <1>2, <1>3, <2>1, <2>2, <2>3 DEF Patched
<1>7. CASE k = 3
  <2>1. ReplaceByte(w, k, v) = FourBytes(b0, b1, b2, v)
    BY <1>1, <1>7, ReplacedByte
  <2>2. mem_write_32(m, address, FourBytes(b0, b1, b2, v)) =
          Patched(m, address, b0, b1, b2, v)
    BY <1>1, WriteBytes
  <2>3. p = address + 3
    BY <1>7
  <2> HIDE DEF w
  <2>4. QED  BY <1>1, <1>2, <1>3, <2>1, <2>2, <2>3 DEF Patched
<1>8. QED  BY <1>4, <1>5, <1>6, <1>7

\* The same of a halfword.
LEMMA StoredHalf ==
  ASSUME NEW m \in [Backed -> Byte], NEW address \in Int, Mapped(address),
         NEW k \in {0, 1}, NEW lo \in Byte, NEW hi \in Byte,
         NEW p, p = address + (2 * k), NEW v, v = lo + (BYTE * hi)
  PROVE  \A a \in Backed :
           mem_write_32(m, address, ReplaceHalf(mem_read_32(m, address), k, v))[a] =
             IF a = p THEN lo ELSE IF a = p + 1 THEN hi ELSE m[a]
<1> DEFINE b0 == m[address]
           b1 == m[address + 1]
           b2 == m[address + 2]
           b3 == m[address + 3]
           w  == FourBytes(b0, b1, b2, b3)
           h  == lo + (BYTE * hi)
<1>1. /\ b0 \in Byte /\ b1 \in Byte /\ b2 \in Byte /\ b3 \in Byte
      /\ mem_read_32(m, address) = w
  BY ReadBytes
<1>2. \A a \in Backed : m[a] = CASE a = address     -> b0
                              [] a = address + 1 -> b1
                              [] a = address + 2 -> b2
                              [] a = address + 3 -> b3
                              [] OTHER           -> m[a]
  OBVIOUS
<1>3. m = [a \in Backed |-> m[a]] /\ \A a \in Backed : a \in Int
  BY BackedType
<1> HIDE DEF b0, b1, b2, b3
<1>4. v = h
  OBVIOUS
<1>5. CASE k = 0
  <2>1. ReplaceHalf(w, k, h) = FourBytes(lo, hi, b2, b3)
    BY <1>1, <1>5, ReplacedHalf, SMTT(40)
  <2>2. mem_write_32(m, address, FourBytes(lo, hi, b2, b3)) =
          Patched(m, address, lo, hi, b2, b3)
    BY <1>1, WriteBytes
  <2>3. p = address /\ p + 1 = address + 1
    BY <1>5
  <2> HIDE DEF w, h
  <2>4. QED  BY <1>1, <1>2, <1>3, <1>4, <2>1, <2>2, <2>3 DEF Patched
<1>6. CASE k = 1
  <2>1. ReplaceHalf(w, k, h) = FourBytes(b0, b1, lo, hi)
    BY <1>1, <1>6, ReplacedHalf, SMTT(40)
  <2>2. mem_write_32(m, address, FourBytes(b0, b1, lo, hi)) =
          Patched(m, address, b0, b1, lo, hi)
    BY <1>1, WriteBytes
  <2>3. p = address + 2 /\ p + 1 = address + 3
    BY <1>6
  <2> HIDE DEF w, h
  <2>4. QED  BY <1>1, <1>2, <1>3, <1>4, <2>1, <2>2, <2>3 DEF Patched
<1>7. QED  BY <1>5, <1>6
=============================================================================
