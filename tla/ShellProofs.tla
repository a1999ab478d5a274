----------------------------- MODULE ShellProofs ------------------------------
(***************************************************************************)
(* The safety properties of Shell for every value of the constants: type     *)
(* correctness, the two copies of the state, the alignment of PC, the flags, *)
(* and what may happen once the machine has halted.                          *)
(***************************************************************************)
EXTENDS Shell, WordLemmas, DecoderLemmas

-----------------------------------------------------------------------------
\* Updates of the two copies.

LEMMA UpdateTypes ==
  ASSUME NEW s \in CPU_State, NEW k, NEW v \in Dword
  PROVE  /\ [s EXCEPT !.REGS[k] = v] \in CPU_State
         /\ [s EXCEPT !.PC = v] \in CPU_State
         /\ [s EXCEPT !.FLAG_N = FlagN(v), !.FLAG_Z = FlagZ(v)] \in CPU_State
         /\ [s EXCEPT !.REGS[k] = v, !.FLAG_N = FlagN(v), !.FLAG_Z = FlagZ(v)] \in CPU_State
<1>1. FlagN(v) \in Flag /\ FlagZ(v) \in Flag
  BY FlagTypes DEF Flag
<1>2. QED  BY <1>1 DEF CPU_State

\* A branch target is a 64-bit address, a multiple of 4 whenever PC is one.
LEMMA TargetType ==
  ASSUME NEW s \in CPU_State, CURRENT_STATE = s, NEW field \in Nat, NEW signed
  PROVE  /\ Target(field, signed) \in Dword
         /\ s.PC % 4 = 0 => Target(field, signed) % 4 = 0
<1> DEFINE offset == SignExtended(field, Bit18, SignBit(signed, Bit18))
<1>1. offset \in Int
  BY DEF SignExtended, Bit18
<1>2. s.PC \in Int
  BY Widths DEF CPU_State, Dword
<1> HIDE DEF offset
<1>3. s.PC + (4 * offset) \in Int
  BY <1>1, <1>2
<1>4. s.PC % 4 = 0 => (s.PC + (4 * offset)) % 4 = 0
  BY <1>1, <1>2
<1>5. Target(field, signed) = Trunc(s.PC + (4 * offset))
  BY DEF Target, offset
<1>6. QED  BY <1>3, <1>4, <1>5, TruncType, TruncMod4

\* The address of an access, and the one it is aligned down to.
LEMMA AddressTypes ==
  ASSUME instr \in Instruction, NEW base \in Dword
  PROVE  /\ Address(base) \in Dword
         /\ Aligned(Address(base)) \in Int
         /\ Address(base) % 4 \in 0 .. 3
         /\ (Address(base) \div 2) % 2 \in {0, 1}
<1> DEFINE offset == SignExtended(instr.dt_address, Bit8, SignBit(instr.dt_address, Bit8))
<1>1. offset \in Int
  BY DEF SignExtended, Bit8, Instruction
<1>2. base \in Int
  BY Widths DEF Dword
<1> HIDE DEF offset
<1>3. Address(base) \in Dword
  BY <1>1, <1>2, TruncType DEF Address, offset
<1>4. Address(base) \in Int
  BY <1>3, Widths DEF Dword
<1>5. Address(base) % WORD \in Int
  BY <1>4, Widths, DivMod
<1>6. QED  BY <1>3, <1>4, <1>5 DEF Aligned

-----------------------------------------------------------------------------
\* Type correctness.

LEMMA ReadTypes ==
  ASSUME TypeOK, NEW k \in Nat
  PROVE  Reads(k) \subseteq Dword
<1>1. CURRENT_STATE \in CPU_State
  BY DEF TypeOK
<1>2. StrayValues \subseteq Dword
  BY SimulatorAssumption
<1>3. ARM_REGS \in Nat /\ (k < ARM_REGS => k \in 0 .. (ARM_REGS - 1))
  BY DEF ARM_REGS
<1>4. QED  BY <1>1, <1>2, <1>3 DEF Reads, CPU_State

-----------------------------------------------------------------------------
\* Every handler has one of these effects, whatever the operands and the
\* instruction's fields are.  The invariants need no more of it.

RegisterResult == OnlyNextState /\ \E v \in Dword : Writes(instr.rd, v)
RegisterAndFlags ==
  /\ OnlyNextState /\ instr.name \in FlagSetters
  /\ \E v \in Dword : WritesAndFlags(instr.rd, v)
FlagsResult ==
  /\ OnlyNextState /\ instr.name \in FlagSetters
  /\ \E v \in Dword : FlagsOnly(v)
Jump ==
  /\ OnlyNextState
  /\ \E a \in Dword : Branches(a) /\ (CURRENT_STATE.PC % 4 = 0 => a % 4 = 0)
NoResult == OnlyNextState /\ UNCHANGED NEXT_STATE
Store == OnlyMemory /\ mem' \in [Backed -> Byte]
EarlyResult ==
  /\ UNCHANGED <<NEXT_STATE, RUN_BIT, INSTRUCTION_COUNT, mem, instr>>
  /\ \E v \in Dword : CURRENT_STATE' = [CURRENT_STATE EXCEPT !.REGS[instr.rd] = v]
Halt ==
  /\ UNCHANGED <<CURRENT_STATE, NEXT_STATE, INSTRUCTION_COUNT, mem, instr>>
  /\ RUN_BIT' = 0

Effect ==
  /\ stage = "execute" /\ stage' \in {"latch", "crashed"}
  /\ \/ RegisterResult \/ RegisterAndFlags \/ FlagsResult \/ Jump \/ NoResult
     \/ Store \/ EarlyResult \/ Halt

LEMMA Results ==
  ASSUME NEW x \in Dword, NEW y \in Dword, NEW n \in Nat
  PROVE  /\ Trunc(x + y) \in Dword /\ Trunc(x - y) \in Dword
         /\ Trunc(x + n) \in Dword /\ Trunc(x - n) \in Dword /\ Trunc(n) \in Dword
<1>1. x \in Int /\ y \in Int /\ n \in Int
  BY Widths DEF Dword
<1>2. x + y \in Int /\ x - y \in Int /\ x + n \in Int /\ x - n \in Int
  BY <1>1
<1>3. QED  BY <1>1, <1>2, TruncType

\* The arithmetic and logic handlers.
LEMMA ArithmeticEffect ==
  ASSUME TypeOK,
         \/ implement_ADDS_immediate \/ implement_ADDS_extended_register
         \/ implement_SUBS_immediate \/ implement_SUBS_extended_register
         \/ implement_ANDS_shifted_register \/ implement_EOR_shifted_register
         \/ implement_ORR_shifted_register \/ implement_MOVZ
         \/ implement_LSL_immediate \/ implement_LSR_immediate
         \/ implement_ADD_immediate \/ implement_ADD_extended_register \/ implement_MUL
  PROVE  Effect
<1>1. stage = "execute" /\ stage' = "latch"
  BY DEF Runs, implement_ADDS_immediate, implement_ADDS_extended_register,
         implement_SUBS_immediate, implement_SUBS_extended_register,
         implement_ANDS_shifted_register, implement_EOR_shifted_register,
         implement_ORR_shifted_register, implement_MOVZ, implement_LSL_immediate,
         implement_LSR_immediate, implement_ADD_immediate,
         implement_ADD_extended_register, implement_MUL
<1>2. instr \in Instruction
  BY <1>1 DEF TypeOK
<1>3. /\ instr.rn \in Nat /\ instr.rm \in Nat /\ instr.shamt \in Nat
      /\ instr.alu_immediate \in Nat /\ instr.mov_immediate \in Nat
  BY <1>2 DEF Instruction
<1>4. \A k \in Nat : Reads(k) \subseteq Dword
  BY ReadTypes
<1>5. CASE implement_ADDS_immediate
  <2>1. RegisterAndFlags
    BY <1>3, <1>4, <1>5, Results
       DEF implement_ADDS_immediate, Runs, RegisterAndFlags, FlagSetters
  <2>2. QED  BY <1>1, <2>1 DEF Effect
<1>6. CASE implement_ADDS_extended_register
  <2>1. RegisterAndFlags
    BY <1>3, <1>4, <1>6, Results
       DEF implement_ADDS_extended_register, Runs, RegisterAndFlags, FlagSetters
  <2>2. QED  BY <1>1, <2>1 DEF Effect
<1>7. CASE implement_SUBS_immediate
  <2>1. RegisterAndFlags \/ FlagsResult
    BY <1>3, <1>4, <1>7, Results
       DEF implement_SUBS_immediate, Runs, RegisterAndFlags, FlagsResult, FlagSetters
  <2>2. QED  BY <1>1, <2>1 DEF Effect
<1>8. CASE implement_SUBS_extended_register
  <2>1. RegisterAndFlags \/ FlagsResult
    BY <1>3, <1>4, <1>8, Results
       DEF implement_SUBS_extended_register, Runs, RegisterAndFlags, FlagsResult, FlagSetters
  <2>2. QED  BY <1>1, <2>1 DEF Effect
<1>9. CASE implement_ANDS_shifted_register
  <2>1. RegisterAndFlags
    BY <1>3, <1>4, <1>9, LogicTypes
       DEF implement_ANDS_shifted_register, Runs, RegisterAndFlags, FlagSetters
  <2>2. QED  BY <1>1, <2>1 DEF Effect
<1>10. CASE implement_EOR_shifted_register
  <2>1. RegisterResult
    BY <1>3, <1>4, <1>10, LogicTypes DEF implement_EOR_shifted_register, RegisterResult
  <2>2. QED  BY <1>1, <2>1 DEF Effect
<1>11. CASE implement_ORR_shifted_register
  <2>1. RegisterResult
    BY <1>3, <1>4, <1>11, LogicTypes DEF implement_ORR_shifted_register, RegisterResult
  <2>2. QED  BY <1>1, <2>1 DEF Effect
<1>12. CASE implement_MOVZ
  <2>1. Trunc(instr.mov_immediate) \in Dword
    BY <1>3, TruncType
  <2>2. RegisterAndFlags
    BY <1>12, <2>1 DEF implement_MOVZ, Runs, RegisterAndFlags, FlagSetters
  <2>3. QED  BY <1>1, <2>2 DEF Effect
<1>13. CASE implement_LSL_immediate
  <2>1. (64 - instr.rm) % 64 \in 0 .. 64
    BY <1>3
  <2>2. RegisterAndFlags
    BY <1>3, <1>4, <1>13, <2>1, ShiftTypes
       DEF implement_LSL_immediate, Runs, RegisterAndFlags, FlagSetters
  <2>3. QED  BY <1>1, <2>2 DEF Effect
<1>14. CASE implement_LSR_immediate
  <2>1. instr.rm % 64 \in 0 .. 64
    BY <1>3
  <2>2. RegisterResult
    BY <1>3, <1>4, <1>14, <2>1, ShiftTypes DEF implement_LSR_immediate, RegisterResult
  <2>3. QED  BY <1>1, <2>2 DEF Effect
<1>15. CASE implement_ADD_immediate
  <2>1. RegisterResult
    BY <1>3, <1>4, <1>15, Results DEF implement_ADD_immediate, RegisterResult
  <2>2. QED  BY <1>1, <2>1 DEF Effect
<1>16. CASE implement_ADD_extended_register
  <2>1. RegisterResult \/ NoResult
    BY <1>3, <1>4, <1>16, Results
       DEF implement_ADD_extended_register, RegisterResult, NoResult, FallsThrough
  <2>2. QED  BY <1>1, <2>1 DEF Effect
<1>17. CASE implement_MUL
  <2>1. RegisterResult
    BY <1>3, <1>4, <1>17, MulType DEF implement_MUL, RegisterResult
  <2>2. QED  BY <1>1, <2>1 DEF Effect
<1>18. QED
  BY <1>5, <1>6, <1>7, <1>8, <1>9, <1>10, <1>11, <1>12, <1>13, <1>14, <1>15, <1>16, <1>17

\* Loads and stores.
LEMMA MemoryEffect ==
  ASSUME TypeOK,
         \/ implement_STUR \/ implement_STURB \/ implement_STURH
         \/ implement_LDUR \/ implement_LDURB \/ implement_LDURH
  PROVE  Effect
<1>1. stage = "execute" /\ stage' = "latch"
  BY DEF Runs, implement_STUR, implement_STURB, implement_STURH,
         implement_LDUR, implement_LDURB, implement_LDURH
<1>2. instr \in Instruction /\ mem \in [Backed -> Byte]
  BY <1>1 DEF TypeOK
<1>3. instr.rn \in Nat /\ instr.rd \in Nat
  BY <1>2 DEF Instruction
<1>4. \A k \in Nat : Reads(k) \subseteq Dword
  BY ReadTypes
<1>5. \A v \in Dword : v % WORD \in Int /\ v % BYTE \in Int /\ v % HALF \in Int
  BY Widths, DivMod DEF Dword
<1>6. \A base \in Dword :
        /\ Address(base) \in Int /\ Aligned(Address(base)) \in Int
        /\ Address(base) % 4 \in 0 .. 3 /\ (Address(base) \div 2) % 2 \in {0, 1}
  BY <1>2, AddressTypes, Widths DEF Dword
<1>7. \A a \in Int : mem_read_32(mem, a) \in Word
  BY <1>2, ReadType
<1>8. \A a, v \in Int : mem_write_32(mem, a, v) \in [Backed -> Byte]
  BY <1>2, WriteType
<1>9. CASE implement_STUR
  <2>1. PICK base \in Dword, value \in Dword :
          mem' = mem_write_32(mem, Address(base), value % WORD)
    BY <1>3, <1>4, <1>9 DEF implement_STUR
  <2>2. mem' \in [Backed -> Byte]
    BY <1>5, <1>6, <1>8, <2>1
  <2>3. Store
    BY <1>9, <2>2 DEF implement_STUR, Store
  <2>4. QED  BY <1>1, <2>3 DEF Effect
<1>10. CASE implement_STURB
  <2>1. PICK base \in Dword, value \in Dword :
          mem' = mem_write_32(mem, Aligned(Address(base)),
                   ReplaceByte(mem_read_32(mem, Aligned(Address(base))),
                               Address(base) % 4, value % BYTE))
    BY <1>3, <1>4, <1>10 DEF implement_STURB
  <2>2. ReplaceByte(mem_read_32(mem, Aligned(Address(base))),
                    Address(base) % 4, value % BYTE) \in Int
    BY <1>5, <1>6, <1>7, ReplaceByteType
  <2>3. Store
    BY <1>6, <1>8, <1>10, <2>1, <2>2 DEF implement_STURB, Store
  <2>4. QED  BY <1>1, <2>3 DEF Effect
<1>11. CASE implement_STURH
  <2>1. PICK base \in Dword, value \in Dword :
          mem' = mem_write_32(mem, Aligned(Address(base)),
                   ReplaceHalf(mem_read_32(mem, Aligned(Address(base))),
                               (Address(base) \div 2) % 2, value % HALF))
    BY <1>3, <1>4, <1>11 DEF implement_STURH
  <2>2. ReplaceHalf(mem_read_32(mem, Aligned(Address(base))),
                    (Address(base) \div 2) % 2, value % HALF) \in Int
    BY <1>5, <1>6, <1>7, ReplaceHalfType
  <2>3. Store
    BY <1>6, <1>8, <1>11, <2>1, <2>2 DEF implement_STURH, Store
  <2>4. QED  BY <1>1, <2>3 DEF Effect
<1>12. CASE implement_LDUR
  <2>1. PICK base \in Dword :
          Writes(instr.rd, (WORD * mem_read_32(mem, (Aligned(Address(base)) + 4) % WORD))
                             + mem_read_32(mem, Aligned(Address(base))))
    BY <1>3, <1>4, <1>12 DEF implement_LDUR
  <2>2. (Aligned(Address(base)) + 4) % WORD \in Int
    <3>1. Aligned(Address(base)) + 4 \in Int
      BY <1>6
    <3>2. WORD \in Nat \ {0}
      BY Widths
    <3>3. QED  BY <3>1, <3>2, DivMod
  <2>3. /\ mem_read_32(mem, (Aligned(Address(base)) + 4) % WORD) \in 0 .. (WORD - 1)
        /\ mem_read_32(mem, Aligned(Address(base))) \in 0 .. (WORD - 1)
    BY <1>6, <1>7, <2>2 DEF Word
  <2>4. (WORD * mem_read_32(mem, (Aligned(Address(base)) + 4) % WORD))
          + mem_read_32(mem, Aligned(Address(base))) \in Dword
    <3>1. WORD \in Nat \ {0}
      BY Widths
    <3>2. QED  BY <2>3, <3>1, Digits DEF Dword, DWORD
  <2>5. RegisterResult
    BY <1>12, <2>1, <2>4 DEF implement_LDUR, RegisterResult
  <2>6. QED  BY <1>1, <2>5 DEF Effect
<1>13. CASE implement_LDURB
  <2>1. PICK base \in Dword :
          Writes(instr.rd, ByteOf(mem_read_32(mem, Aligned(Address(base))),
                                  Address(base) % 4))
    BY <1>3, <1>4, <1>13 DEF implement_LDURB
  <2>2. mem_read_32(mem, Aligned(Address(base))) \in Int
    BY <1>6, <1>7, Widths DEF Word
  <2>3. ByteOf(mem_read_32(mem, Aligned(Address(base))), Address(base) % 4) \in Dword
    <3>1. ByteOf(mem_read_32(mem, Aligned(Address(base))), Address(base) % 4) \in Byte
      BY <1>6, <2>2, ByteOfType
    <3>2. QED  BY <3>1, Widths DEF Byte, Dword
  <2>4. RegisterResult
    BY <1>13, <2>1, <2>3 DEF implement_LDURB, RegisterResult
  <2>5. QED  BY <1>1, <2>4 DEF Effect
<1>14. CASE implement_LDURH
  <2>1. PICK base \in Dword :
          CURRENT_STATE' = [CURRENT_STATE EXCEPT !.REGS[instr.rd] =
            HalfOf(mem_read_32(mem, Aligned(Address(base))), (Address(base) \div 2) % 2)]
    BY <1>3, <1>4, <1>14 DEF implement_LDURH
  <2>2. HalfOf(mem_read_32(mem, Aligned(Address(base))), (Address(base) \div 2) % 2) \in Dword
    BY <1>6, <1>7, HalfOfType
  <2>3. EarlyResult
    BY <1>14, <2>1, <2>2 DEF implement_LDURH, EarlyResult
  <2>4. QED  BY <1>1, <2>3 DEF Effect
<1>15. QED  BY <1>9, <1>10, <1>11, <1>12, <1>13, <1>14

\* Branches, HLT and the words that are no instruction.
LEMMA ControlEffect ==
  ASSUME TypeOK,
         \/ implement_BCOND \/ implement_CBZ \/ implement_CBNZ
         \/ implement_B \/ implement_BR \/ implement_HLT
         \/ Unknown \/ WildAccess \/ NullName
  PROVE  Effect
<1>1. stage = "execute" /\ stage' \in {"latch", "crashed"}
  BY DEF Runs, implement_BCOND, implement_CBZ, implement_CBNZ, implement_B,
         implement_BR, implement_HLT, Unknown, WildAccess, NullName
<1>2. instr \in Instruction /\ CURRENT_STATE \in CPU_State
  BY <1>1 DEF TypeOK
<1>3. /\ instr.rn \in Nat /\ instr.rt \in Nat
      /\ instr.cond_br_address \in Nat /\ instr.br_address \in Nat
  BY <1>2 DEF Instruction
<1>4. \A k \in Nat : Reads(k) \subseteq Dword
  BY ReadTypes
<1>5. \A field \in Nat, signed \in Nat :
        /\ Target(field, signed) \in Dword
        /\ CURRENT_STATE.PC % 4 = 0 => Target(field, signed) % 4 = 0
  BY <1>2, TargetType
<1>6. /\ Trunc(CURRENT_STATE.PC + 4) \in Dword
      /\ CURRENT_STATE.PC % 4 = 0 => Trunc(CURRENT_STATE.PC + 4) % 4 = 0
  <2>1. CURRENT_STATE.PC \in Int
    BY <1>2, Widths DEF CPU_State, Dword
  <2>2. CURRENT_STATE.PC + 4 \in Int
    BY <2>1
  <2>3. CURRENT_STATE.PC % 4 = 0 => (CURRENT_STATE.PC + 4) % 4 = 0
    BY <2>1
  <2>4. QED  BY <2>2, <2>3, TruncType, TruncMod4
<1>7. ASSUME NEW taken \in BOOLEAN, NEW a \in Dword, OnlyNextState, BranchesIf(taken, a)
      PROVE  Jump \/ NoResult
  BY <1>6, <1>7 DEF BranchesIf, Branches, FallsThrough, Jump, NoResult
<1>8. CASE implement_BCOND
  <2>1. Jump \/ NoResult
    BY <1>3, <1>5, <1>8 DEF implement_BCOND, FallsThrough, Jump, NoResult
  <2>2. QED  BY <1>1, <2>1 DEF Effect
<1>9. CASE implement_CBZ
  <2>1. Jump \/ NoResult
    BY <1>3, <1>5, <1>7, <1>9 DEF implement_CBZ
  <2>2. QED  BY <1>1, <2>1 DEF Effect
<1>10. CASE implement_CBNZ
  <2>1. Jump \/ NoResult
    BY <1>3, <1>5, <1>7, <1>10 DEF implement_CBNZ
  <2>2. QED  BY <1>1, <2>1 DEF Effect
<1>11. CASE implement_B
  <2>1. Jump
    BY <1>3, <1>5, <1>11 DEF implement_B, Jump
  <2>2. QED  BY <1>1, <2>1 DEF Effect
<1>12. CASE implement_BR
  <2>1. Jump \/ NoResult
    BY <1>3, <1>4, <1>12 DEF implement_BR, FallsThrough, Jump, NoResult
  <2>2. QED  BY <1>1, <2>1 DEF Effect
<1>13. CASE implement_HLT
  <2>1. Halt
    BY <1>13 DEF implement_HLT, Halt
  <2>2. QED  BY <1>1, <2>1 DEF Effect
<1>14. CASE Unknown \/ WildAccess \/ NullName
  <2>1. NoResult
    BY <1>14 DEF Unknown, WildAccess, NullName, NoResult, OnlyNextState
  <2>2. QED  BY <1>1, <2>1 DEF Effect
<1>15. QED  BY <1>8, <1>9, <1>10, <1>11, <1>12, <1>13, <1>14

LEMMA HandlerEffect ==
  ASSUME TypeOK, Execute
  PROVE  Effect
BY ArithmeticEffect, MemoryEffect, ControlEffect DEF Execute

-----------------------------------------------------------------------------
\* The steps other than handlers, and type correctness.

LEMMA LoadedType ==
  ASSUME NEW program \in Seq(Word), NEW slack \in SlackBytes
  PROVE  Loaded(program, slack) \in [Backed -> Byte]
<1>1. slack \in Byte /\ 0 \in Byte
  BY ShellAssumption, Widths DEF Byte
<1>2. TEXT.start \in Nat
  BY MemoryAssumption DEF TEXT
<1>3. ASSUME NEW a \in Backed, a >= TEXT.start,
             1 + ((a - TEXT.start) \div 4) <= Len(program)
      PROVE  ByteOf(program[1 + ((a - TEXT.start) \div 4)], (a - TEXT.start) % 4) \in Byte
  <2>1. a - TEXT.start \in Nat
    BY <1>2, <1>3, BackedType
  <2>2. 1 + ((a - TEXT.start) \div 4) \in 1 .. Len(program) /\ (a - TEXT.start) % 4 \in 0 .. 3
    BY <1>1, <1>3, <2>1
  <2>3. program[1 + ((a - TEXT.start) \div 4)] \in Int
    BY <2>2, Widths DEF Word
  <2>4. QED  BY <2>2, <2>3, ByteOfType
<1>4. QED  BY <1>1, <1>3 DEF Loaded

LEMMA InitType == Init => TypeOK
<1> SUFFICES ASSUME Init PROVE TypeOK
  OBVIOUS
<1>1. mem \in [Backed -> Byte]
  BY LoadedType, ShellAssumption DEF Init
<1>2. 0 \in Dword /\ 0 \in Word
  BY Widths DEF Dword, Word
<1>3. TEXT.start \in Dword
  BY MemoryAssumption, Widths DEF TEXT, Dword
<1>4. Reset \in CPU_State
  BY <1>2, <1>3 DEF Reset, CPU_State, Flag
<1>5. QED  BY <1>1, <1>2, <1>4 DEF Init, TypeOK

\* Fetch decodes a bytecode into a well-formed instruction.
LEMMA FetchType ==
  ASSUME TypeOK, Fetch
  PROVE  NEXT_STATE' \in CPU_State /\ instr' \in Instruction
<1>1. /\ CURRENT_STATE \in CPU_State /\ NEXT_STATE \in CPU_State
      /\ mem \in [Backed -> Byte]
  BY DEF TypeOK
<1>2. CURRENT_STATE.PC \in Int
  BY <1>1, Widths DEF CPU_State, Dword
<1>3. Trunc(CURRENT_STATE.PC + 4) \in Dword
  <2>1. CURRENT_STATE.PC + 4 \in Int
    BY <1>2
  <2>2. QED  BY <2>1, TruncType
<1>4. NEXT_STATE' \in CPU_State
  BY <1>1, <1>3, UpdateTypes DEF Fetch
<1>5. PICK garbage \in Garbage :
        instr' = decode_instruction(Bytecode[mem_read_32(mem, CURRENT_STATE.PC)], garbage)
  BY DEF Fetch
<1>6. garbage \in Leftover
  BY SimulatorAssumption
<1>7. BytecodeOK(Bytecode[mem_read_32(mem, CURRENT_STATE.PC)])
  <2>1. mem_read_32(mem, CURRENT_STATE.PC) \in Word
    BY <1>1, <1>2, ReadType
  <2>2. QED  BY <2>1, SimulatorAssumption
<1>8. instr' \in Instruction
  BY <1>5, <1>6, <1>7, DecodedType
<1>9. QED  BY <1>4, <1>8

\* A handler leaves well-typed state.
LEMMA EffectType ==
  ASSUME TypeOK, Effect, UNCHANGED shellVars
  PROVE  TypeOK'
<1>1. /\ CURRENT_STATE \in CPU_State /\ NEXT_STATE \in CPU_State
      /\ RUN_BIT \in {0, 1} /\ mem \in [Backed -> Byte]
  BY DEF TypeOK
<1>2. CURRENT_STATE' \in CPU_State
  <2>1. ASSUME EarlyResult PROVE CURRENT_STATE' \in CPU_State
    <3>1. PICK v \in Dword : CURRENT_STATE' = [CURRENT_STATE EXCEPT !.REGS[instr.rd] = v]
      BY <2>1 DEF EarlyResult
    <3>2. QED  BY <1>1, <3>1, UpdateTypes
  <2>2. ~EarlyResult => CURRENT_STATE' = CURRENT_STATE
    BY DEF Effect, RegisterResult, RegisterAndFlags, FlagsResult, Jump, NoResult, Store,
           Halt, OnlyNextState, OnlyMemory
  <2>3. QED  BY <1>1, <2>1, <2>2
<1>3. NEXT_STATE' \in CPU_State
  <2>1. ASSUME RegisterResult PROVE NEXT_STATE' \in CPU_State
    <3>1. PICK v \in Dword : NEXT_STATE' = [NEXT_STATE EXCEPT !.REGS[instr.rd] = v]
      BY <2>1 DEF RegisterResult, Writes
    <3>2. QED  BY <1>1, <3>1, UpdateTypes
  <2>2. ASSUME RegisterAndFlags PROVE NEXT_STATE' \in CPU_State
    <3>1. PICK v \in Dword : WritesAndFlags(instr.rd, v)
      BY <2>2 DEF RegisterAndFlags
    <3>2. QED  BY <1>1, <3>1, UpdateTypes DEF WritesAndFlags
  <2>3. FlagsResult => NEXT_STATE' \in CPU_State
    BY <1>1, UpdateTypes DEF FlagsResult, FlagsOnly
  <2>4. Jump => NEXT_STATE' \in CPU_State
    BY <1>1, UpdateTypes DEF Jump, Branches
  <2>5. NoResult \/ Store \/ EarlyResult \/ Halt => NEXT_STATE' = NEXT_STATE
    BY DEF NoResult, Store, EarlyResult, Halt, OnlyMemory
  <2>6. QED  BY <1>1, <2>1, <2>2, <2>3, <2>4, <2>5 DEF Effect
<1>4. RUN_BIT' \in {0, 1} /\ mem' \in [Backed -> Byte]
  BY <1>1 DEF Effect, RegisterResult, RegisterAndFlags, FlagsResult, Jump, NoResult, Store,
         EarlyResult, Halt, OnlyNextState, OnlyMemory
<1>5. UNCHANGED <<INSTRUCTION_COUNT, instr>>
  BY DEF Effect, RegisterResult, RegisterAndFlags, FlagsResult, Jump, NoResult, Store,
         EarlyResult, Halt, OnlyNextState, OnlyMemory
<1>6. stage = "execute" /\ stage' \in {"latch", "crashed"}
  BY DEF Effect
<1>7. QED  BY <1>2, <1>3, <1>4, <1>5, <1>6 DEF TypeOK, shellVars

LEMMA TypeStep ==
  ASSUME TypeOK, [Next]_vars
  PROVE  TypeOK'
<1>1. /\ CURRENT_STATE \in CPU_State /\ NEXT_STATE \in CPU_State
      /\ INSTRUCTION_COUNT \in Word
  BY DEF TypeOK
<1>2. ASSUME Go PROVE TypeOK'
  BY <1>2 DEF Go, AtPrompt, TypeOK, simVars
<1>3. ASSUME NEW n \in RunSizes, Run(n) PROVE TypeOK'
  <2>1. n \in Int
    BY ShellAssumption
  <2>2. QED  BY <1>3, <2>1 DEF Run, AtPrompt, TypeOK, simVars
<1>4. ASSUME NEW r \in InputRegs, NEW v \in InputValues, Input(r, v) PROVE TypeOK'
  <2>1. v \in Dword
    BY ShellAssumption
  <2>2. CURRENT_STATE' \in CPU_State /\ NEXT_STATE' \in CPU_State
    BY <1>1, <1>4, <2>1, UpdateTypes DEF Input
  <2>3. QED  BY <1>4, <2>2 DEF Input, TypeOK, shellVars
<1>5. ASSUME Quit PROVE TypeOK'
  BY <1>5 DEF Quit, AtPrompt, TypeOK, simVars
<1>6. ASSUME StartCycle PROVE TypeOK'
  <2>1. NEXT_STATE' \in CPU_State /\ instr' \in Instruction
    BY <1>6, FetchType DEF StartCycle
  <2>2. QED  BY <1>6, <2>1 DEF StartCycle, Fetch, TypeOK, shellVars
<1>7. ASSUME Process PROVE TypeOK'
  BY <1>7, HandlerEffect, EffectType DEF Process
<1>8. ASSUME EndCycle PROVE TypeOK'
  <2>1. (INSTRUCTION_COUNT + 1) % WORD \in Word
    BY <1>1, Widths, DivMod DEF Word
  <2>2. i' \in Nat /\ num_cycles' \in Int
    BY <1>8 DEF EndCycle, TypeOK
  <2>3. QED  BY <1>1, <1>8, <2>1, <2>2 DEF EndCycle, Latch, TypeOK
<1>9. ASSUME Return PROVE TypeOK'
  BY <1>9 DEF Return, TypeOK, simVars
<1>10. ASSUME UNCHANGED vars PROVE TypeOK'
  BY <1>10 DEF vars, simVars, shellVars, TypeOK
<1>11. QED
  BY <1>2, <1>3, <1>4, <1>5, <1>6, <1>7, <1>8, <1>9, <1>10 DEF Next, Work

\* Every variable keeps its type, so that no register, flag or byte of memory
\* ever leaves the width its C type gives it.
THEOREM TypeCorrect == Spec => []TypeOK
<1>1. Init => TypeOK
  BY InitType
<1>2. TypeOK /\ [Next]_vars => TypeOK'
  BY TypeStep
<1>3. QED  BY <1>1, <1>2, PTL DEF Spec

-----------------------------------------------------------------------------
\* What an update leaves of the fields it does not name.
LEMMA UpdateFields ==
  ASSUME NEW s \in CPU_State, NEW k, NEW v \in Dword
  PROVE  /\ [s EXCEPT !.REGS[k] = v].PC = s.PC
         /\ [s EXCEPT !.REGS[k] = v].FLAG_N = s.FLAG_N
         /\ [s EXCEPT !.REGS[k] = v].FLAG_Z = s.FLAG_Z
         /\ \A j \in 0 .. (ARM_REGS - 1) :
              j # k => [s EXCEPT !.REGS[k] = v].REGS[j] = s.REGS[j]
BY DEF CPU_State

LEMMA FlagFields ==
  ASSUME NEW s \in CPU_State, NEW k, NEW v \in Dword
  PROVE  LET t == [s EXCEPT !.REGS[k] = v, !.FLAG_N = FlagN(v), !.FLAG_Z = FlagZ(v)]
             u == [s EXCEPT !.FLAG_N = FlagN(v), !.FLAG_Z = FlagZ(v)]
         IN  /\ t.PC = s.PC /\ u.PC = s.PC /\ u.REGS = s.REGS
             /\ t.FLAG_N = FlagN(v) /\ t.FLAG_Z = FlagZ(v)
             /\ u.FLAG_N = FlagN(v) /\ u.FLAG_Z = FlagZ(v)
             /\ \A j \in 0 .. (ARM_REGS - 1) : j # k => t.REGS[j] = s.REGS[j]
BY DEF CPU_State

LEMMA JumpFields ==
  ASSUME NEW s \in CPU_State, NEW a \in Dword
  PROVE  LET t == [s EXCEPT !.PC = a]
         IN  /\ t.PC = a /\ t.REGS = s.REGS /\ t.FLAG_N = s.FLAG_N /\ t.FLAG_Z = s.FLAG_Z
BY DEF CPU_State

\* A handler writes no register but the destination, sets both flags from one
\* result or none, and sends PC nowhere but to a multiple of 4.
LEMMA EffectFields ==
  ASSUME TypeOK, Effect
  PROVE  /\ \A k \in 0 .. (ARM_REGS - 1) :
              k # instr.rd => /\ NEXT_STATE'.REGS[k] = NEXT_STATE.REGS[k]
                              /\ CURRENT_STATE'.REGS[k] = CURRENT_STATE.REGS[k]
         /\ \/ /\ NEXT_STATE'.FLAG_N = NEXT_STATE.FLAG_N
               /\ NEXT_STATE'.FLAG_Z = NEXT_STATE.FLAG_Z
            \/ /\ instr.name \in FlagSetters
               /\ ~(NEXT_STATE'.FLAG_N = 1 /\ NEXT_STATE'.FLAG_Z = 1)
         /\ \/ NEXT_STATE'.PC = NEXT_STATE.PC
            \/ CURRENT_STATE.PC % 4 = 0 => NEXT_STATE'.PC % 4 = 0
         /\ CURRENT_STATE'.PC = CURRENT_STATE.PC
         /\ CURRENT_STATE'.FLAG_N = CURRENT_STATE.FLAG_N
         /\ CURRENT_STATE'.FLAG_Z = CURRENT_STATE.FLAG_Z
         /\ instr' = instr
<1>1. CURRENT_STATE \in CPU_State /\ NEXT_STATE \in CPU_State
  BY DEF TypeOK
<1>2. CASE RegisterResult
  <2>1. PICK v \in Dword : NEXT_STATE' = [NEXT_STATE EXCEPT !.REGS[instr.rd] = v]
    BY <1>2 DEF RegisterResult, Writes
  <2>2. CURRENT_STATE' = CURRENT_STATE /\ instr' = instr
    BY <1>2 DEF RegisterResult, OnlyNextState
  <2>3. QED  BY <1>1, <2>1, <2>2, UpdateFields
<1>3. CASE RegisterAndFlags
  <2>1. PICK v \in Dword : WritesAndFlags(instr.rd, v)
    BY <1>3 DEF RegisterAndFlags
  <2>2. CURRENT_STATE' = CURRENT_STATE /\ instr' = instr /\ instr.name \in FlagSetters
    BY <1>3 DEF RegisterAndFlags, OnlyNextState
  <2>3. QED  BY <1>1, <2>1, <2>2, FlagFields, FlagTypes DEF WritesAndFlags
<1>4. CASE FlagsResult
  <2>1. PICK v \in Dword : FlagsOnly(v)
    BY <1>4 DEF FlagsResult
  <2>2. CURRENT_STATE' = CURRENT_STATE /\ instr' = instr /\ instr.name \in FlagSetters
    BY <1>4 DEF FlagsResult, OnlyNextState
  <2>3. QED  BY <1>1, <2>1, <2>2, FlagFields, FlagTypes DEF FlagsOnly
<1>5. CASE Jump
  <2>1. PICK a \in Dword : /\ NEXT_STATE' = [NEXT_STATE EXCEPT !.PC = a]
                           /\ CURRENT_STATE.PC % 4 = 0 => a % 4 = 0
    BY <1>5 DEF Jump, Branches
  <2>2. CURRENT_STATE' = CURRENT_STATE /\ instr' = instr
    BY <1>5 DEF Jump, OnlyNextState
  <2>3. QED  BY <1>1, <2>1, <2>2, JumpFields
<1>6. CASE NoResult \/ Store \/ Halt
  <2>1. UNCHANGED <<CURRENT_STATE, NEXT_STATE, instr>>
    BY <1>6 DEF NoResult, Store, Halt, OnlyNextState, OnlyMemory
  <2>2. QED  BY <2>1
<1>7. CASE EarlyResult
  <2>1. PICK v \in Dword : CURRENT_STATE' = [CURRENT_STATE EXCEPT !.REGS[instr.rd] = v]
    BY <1>7 DEF EarlyResult
  <2>2. NEXT_STATE' = NEXT_STATE /\ instr' = instr
    BY <1>7 DEF EarlyResult
  <2>3. QED  BY <1>1, <2>1, <2>2, UpdateFields
<1>8. QED  BY <1>2, <1>3, <1>4, <1>5, <1>6, <1>7 DEF Effect

-----------------------------------------------------------------------------
\* The inductive invariant.  BetweenCycles tells that input finds no cycle in
\* progress, which DoubleBuffer needs; the alignment of the next PC after a
\* latch and the flags of NEXT_STATE come from what a handler may do.
IInv == TypeOK /\ BetweenCycles /\ DoubleBuffer /\ PCAligned /\ FlagsExclusive

LEMMA InitIInv == Init => IInv
<1> SUFFICES ASSUME Init PROVE IInv
  OBVIOUS
<1>1. TEXT.start % 4 = 0
  BY MemoryAssumption DEF TEXT
<1>2. QED
  BY <1>1, InitType
     DEF Init, Reset, IInv, BetweenCycles, DoubleBuffer, PCAligned, FlagsExclusive

LEMMA BetweenStep ==
  ASSUME TypeOK, BetweenCycles, [Next]_vars
  PROVE  BetweenCycles'
<1>1. ASSUME Go \/ Quit \/ Return PROVE BetweenCycles'
  BY <1>1 DEF Go, Quit, Return, AtPrompt, simVars, BetweenCycles
<1>2. ASSUME NEW n \in RunSizes, Run(n) PROVE BetweenCycles'
  BY <1>2 DEF Run, AtPrompt, simVars, BetweenCycles
<1>3. ASSUME NEW r \in InputRegs, NEW v \in InputValues, Input(r, v) PROVE BetweenCycles'
  BY <1>3 DEF Input, shellVars, BetweenCycles
<1>4. ASSUME StartCycle PROVE BetweenCycles'
  BY <1>4 DEF StartCycle, Continues, Fetch, shellVars, BetweenCycles
<1>5. ASSUME Process PROVE BetweenCycles'
  <2>1. stage = "execute"
    BY <1>5, HandlerEffect DEF Process, Effect
  <2>2. QED  BY <1>5, <2>1 DEF Process, shellVars, BetweenCycles
<1>6. ASSUME EndCycle PROVE BetweenCycles'
  BY <1>6 DEF EndCycle, Latch, BetweenCycles
<1>7. ASSUME UNCHANGED vars PROVE BetweenCycles'
  BY <1>7 DEF vars, simVars, shellVars, BetweenCycles
<1>8. QED  BY <1>1, <1>2, <1>3, <1>4, <1>5, <1>6, <1>7 DEF Next, Work

\* The prompt comes back between two cycles only, and run starts no cycle beyond
\* those it was asked for.
THEOREM PromptBetweenCycles == Spec => []BetweenCycles
<1>1. Init => TypeOK /\ BetweenCycles
  BY InitIInv DEF IInv
<1>2. TypeOK /\ BetweenCycles /\ [Next]_vars => TypeOK' /\ BetweenCycles'
  BY TypeStep, BetweenStep
<1>3. QED  BY <1>1, <1>2, PTL DEF Spec

LEMMA DoubleBufferStep ==
  ASSUME IInv, [Next]_vars
  PROVE  DoubleBuffer'
<1>1. CURRENT_STATE \in CPU_State /\ NEXT_STATE \in CPU_State
  BY DEF IInv, TypeOK
<1>2. ASSUME Go \/ Quit \/ Return \/ \E n \in RunSizes : Run(n) PROVE DoubleBuffer'
  BY <1>2 DEF Go, Quit, Return, Run, simVars, IInv, DoubleBuffer
<1>3. ASSUME NEW r \in InputRegs, NEW v \in InputValues, Input(r, v) PROVE DoubleBuffer'
  <2>1. stage = "idle" /\ stage' = "idle"
    BY <1>3 DEF Input, AtPrompt, IInv, BetweenCycles
  <2>2. QED  BY <1>3, <2>1 DEF Input, IInv, DoubleBuffer
<1>4. ASSUME StartCycle PROVE DoubleBuffer'
  BY <1>4 DEF StartCycle, Fetch, IInv, DoubleBuffer
<1>5. ASSUME Process PROVE DoubleBuffer'
  <2>1. Effect
    BY <1>5, HandlerEffect DEF Process, IInv
  <2>2. stage = "execute" /\ stage' \in {"latch", "crashed"}
    BY <2>1 DEF Effect
  <2>3. NEXT_STATE = [CURRENT_STATE EXCEPT !.PC = Trunc(CURRENT_STATE.PC + 4)]
    BY <2>2 DEF IInv, DoubleBuffer
  <2>4. /\ NEXT_STATE.REGS = CURRENT_STATE.REGS
        /\ NEXT_STATE.FLAG_N = CURRENT_STATE.FLAG_N
        /\ NEXT_STATE.FLAG_Z = CURRENT_STATE.FLAG_Z
    BY <1>1, <2>3 DEF CPU_State
  <2>5. /\ \A k \in 0 .. (ARM_REGS - 1) :
             k # instr'.rd => NEXT_STATE'.REGS[k] = CURRENT_STATE'.REGS[k]
        /\ instr'.name \notin FlagSetters =>
             /\ NEXT_STATE'.FLAG_N = CURRENT_STATE'.FLAG_N
             /\ NEXT_STATE'.FLAG_Z = CURRENT_STATE'.FLAG_Z
    BY <2>1, <2>4, EffectFields DEF IInv
  <2>6. QED  BY <2>2, <2>5 DEF DoubleBuffer
<1>6. ASSUME EndCycle PROVE DoubleBuffer'
  BY <1>6 DEF EndCycle, Latch, DoubleBuffer
<1>7. ASSUME UNCHANGED vars PROVE DoubleBuffer'
  BY <1>7 DEF vars, simVars, IInv, DoubleBuffer
<1>8. QED  BY <1>2, <1>3, <1>4, <1>5, <1>6, <1>7 DEF Next, Work

LEMMA AlignedStep ==
  ASSUME IInv, [Next]_vars
  PROVE  PCAligned'
<1>1. CURRENT_STATE \in CPU_State /\ NEXT_STATE \in CPU_State
  BY DEF IInv, TypeOK
<1>2. CURRENT_STATE.PC % 4 = 0 /\ NEXT_STATE.PC % 4 = 0
  BY DEF IInv, PCAligned
<1>3. ASSUME Go \/ Quit \/ Return \/ (\E n \in RunSizes : Run(n)) \/ UNCHANGED vars
      PROVE  PCAligned'
  BY <1>2, <1>3 DEF Go, Quit, Return, Run, vars, simVars, PCAligned
<1>4. ASSUME NEW r \in InputRegs, NEW v \in InputValues, Input(r, v) PROVE PCAligned'
  <2>1. v \in Dword
    BY ShellAssumption
  <2>2. CURRENT_STATE'.PC = CURRENT_STATE.PC /\ NEXT_STATE'.PC = NEXT_STATE.PC
    BY <1>1, <1>4, <2>1, UpdateFields DEF Input
  <2>3. QED  BY <1>2, <2>2 DEF PCAligned
<1>5. ASSUME StartCycle PROVE PCAligned'
  <2>1. CURRENT_STATE.PC \in Int
    BY <1>1, Widths DEF CPU_State, Dword
  <2>2. CURRENT_STATE.PC + 4 \in Int /\ (CURRENT_STATE.PC + 4) % 4 = 0
    BY <1>2, <2>1
  <2>3. Trunc(CURRENT_STATE.PC + 4) \in Dword /\ Trunc(CURRENT_STATE.PC + 4) % 4 = 0
    BY <2>2, TruncType, TruncMod4
  <2>4. /\ CURRENT_STATE' = CURRENT_STATE
        /\ NEXT_STATE' = [NEXT_STATE EXCEPT !.PC = Trunc(CURRENT_STATE.PC + 4)]
    BY <1>5 DEF StartCycle, Fetch
  <2>5. NEXT_STATE'.PC = Trunc(CURRENT_STATE.PC + 4)
    BY <1>1, <2>3, <2>4, JumpFields
  <2>6. QED  BY <1>2, <2>3, <2>4, <2>5 DEF PCAligned
<1>6. ASSUME Process PROVE PCAligned'
  BY <1>2, <1>6, HandlerEffect, EffectFields DEF Process, IInv, PCAligned
<1>7. ASSUME EndCycle PROVE PCAligned'
  BY <1>2, <1>7 DEF EndCycle, Latch, PCAligned
<1>8. QED  BY <1>3, <1>4, <1>5, <1>6, <1>7 DEF Next, Work

LEMMA FlagsStep ==
  ASSUME IInv, [Next]_vars
  PROVE  FlagsExclusive'
<1>1. CURRENT_STATE \in CPU_State /\ NEXT_STATE \in CPU_State
  BY DEF IInv, TypeOK
<1>2. FlagsExclusive
  BY DEF IInv
<1>3. ASSUME Go \/ Quit \/ Return \/ (\E n \in RunSizes : Run(n)) \/ UNCHANGED vars
      PROVE  FlagsExclusive'
  BY <1>2, <1>3 DEF Go, Quit, Return, Run, vars, simVars, FlagsExclusive
<1>4. ASSUME NEW r \in InputRegs, NEW v \in InputValues, Input(r, v) PROVE FlagsExclusive'
  <2>1. v \in Dword
    BY ShellAssumption
  <2>2. QED  BY <1>1, <1>2, <1>4, <2>1, UpdateFields DEF Input, FlagsExclusive
<1>5. ASSUME StartCycle PROVE FlagsExclusive'
  <2>1. /\ CURRENT_STATE' = CURRENT_STATE
        /\ NEXT_STATE' = [NEXT_STATE EXCEPT !.PC = Trunc(CURRENT_STATE.PC + 4)]
    BY <1>5 DEF StartCycle, Fetch
  <2>2. /\ NEXT_STATE'.FLAG_N = NEXT_STATE.FLAG_N
        /\ NEXT_STATE'.FLAG_Z = NEXT_STATE.FLAG_Z
    BY <1>1, <2>1 DEF CPU_State
  <2>3. QED  BY <1>2, <2>1, <2>2 DEF FlagsExclusive
<1>6. ASSUME Process PROVE FlagsExclusive'
  BY <1>2, <1>6, HandlerEffect, EffectFields DEF Process, IInv, FlagsExclusive
<1>7. ASSUME EndCycle PROVE FlagsExclusive'
  BY <1>2, <1>7 DEF EndCycle, Latch, FlagsExclusive
<1>8. QED  BY <1>3, <1>4, <1>5, <1>6, <1>7 DEF Next, Work

LEMMA IInvStep == IInv /\ [Next]_vars => IInv'
BY TypeStep, BetweenStep, DoubleBufferStep, AlignedStep, FlagsStep DEF IInv

LEMMA Invariance == Spec => []IInv
BY InitIInv, IInvStep, PTL DEF Spec

\* No register and no flag is lost or resurrected by the latch: the two copies of
\* the state differ only by what the instruction in progress has written.
THEOREM DoubleBuffered == Spec => []DoubleBuffer
<1>1. IInv => DoubleBuffer
  BY DEF IInv
<1>2. QED  BY <1>1, Invariance, PTL

\* Every fetch is from a multiple of 4, wherever the program branches.
THEOREM FetchAligned == Spec => []PCAligned
<1>1. IInv => PCAligned
  BY DEF IInv
<1>2. QED  BY <1>1, Invariance, PTL

\* N and Z are never set together.
THEOREM FlagsOfOneResult == Spec => []FlagsExclusive
<1>1. IInv => FlagsExclusive
  BY DEF IInv
<1>2. QED  BY <1>1, Invariance, PTL

\* Once HLT has been latched no command of the shell starts another cycle, and
\* PC, memory and the instruction count stay as they are.
THEOREM HaltIsFinal == Spec => HaltFreezes
<1> DEFINE Frozen == RUN_BIT = 0 /\ stage = "idle" =>
                       /\ CURRENT_STATE'.PC = CURRENT_STATE.PC
                       /\ UNCHANGED <<RUN_BIT, INSTRUCTION_COUNT, mem, stage>>
<1>1. ASSUME TypeOK, [Next]_vars, RUN_BIT = 0, stage = "idle"
      PROVE  /\ CURRENT_STATE'.PC = CURRENT_STATE.PC
             /\ UNCHANGED <<RUN_BIT, INSTRUCTION_COUNT, mem, stage>>
  <2>1. ASSUME Go \/ Quit \/ Return \/ (\E n \in RunSizes : Run(n)) \/ UNCHANGED vars
        PROVE  UNCHANGED simVars
    BY <2>1 DEF Go, Quit, Return, Run, vars
  <2>2. ASSUME NEW r \in InputRegs, NEW v \in InputValues, Input(r, v)
        PROVE  /\ CURRENT_STATE'.PC = CURRENT_STATE.PC
               /\ UNCHANGED <<RUN_BIT, INSTRUCTION_COUNT, mem, stage>>
    <3>1. v \in Dword /\ CURRENT_STATE \in CPU_State
      BY <1>1, ShellAssumption DEF TypeOK
    <3>2. QED  BY <2>2, <3>1, UpdateFields DEF Input
  <2>3. ~StartCycle
    BY <1>1 DEF StartCycle, Continues
  <2>4. ~Process
    BY <1>1, HandlerEffect DEF Process, Effect
  <2>5. ~EndCycle
    BY <1>1 DEF EndCycle, Latch
  <2>6. QED  BY <1>1, <2>1, <2>2, <2>3, <2>4, <2>5 DEF Next, Work, simVars
<1>2. TypeOK /\ [Next]_vars => [Frozen]_vars
  BY <1>1
<1>3. Init => TypeOK
  BY InitType
<1>4. TypeOK /\ [Next]_vars => TypeOK'
  BY TypeStep
<1>5. QED  BY <1>2, <1>3, <1>4, PTL DEF Spec, HaltFreezes

-----------------------------------------------------------------------------
\* The instruction being executed is one the decoder made of the word at PC, and
\* no cycle starts after HLT.
Fetched ==
  stage = "execute" =>
    /\ RUN_BIT = 1
    /\ \E garbage \in Garbage :
         instr = decode_instruction(Bytecode[mem_read_32(mem, CURRENT_STATE.PC)], garbage)

LEMMA FetchedStep ==
  ASSUME TypeOK, BetweenCycles, Fetched, [Next]_vars
  PROVE  Fetched'
<1>1. ASSUME Go \/ Quit \/ Return \/ (\E n \in RunSizes : Run(n)) \/ UNCHANGED vars
      PROVE  Fetched'
  BY <1>1 DEF Go, Quit, Return, Run, vars, simVars, Fetched
<1>2. ASSUME NEW r \in InputRegs, NEW v \in InputValues, Input(r, v) PROVE Fetched'
  BY <1>2 DEF Input, AtPrompt, BetweenCycles, Fetched
<1>3. ASSUME StartCycle PROVE Fetched'
  BY <1>3 DEF StartCycle, Continues, Fetch, Fetched
<1>4. ASSUME Process PROVE Fetched'
  BY <1>4, HandlerEffect DEF Process, Effect, Fetched
<1>5. ASSUME EndCycle PROVE Fetched'
  BY <1>5 DEF EndCycle, Latch, Fetched
<1>6. QED  BY <1>1, <1>2, <1>3, <1>4, <1>5 DEF Next, Work

LEMMA FetchInvariance == Spec => [](IInv /\ Fetched)
<1>1. Init => Fetched
  BY DEF Init, Fetched
<1>2. Fetched /\ IInv /\ [Next]_vars => Fetched'
  BY FetchedStep DEF IInv
<1>3. QED  BY <1>1, <1>2, Invariance, PTL DEF Spec

\* Only three handlers write memory.
LEMMA NoStore ==
  ASSUME Execute, mem' # mem
  PROVE  implement_STUR \/ implement_STURB \/ implement_STURH
<1>1. /\ ~implement_ADDS_immediate /\ ~implement_ADDS_extended_register
      /\ ~implement_SUBS_immediate /\ ~implement_SUBS_extended_register
      /\ ~implement_ANDS_shifted_register /\ ~implement_EOR_shifted_register
      /\ ~implement_ORR_shifted_register /\ ~implement_MOVZ
  BY DEF OnlyNextState, implement_ADDS_immediate, implement_ADDS_extended_register,
         implement_SUBS_immediate, implement_SUBS_extended_register,
         implement_ANDS_shifted_register, implement_EOR_shifted_register,
         implement_ORR_shifted_register, implement_MOVZ
<1>2. /\ ~implement_LSL_immediate /\ ~implement_LSR_immediate
      /\ ~implement_ADD_immediate /\ ~implement_ADD_extended_register /\ ~implement_MUL
      /\ ~implement_LDUR /\ ~implement_LDURB /\ ~implement_LDURH
  BY DEF OnlyNextState, implement_LSL_immediate, implement_LSR_immediate,
         implement_ADD_immediate, implement_ADD_extended_register, implement_MUL,
         implement_LDUR, implement_LDURB, implement_LDURH
<1>3. /\ ~implement_BCOND /\ ~implement_CBZ /\ ~implement_CBNZ
      /\ ~implement_B /\ ~implement_BR /\ ~implement_HLT /\ ~Unknown /\ ~WildAccess
      /\ ~NullName
  BY DEF OnlyNextState, implement_BCOND, implement_CBZ, implement_CBNZ, implement_B,
         implement_BR, implement_HLT, Unknown, WildAccess, NullName
<1>4. QED  BY <1>1, <1>2, <1>3 DEF Execute

\* The place of an address in its word.
LEMMA InWord ==
  ASSUME NEW address \in Dword
  PROVE  /\ Aligned(address) \in Int /\ address % 4 \in 0 .. 3
         /\ (address \div 2) % 2 \in {0, 1}
         /\ Aligned(address) + (address % 4) = address % WORD
         /\ Aligned(address) + (2 * ((address \div 2) % 2)) = (address % WORD) - (address % 2)
<1>1. address \in Int
  BY Widths DEF Dword
<1>2. PICK low \in Int : low = address % WORD
  <2>1. WORD \in Nat \ {0}
    BY Widths
  <2>2. address % WORD \in Int
    BY <1>1, <2>1, DivMod
  <2>3. QED  BY <2>2
<1>3. /\ address % 4 \in 0 .. 3 /\ (address \div 2) % 2 \in {0, 1}
      /\ address % 4 = (2 * ((address \div 2) % 2)) + (address % 2)
  BY <1>1
<1>4. Aligned(address) = low - (address % 4)
  BY <1>2 DEF Aligned
<1>5. address % 2 \in Int
  BY <1>1
<1>6. QED  BY <1>2, <1>3, <1>4, <1>5

LEMMA HalfBytes ==
  ASSUME NEW v \in 0 .. (HALF - 1)
  PROVE  \E lo, hi \in Byte : v = lo + (BYTE * hi)
<1>1. BYTE \in Nat \ {0} /\ v \in Int
  BY Widths
<1>2. v \div BYTE \in Byte /\ v % BYTE \in Byte
  BY <1>1, Digits DEF HALF, Byte
<1>3. v = (BYTE * (v \div BYTE)) + (v % BYTE)
  BY <1>1, DivMod
<1>4. v \div BYTE \in Int /\ v % BYTE \in Int
  BY <1>1, DivMod
<1>5. v = (v % BYTE) + (BYTE * (v \div BYTE))
  BY <1>1, <1>3, <1>4
<1>6. QED  BY <1>2, <1>5

\* What each of the three may change.
LEMMA WordTouches ==
  ASSUME NEW m \in [Backed -> Byte], NEW address \in Int, NEW value \in Int,
         NEW a \in Backed, mem_write_32(m, address, value)[a] # m[a]
  PROVE  a \in address .. (address + 3)
BY DEF mem_write_32

LEMMA ByteTouches ==
  ASSUME NEW m \in [Backed -> Byte], NEW address \in Dword, NEW v \in Byte,
         NEW a \in Backed,
         mem_write_32(m, Aligned(address),
           ReplaceByte(mem_read_32(m, Aligned(address)), address % 4, v))[a] # m[a]
  PROVE  a \in {address % WORD}
<1>1. Mapped(Aligned(address))
  BY DEF mem_write_32
<1>2. Aligned(address) \in Int /\ address % 4 \in 0 .. 3
  BY InWord
<1>3. PICK p : p = Aligned(address) + (address % 4)
  OBVIOUS
<1>4. mem_write_32(m, Aligned(address),
        ReplaceByte(mem_read_32(m, Aligned(address)), address % 4, v))[a] =
          IF a = p THEN v ELSE m[a]
  BY <1>1, <1>2, <1>3, StoredByte
<1>5. a = p
  BY <1>4
<1>6. QED  BY <1>3, <1>5, InWord

LEMMA HalfTouches ==
  ASSUME NEW m \in [Backed -> Byte], NEW address \in Dword, NEW v \in 0 .. (HALF - 1),
         NEW a \in Backed,
         mem_write_32(m, Aligned(address),
           ReplaceHalf(mem_read_32(m, Aligned(address)), (address \div 2) % 2, v))[a] # m[a]
  PROVE  a \in {(address % WORD) - (address % 2), (address % WORD) - (address % 2) + 1}
<1>1. Mapped(Aligned(address))
  BY DEF mem_write_32
<1>2. PICK k \in {0, 1} : k = (address \div 2) % 2
  BY InWord
<1>3. PICK lo \in Byte, hi \in Byte : v = lo + (BYTE * hi)
  BY HalfBytes
<1>4. PICK al \in Int : al = Aligned(address)
  BY InWord
<1>5. PICK p \in Int : p = al + (2 * k)
  BY <1>2
<1>6. Mapped(al) /\ mem_write_32(m, al, ReplaceHalf(mem_read_32(m, al), k, v))[a] # m[a]
  BY <1>1, <1>2, <1>4
<1>7. mem_write_32(m, al, ReplaceHalf(mem_read_32(m, al), k, v))[a] =
        IF a = p THEN lo ELSE IF a = p + 1 THEN hi ELSE m[a]
  BY <1>2, <1>3, <1>4, <1>5, <1>6, StoredHalf
<1>8. a = p \/ a = p + 1
  BY <1>6, <1>7
<1>9. p = (address % WORD) - (address % 2)
  BY <1>2, <1>4, <1>5, InWord
<1>10. QED  BY <1>8, <1>9

LEMMA StoreStep ==
  ASSUME TypeOK, Process, NEW a \in Backed, mem'[a] # mem[a]
  PROVE  stage = "execute" /\ a \in StoreTouches
<1>1. mem \in [Backed -> Byte] /\ mem' # mem /\ Execute
  BY DEF TypeOK, Process
<1>2. implement_STUR \/ implement_STURB \/ implement_STURH
  BY <1>1, NoStore
<1>3. stage = "execute"
  BY <1>2 DEF Runs, implement_STUR, implement_STURB, implement_STURH
<1>4. instr \in Instruction
  BY <1>3 DEF TypeOK
<1>5. Reads(instr.rn) \subseteq Dword /\ \A v \in Reads(instr.rd) : v \in Int
  <2>1. instr.rn \in Nat /\ instr.rd \in Nat
    BY <1>4 DEF Instruction
  <2>2. Reads(instr.rn) \subseteq Dword /\ Reads(instr.rd) \subseteq Dword
    BY <2>1, ReadTypes
  <2>3. QED  BY <2>2 DEF Dword
<1>6. \A base \in Reads(instr.rn) : Address(base) \in Dword
  BY <1>4, <1>5, AddressTypes
<1>7. ASSUME NEW base \in Reads(instr.rn), a \in Touches(instr.name, Address(base))
      PROVE  a \in StoreTouches
  BY <1>7 DEF StoreTouches
<1>8. ASSUME implement_STUR PROVE a \in StoreTouches
  <2>1. PICK base \in Reads(instr.rn), v \in Reads(instr.rd) :
          mem' = mem_write_32(mem, Address(base), v % WORD)
    BY <1>8 DEF implement_STUR
  <2>2. v % WORD \in Int /\ Address(base) \in Int
    <3>1. WORD \in Nat \ {0} /\ v \in Int
      BY <1>5, Widths
    <3>2. QED  BY <1>6, <3>1, DivMod DEF Dword
  <2>3. a \in Address(base) .. (Address(base) + 3)
    BY <1>1, <2>1, <2>2, WordTouches
  <2>4. instr.name = "STUR"
    BY <1>8 DEF implement_STUR, Runs
  <2>5. a \in Touches(instr.name, Address(base))
    BY <2>3, <2>4 DEF Touches
  <2>6. QED  BY <1>7, <2>5
<1>9. ASSUME implement_STURB PROVE a \in StoreTouches
  <2>1. PICK base \in Reads(instr.rn), v \in Reads(instr.rd) :
          mem' = mem_write_32(mem, Aligned(Address(base)),
                   ReplaceByte(mem_read_32(mem, Aligned(Address(base))),
                               Address(base) % 4, v % BYTE))
    BY <1>9 DEF implement_STURB
  <2>2. v % BYTE \in Byte
    <3>1. BYTE \in Nat \ {0} /\ v \in Int
      BY <1>5, Widths
    <3>2. QED  BY <3>1, DivMod DEF Byte
  <2>3. a \in {Address(base) % WORD}
    BY <1>1, <1>6, <2>1, <2>2, ByteTouches
  <2>4. instr.name = "STURB"
    BY <1>9 DEF implement_STURB, Runs
  <2>5. a \in Touches(instr.name, Address(base))
    BY <2>3, <2>4 DEF Touches
  <2>6. QED  BY <1>7, <2>5
<1>10. ASSUME implement_STURH PROVE a \in StoreTouches
  <2>1. PICK base \in Reads(instr.rn), v \in Reads(instr.rd) :
          mem' = mem_write_32(mem, Aligned(Address(base)),
                   ReplaceHalf(mem_read_32(mem, Aligned(Address(base))),
                               (Address(base) \div 2) % 2, v % HALF))
    BY <1>10 DEF implement_STURH
  <2>2. v % HALF \in 0 .. (HALF - 1)
    <3>1. HALF \in Nat \ {0} /\ v \in Int
      BY <1>5, Widths
    <3>2. QED  BY <3>1, DivMod
  <2>3. a \in {(Address(base) % WORD) - (Address(base) % 2),
              (Address(base) % WORD) - (Address(base) % 2) + 1}
    BY <1>1, <1>6, <2>1, <2>2, HalfTouches
  <2>4. instr.name = "STURH"
    BY <1>10 DEF implement_STURH, Runs
  <2>5. a \in Touches(instr.name, Address(base))
    BY <2>3, <2>4 DEF Touches
  <2>6. QED  BY <1>7, <2>5
<1>11. QED  BY <1>2, <1>3, <1>8, <1>9, <1>10

\* A store changes no byte but those it addresses, though STURB and STURH write
\* the whole word around them back.
THEOREM StoresTouchOnlyTheirBytes == Spec => StoreFootprint
<1> DEFINE Confined == \A a \in Backed : mem'[a] # mem[a] =>
                         stage = "execute" /\ a \in StoreTouches
<1>1. ASSUME TypeOK, [Next]_vars PROVE Confined
  <2>1. ASSUME Go \/ Quit \/ Return \/ (\E n \in RunSizes : Run(n)) \/ UNCHANGED vars
        PROVE  mem' = mem
    BY <2>1 DEF Go, Quit, Return, Run, vars, simVars
  <2>2. ASSUME NEW r \in InputRegs, NEW v \in InputValues, Input(r, v) PROVE mem' = mem
    BY <2>2 DEF Input
  <2>3. ASSUME StartCycle \/ EndCycle PROVE mem' = mem
    BY <2>3 DEF StartCycle, Fetch, EndCycle, Latch
  <2>4. ASSUME Process PROVE Confined
    BY <1>1, <2>4, StoreStep
  <2>5. QED  BY <1>1, <2>1, <2>2, <2>3, <2>4 DEF Next, Work
<1>2. TypeOK /\ [Next]_vars => [Confined]_vars
  BY <1>1
<1>3. QED  BY <1>2, TypeCorrect, PTL DEF Spec, StoreFootprint

-----------------------------------------------------------------------------
LEMMA RunStep ==
  ASSUME TypeOK, BetweenCycles, Next, command = "run"
  PROVE  command' = "prompt" \/ stage' = "crashed" \/ (0 <= StepsLeft' /\ StepsLeft' < StepsLeft)
<1>1. i \in Nat /\ num_cycles \in Int
  BY DEF TypeOK
<1>2. Work
  BY DEF Next, Go, Run, Input, Quit, AtPrompt
<1>3. CASE StartCycle
  <2>1. /\ stage = "idle" /\ stage' = "execute" /\ i < num_cycles
        /\ i' = i /\ num_cycles' = num_cycles
    BY <1>3 DEF StartCycle, Continues, Fetch, shellVars
  <2>2. StepsLeft = 3 * (num_cycles - i) /\ StepsLeft' = (3 * (num_cycles - i)) - 1
    BY <1>1, <2>1 DEF StepsLeft
  <2>3. QED  BY <1>1, <2>1, <2>2
<1>4. CASE Process
  <2>1. stage = "execute" /\ stage' \in {"latch", "crashed"}
    BY <1>4, HandlerEffect DEF Process, Effect
  <2>2. i < num_cycles /\ i' = i /\ num_cycles' = num_cycles
    BY <1>4, <2>1 DEF Process, shellVars, BetweenCycles
  <2>3. ASSUME stage' = "latch"
        PROVE  /\ StepsLeft = (3 * (num_cycles - i)) - 1
               /\ StepsLeft' = (3 * (num_cycles - i)) - 2
    BY <2>1, <2>2, <2>3 DEF StepsLeft
  <2>4. QED  BY <1>1, <2>1, <2>2, <2>3
<1>5. CASE EndCycle
  <2>1. /\ stage = "latch" /\ stage' = "idle" /\ i < num_cycles
        /\ i' = i + 1 /\ num_cycles' = num_cycles
    BY <1>5 DEF EndCycle, Latch, BetweenCycles
  <2>2. StepsLeft = (3 * (num_cycles - i)) - 2 /\ StepsLeft' = 3 * (num_cycles - (i + 1))
    BY <1>1, <2>1 DEF StepsLeft
  <2>3. QED  BY <1>1, <2>1, <2>2
<1>6. CASE Return
  BY <1>6 DEF Return
<1>7. QED  BY <1>2, <1>3, <1>4, <1>5, <1>6 DEF Work

\* run n makes at most 3 * n steps before it returns, whatever the program and n
\* are: nothing a handler does gives a cycle back.
THEOREM RunIsBounded == Spec => RunAdvances
<1>1. TypeOK /\ BetweenCycles /\ [Next]_vars =>
        [command = "run" => \/ command' = "prompt" \/ stage' = "crashed"
                            \/ 0 <= StepsLeft' /\ StepsLeft' < StepsLeft]_vars
  BY RunStep
<1>2. Init => TypeOK /\ BetweenCycles
  BY InitIInv DEF IInv
<1>3. TypeOK /\ BetweenCycles /\ [Next]_vars => TypeOK' /\ BetweenCycles'
  BY TypeStep, BetweenStep
<1>4. QED  BY <1>1, <1>2, <1>3, PTL DEF Spec, RunAdvances
=============================================================================
