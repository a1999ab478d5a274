------------------------------ MODULE Simulator ------------------------------
(***************************************************************************)
(* cycle of shell.c and process_instruction of sim.c with its handlers, one  *)
(* action for each.  A cycle has three steps: Fetch decodes the word at PC   *)
(* and presets the next PC, one handler runs, Latch copies NEXT_STATE over   *)
(* CURRENT_STATE.  Handlers read registers and flags of CURRENT_STATE and    *)
(* are meant to write NEXT_STATE; memory has no such double buffer.          *)
(***************************************************************************)
EXTENDS Memory, Decoder

CONSTANTS
  Bytecode,      \* the bytecode each memory word stands for
  Garbage,       \* what the stack may hold where the record is decoded
  StrayValues    \* what a read beyond the register file may return

ARM_REGS  == 32
Flag      == {0, 1}
CPU_State == [PC : Dword, REGS : [0 .. (ARM_REGS - 1) -> Dword],
              FLAG_N : Flag, FLAG_Z : Flag]

ASSUME SimulatorAssumption ==
  /\ \A w \in Word : BytecodeOK(Bytecode[w])
  /\ Garbage # {} /\ Garbage \subseteq Leftover
  /\ StrayValues # {} /\ \A v \in StrayValues : v \in Dword

VARIABLES
  CURRENT_STATE, NEXT_STATE,   \* the latch and its input
  RUN_BIT,                     \* cleared by HLT
  INSTRUCTION_COUNT,           \* a 32-bit counter
  mem,                         \* the bytes of the three regions
  instr,                       \* the instruction being executed
  stage                        \* "idle", "execute", "latch" or "crashed"

simVars == <<CURRENT_STATE, NEXT_STATE, RUN_BIT, INSTRUCTION_COUNT, mem, instr, stage>>

NoInstruction == "none"

Fetch ==
  /\ stage = "idle" /\ stage' = "execute"
  /\ \E garbage \in Garbage :
       instr' = decode_instruction(Bytecode[mem_read_32(mem, CURRENT_STATE.PC)], garbage)
  /\ NEXT_STATE' = [NEXT_STATE EXCEPT !.PC = Trunc(CURRENT_STATE.PC + 4)]
  /\ UNCHANGED <<CURRENT_STATE, RUN_BIT, INSTRUCTION_COUNT, mem>>

Latch ==
  /\ stage = "latch" /\ stage' = "idle"
  /\ CURRENT_STATE' = NEXT_STATE
  /\ INSTRUCTION_COUNT' = (INSTRUCTION_COUNT + 1) % WORD
  /\ instr' = NoInstruction
  /\ UNCHANGED <<NEXT_STATE, RUN_BIT, mem>>

-----------------------------------------------------------------------------
\* What the handlers share.

Runs(name) == stage = "execute" /\ instr.name = name /\ stage' = "latch"

OnlyNextState == UNCHANGED <<CURRENT_STATE, RUN_BIT, INSTRUCTION_COUNT, mem, instr>>
OnlyMemory == UNCHANGED <<CURRENT_STATE, NEXT_STATE, RUN_BIT, INSTRUCTION_COUNT, instr>>

\* The values CURRENT_STATE.REGS[k] may evaluate to.
Reads(k) == IF k < ARM_REGS THEN {CURRENT_STATE.REGS[k]} ELSE StrayValues

\* A row leaves rd below 32.  Where no row matched it may lie beyond, and the
\* result then misses every register.
Writes(rd, result) == NEXT_STATE' = [NEXT_STATE EXCEPT !.REGS[rd] = result]

WritesAndFlags(rd, result) ==
  NEXT_STATE' = [NEXT_STATE EXCEPT !.REGS[rd] = result,
                                   !.FLAG_N = FlagN(result), !.FLAG_Z = FlagZ(result)]

\* Slip: Z keeps its old value.
FlagsOnly_N(result) == NEXT_STATE' = [NEXT_STATE EXCEPT !.FLAG_N = FlagN(result)]
FlagsOnly(result) ==
  NEXT_STATE' = [NEXT_STATE EXCEPT !.FLAG_N = FlagN(result), !.FLAG_Z = FlagZ(result)]

Branches(address) == NEXT_STATE' = [NEXT_STATE EXCEPT !.PC = address]
FallsThrough == UNCHANGED NEXT_STATE

\* The target of an offset whose sign is that of signed.
Target(field, signed) ==
  Trunc(CURRENT_STATE.PC + (4 * SignExtended(field, Bit18, SignBit(signed, Bit18))))

\* The 64-bit address of an access, and the 32-bit one it is aligned down to.
Address(base) ==
  Trunc(base + SignExtended(instr.dt_address, Bit8, SignBit(instr.dt_address, Bit8)))
Aligned(address) == (address % WORD) - (address % 4)

-----------------------------------------------------------------------------
\* Arithmetic and logic.

implement_ADDS_immediate ==
  /\ Runs("ADDS_immediate")
  /\ \E op1 \in Reads(instr.rn) :
       WritesAndFlags(instr.rd, Trunc(op1 + instr.alu_immediate))
  /\ OnlyNextState

implement_ADDS_extended_register ==
  /\ Runs("ADDS_extended_register")
  /\ \E op1 \in Reads(instr.rn), op2 \in Reads(instr.rm) :
       WritesAndFlags(instr.rd, Trunc(op1 + op2))
  /\ OnlyNextState

implement_SUBS_immediate ==
  /\ Runs("SUBS_immediate")
  /\ \E op1 \in Reads(instr.rn) :
       LET result == Trunc(op1 - instr.alu_immediate)
       IN  IF instr.rd # 31 THEN WritesAndFlags(instr.rd, result) ELSE FlagsOnly(result)
  /\ OnlyNextState

implement_SUBS_extended_register ==
  /\ Runs("SUBS_extended_register")
  /\ \E op1 \in Reads(instr.rn), op2 \in Reads(instr.rm) :
       LET result == Trunc(op1 - op2)
       IN  IF instr.rd # 31 THEN WritesAndFlags(instr.rd, result) ELSE FlagsOnly(result)
  /\ OnlyNextState

implement_ANDS_shifted_register ==
  /\ Runs("ANDS_shifted_register")
  /\ \E op1 \in Reads(instr.rn), op2 \in Reads(instr.rm) :
       WritesAndFlags(instr.rd, And64(op1, op2))
  /\ OnlyNextState

implement_EOR_shifted_register ==
  /\ Runs("EOR_shifted_register")
  /\ \E op1 \in Reads(instr.rn), op2 \in Reads(instr.rm) :
       Writes(instr.rd, Xor64(op1, op2))
  /\ OnlyNextState

\* The second operand is the register numbered by shamt.
implement_ORR_shifted_register ==
  /\ Runs("ORR_shifted_register")
  /\ \E op1 \in Reads(instr.rn), op2 \in Reads(instr.shamt) :
       Writes(instr.rd, Or64(op1, op2))
  /\ OnlyNextState

implement_MOVZ ==
  /\ Runs("MOVZ")
  /\ WritesAndFlags(instr.rd, Trunc(instr.mov_immediate))
  /\ OnlyNextState

\* The processor takes the distance of a shift modulo 64.
implement_LSL_immediate ==
  /\ Runs("LSL_immediate")
  /\ \E op1 \in Reads(instr.rn) :
       WritesAndFlags(instr.rd, ShiftLeft(op1, (64 - instr.rm) % 64))
  /\ OnlyNextState

implement_LSR_immediate ==
  /\ Runs("LSR_immediate")
  /\ \E op1 \in Reads(instr.rn) : Writes(instr.rd, ShiftRight(op1, instr.rm % 64))
  /\ OnlyNextState

implement_ADD_immediate ==
  /\ Runs("ADD_immediate")
  /\ \E op1 \in Reads(instr.rn) :
       Writes(instr.rd, Trunc(op1 + instr.alu_immediate))
  /\ OnlyNextState

\* rm has six bits here, so it may number a register that does not exist.
implement_ADD_extended_register ==
  /\ Runs("ADD_extended_register")
  /\ \E op1 \in Reads(instr.rn), op2 \in Reads(instr.rm) :
       IF instr.rd # 31 THEN Writes(instr.rd, Trunc(op1 + op2)) ELSE FallsThrough
  /\ OnlyNextState

implement_MUL ==
  /\ Runs("MUL")
  /\ \E op1 \in Reads(instr.rn), op2 \in Reads(instr.rm) :
       Writes(instr.rd, Mul(op1, op2))
  /\ OnlyNextState

-----------------------------------------------------------------------------
\* Memory.

implement_STUR ==
  /\ Runs("STUR")
  /\ \E base \in Reads(instr.rn), value \in Reads(instr.rd) :
       mem' = mem_write_32(mem, Address(base), value % WORD)
  /\ OnlyMemory

implement_STURB ==
  /\ Runs("STURB")
  /\ \E base \in Reads(instr.rn), value \in Reads(instr.rd) :
       LET address == Address(base)
           aligned == Aligned(address)
       IN  mem' = mem_write_32(mem, aligned,
                    ReplaceByte(mem_read_32(mem, aligned), address % 4, value % BYTE))
  /\ OnlyMemory

implement_STURH ==
  /\ Runs("STURH")
  /\ \E base \in Reads(instr.rn), value \in Reads(instr.rd) :
       LET address == Address(base)
           aligned == Aligned(address)
       IN  mem' = mem_write_32(mem, aligned,
                    ReplaceHalf(mem_read_32(mem, aligned), (address \div 2) % 2, value % HALF))
  /\ OnlyMemory

implement_LDUR ==
  /\ Runs("LDUR")
  /\ \E base \in Reads(instr.rn) :
       LET aligned == Aligned(Address(base))
       IN  Writes(instr.rd, (WORD * mem_read_32(mem, (aligned + 4) % WORD))
                              + mem_read_32(mem, aligned))
  /\ OnlyNextState

implement_LDURB ==
  /\ Runs("LDURB")
  /\ \E base \in Reads(instr.rn) :
       LET address == Address(base)
       IN  Writes(instr.rd, ByteOf(mem_read_32(mem, Aligned(address)), address % 4))
  /\ OnlyNextState

\* The one handler that assigns to CURRENT_STATE.
implement_LDURH ==
  /\ Runs("LDURH")
  /\ \E base \in Reads(instr.rn) :
       LET address == Address(base)
       IN  CURRENT_STATE' = [CURRENT_STATE EXCEPT !.REGS[instr.rd] =
             HalfOf(mem_read_32(mem, Aligned(address)), (address \div 2) % 2)]
  /\ UNCHANGED <<NEXT_STATE, RUN_BIT, INSTRUCTION_COUNT, mem, instr>>

-----------------------------------------------------------------------------
\* Control flow.

\* Slip: BGT does not look at Z.
Condition_GT(cond) ==
  LET Z == CURRENT_STATE.FLAG_Z = 1
      N == CURRENT_STATE.FLAG_N = 1
  IN  \/ cond = \b0000 /\ Z
      \/ cond = \b0001 /\ ~Z
      \/ cond \in {\b1100, \b1010} /\ ~N
      \/ cond = \b1011 /\ N
      \/ cond = \b1101 /\ (Z \/ N)

\* The conditions the switch knows, by number; no other one branches.
Condition(cond) ==
  LET Z == CURRENT_STATE.FLAG_Z = 1
      N == CURRENT_STATE.FLAG_N = 1
  IN  \/ cond = \b0000 /\ Z
      \/ cond = \b0001 /\ ~Z
      \/ cond = \b1100 /\ ~Z /\ ~N
      \/ cond = \b1011 /\ N
      \/ cond = \b1010 /\ ~N
      \/ cond = \b1101 /\ (Z \/ N)

implement_BCOND ==
  /\ Runs("BCOND")
  /\ IF Condition(instr.rt)
     THEN Branches(Target(instr.cond_br_address, instr.cond_br_address))
     ELSE FallsThrough
  /\ OnlyNextState

\* A branch to an unaligned address would be ignored.
BranchesIf(taken, address) ==
  IF taken
  THEN IF address % 4 = 0 THEN Branches(address) ELSE FallsThrough
  ELSE Branches(Trunc(CURRENT_STATE.PC + 4))

implement_CBZ ==
  /\ Runs("CBZ")
  /\ \E op \in Reads(instr.rt) :
       BranchesIf(op = 0, Target(instr.cond_br_address, instr.cond_br_address))
  /\ OnlyNextState

\* The sign is taken from br_address, which a CB instruction does not set.
implement_CBNZ ==
  /\ Runs("CBNZ")
  /\ \E op \in Reads(instr.rt) :
       BranchesIf(op # 0, Target(instr.cond_br_address, instr.br_address))
  /\ OnlyNextState

implement_B ==
  /\ Runs("B")
  /\ Branches(Target(instr.br_address, instr.br_address))
  /\ OnlyNextState

\* Slip: the alignment test is dropped.
implement_BR_Unchecked ==
  /\ Runs("BR")
  /\ \E address \in Reads(instr.rn) : Branches(address)
  /\ OnlyNextState

implement_BR ==
  /\ Runs("BR")
  /\ \E address \in Reads(instr.rn) :
       IF address % 4 = 0 THEN Branches(address) ELSE FallsThrough
  /\ OnlyNextState

\* Slip: the run bit is not cleared.
implement_HLT_Running ==
  /\ Runs("HLT")
  /\ UNCHANGED <<CURRENT_STATE, NEXT_STATE, RUN_BIT, INSTRUCTION_COUNT, mem, instr>>

implement_HLT ==
  /\ Runs("HLT")
  /\ RUN_BIT' = 0
  /\ UNCHANGED <<CURRENT_STATE, NEXT_STATE, INSTRUCTION_COUNT, mem, instr>>

\* No comparison finds the name, which is no row's, or that of a row without a
\* handler.  Where no row matched it is a word of the stack, which strcmp may
\* not be able to read.  A name the stack kept of an earlier instruction runs
\* its handler above, on fields the stack kept too.
Unknown ==
  /\ stage = "execute" /\ instr.name \in {"unset", "SUB_immediate", "AND_immediate"}
  /\ \/ stage' = "latch"
     \/ instr.name = "unset" /\ stage' = "crashed"
  /\ UNCHANGED <<CURRENT_STATE, NEXT_STATE, RUN_BIT, INSTRUCTION_COUNT, mem, instr>>

\* Such a handler may index REGS with any word and fault.  The largest number a
\* row yields, 63 (ADD's rm), is still within the program's variables.
WildAccess ==
  /\ stage = "execute" /\ \E f \in Indexes(instr.name) : instr[f] >= 2 * ARM_REGS
  /\ stage' = "crashed"
  /\ UNCHANGED <<CURRENT_STATE, NEXT_STATE, RUN_BIT, INSTRUCTION_COUNT, mem, instr>>

\* A zero row matched: strcmp on the null name faults.
NullName ==
  /\ stage = "execute" /\ instr.name = "NULL"
  /\ stage' = "crashed"
  /\ UNCHANGED <<CURRENT_STATE, NEXT_STATE, RUN_BIT, INSTRUCTION_COUNT, mem, instr>>

\* The end of process_instruction: one of its comparisons, or none, succeeds.
Execute ==
  \/ implement_ADDS_immediate \/ implement_ADDS_extended_register
  \/ implement_SUBS_immediate \/ implement_SUBS_extended_register
  \/ implement_ANDS_shifted_register \/ implement_EOR_shifted_register
  \/ implement_ORR_shifted_register \/ implement_MOVZ
  \/ implement_LSL_immediate \/ implement_LSR_immediate
  \/ implement_ADD_immediate \/ implement_ADD_extended_register \/ implement_MUL
  \/ implement_STUR \/ implement_STURB \/ implement_STURH
  \/ implement_LDUR \/ implement_LDURB \/ implement_LDURH
  \/ implement_BCOND \/ implement_CBZ \/ implement_CBNZ
  \/ implement_B \/ implement_BR \/ implement_HLT
  \/ Unknown \/ WildAccess \/ NullName
=============================================================================
