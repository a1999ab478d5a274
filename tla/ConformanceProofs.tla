-------------------------- MODULE ConformanceProofs ---------------------------
(***************************************************************************)
(* The refinement: for every value of the constants the simulator takes the  *)
(* steps of the machine of ISA, but for the deviations Conformance lists.    *)
(***************************************************************************)
EXTENDS SessionConformance, StartProofs

-----------------------------------------------------------------------------
\* The machine of ISA counts with the simulator's own words and encodings.

LEMMA SameWords ==
  /\ Described!DWORD = DWORD /\ Described!WORD = WORD /\ Described!HALF = HALF
  /\ \A v : Described!Trunc(v) = Trunc(v)
  /\ \A v : Described!FlagN(v) = FlagN(v) /\ Described!FlagZ(v) = FlagZ(v)
  /\ \A x, y : Described!Mul(x, y) = Mul(x, y)
  /\ \A x, n : Described!ShiftLeft(x, n) = ShiftLeft(x, n)
  /\ \A x, n : Described!ShiftRight(x, n) = ShiftRight(x, n)
BY DEF Described!DWORD, DWORD, Described!WORD, WORD, Described!HALF, HALF,
       Described!Trunc, Trunc, Described!FlagN, FlagN, Described!FlagZ, FlagZ,
       Described!Mul, Mul, Described!ShiftLeft, ShiftLeft, Described!ShiftRight, ShiftRight,
       Described!XLEN, XLEN

LEMMA SameLogic ==
  \A x, y : /\ Described!And64(x, y) = And64(x, y)
            /\ Described!Or64(x, y) = Or64(x, y)
            /\ Described!Xor64(x, y) = Xor64(x, y)
BY DEF Described!And64, And64, Described!Or64, Or64, Described!Xor64, Xor64,
       Described!Bytewise, Bytewise, Described!Lift, Lift,
       Described!WORD, WORD, Described!HALF, HALF

LEMMA SameFields ==
  \A w : /\ Described!Rd(w) = Rd(w) /\ Described!Rn(w) = Rn(w) /\ Described!Rm(w) = Rm(w)
         /\ Described!imms(w) = imms(w) /\ Described!immr(w) = immr(w)
         /\ Described!imm12(w) = imm12(w) /\ Described!sh(w) = sh(w)
         /\ Described!imm16(w) = imm16(w) /\ Described!cond(w) = cond(w)
         /\ Described!imm9(w) = imm9(w) /\ Described!imm19(w) = imm19(w)
         /\ Described!imm26(w) = imm26(w)
BY DEF Described!Rd, Rd, Described!Rn, Rn, Described!Rm, Rm, Described!imms, imms,
       Described!imm6, imm6, Described!immr, immr, Described!imm12, imm12, Described!sh, sh,
       Described!imm16, imm16, Described!cond, cond, Described!imm9, imm9,
       Described!imm19, imm19, Described!imm26, imm26, Described!Signed, Signed

LEMMA SameOp == \A w : Described!Op(w) = Op(w)
BY DEF Described!Op, Op, Described!IsRegister, IsRegister, Described!IsImmediate, IsImmediate,
       Described!IsTransfer, IsTransfer, Described!imm6, imm6, Described!imms, imms,
       Described!immr, immr, Described!sh, sh, Described!Rm, Rm, Described!Rd, Rd,
       Described!EQ, EQ, Described!NE, NE, Described!GE, GE, Described!LT, LT,
       Described!GT, GT, Described!LE, LE

LEMMA SameMemory ==
  /\ \A m, a : Described!mem_read_32(m, a) = mem_read_32(m, a)
  /\ Described!Backed = Backed /\ Described!TEXT = TEXT
BY DEF Described!mem_read_32, mem_read_32, Described!Mapped, Mapped,
       Described!HALF, HALF, Described!Backed, Backed, Described!Backs, Backs,
       Described!TEXT, TEXT, Described!DATA, DATA, Described!STACK, STACK

-----------------------------------------------------------------------------
\* What the decoder makes of a documented bytecode.

\* The handlers the two windows lead to.
LEMMA StolenFound ==
  /\ Found(177) = "ADDS_immediate" /\ Found(180) = "CBZ" /\ Found(181) = "CBNZ"
<1>1. 177 \in Opcodes /\ 180 \in Opcodes /\ 181 \in Opcodes
  BY DEF Opcodes
<1>2. NameOf(177) = "ADDS_immediate" /\ NameOf(180) = "CBZ" /\ NameOf(181) = "CBNZ"
  BY DEF NameOf
<1>3. QED  BY <1>1, <1>2 DEF Found

\* B's offset is then none of those its handler can make.
LEMMA StolenOffset ==
  ASSUME NEW h \in {177, 180, 181}, NEW l \in Nat, l < 2097152, NEW w, w.hi = h, w.lo = l
  PROVE  imm26(w) \notin 0 .. 63
<1>1. h % 32 \in {17, 20, 21}
  OBVIOUS
<1>2. PICK d \in {17, 20, 21} : d = h % 32
  BY <1>1
<1>3. (d * 2097152) + l >= 33554432 /\ (d * 2097152) + l < 67108864
  BY <1>2, SMT
<1>4. Signed((d * 2097152) + l, 67108864) < 0
  <2>1. PICK v \in Nat : v = (d * 2097152) + l
    BY <1>2, SMT
  <2>2. v >= 33554432 /\ v < 67108864
    BY <1>3, <2>1, SMT
  <2>3. Signed(v, 67108864) < 0
    BY <2>2, SMT DEF Signed
  <2>4. QED  BY <2>1, <2>3, SMT
<1>5. imm26(w) < 0
  BY <1>2, <1>4, SMT DEF imm26
<1>6. QED  BY <1>5, SMT

\* The handler of a documented instruction, but for the two windows.
LEMMA HandlerReached ==
  ASSUME NEW w, BytecodeOK(w), NEW garbage, Op(w) # "undocumented"
  PROVE  LET handler == decode_instruction(w, garbage).name
         IN  \/ handler = HandlerOf(Op(w))
             \/ /\ Op(w) = "B" /\ imm26(w) \notin 0 .. 63
                /\ handler \in {"ADDS_immediate", "CBZ", "CBNZ"}
             \/ Op(w) = "LSL" /\ immr(w) < 32 /\ handler = "LSR_immediate"
             \/ Op(w) = "LSR" /\ immr(w) >= 32 /\ handler = "LSL_immediate"
<1> DEFINE handler == decode_instruction(w, garbage).name
<1>1. PICK h \in Tops : h = w.hi
  BY BytecodeRanges
<1>2. PICK o : o = Op(w)
  OBVIOUS
<1>3. handler = Found(h) /\ h \in TopBits(o) /\ o # "undocumented"
  BY <1>1, <1>2, DocumentedFound, DecodedName, NameIsFound, OpMeans
<1> HIDE DEF handler
<1>4. Stolen(o, h) \/ Found(h) = HandlerOf(o)
  BY <1>3, Encodings
<1>5. CASE Found(h) = HandlerOf(o)
  BY <1>2, <1>3, <1>5 DEF handler
<1>6. CASE o = "B" /\ h \in {177, 180, 181}
  <2>1. Found(h) \in {"ADDS_immediate", "CBZ", "CBNZ"}
    BY <1>6, StolenFound
  <2>2. PICK l \in Nat : l = w.lo /\ l < 2097152
    BY SMT DEF BytecodeOK
  <2>3. imm26(w) \notin 0 .. 63
    BY <1>1, <1>6, <2>2, StolenOffset, SMT
  <2>4. QED  BY <1>2, <1>3, <1>6, <2>1, <2>3 DEF handler
<1>7. PICK m \in 0 .. 31 : m = w.lo \div 65536
  BY BytecodeRanges
<1>8. immr(w) = ((h % 2) * 32) + m
  BY <1>1, <1>7 DEF immr, Rm
<1>9. CASE o = "LSL" /\ h = 1690
  <2>1. immr(w) < 32
    BY <1>8, <1>9
  <2>2. QED  BY <1>2, <1>3, <1>9, <2>1, ExactFound DEF handler
<1>10. CASE o = "LSR" /\ h = 1691
  <2>1. immr(w) >= 32
    BY <1>8, <1>10
  <2>2. QED  BY <1>2, <1>3, <1>10, <2>1, ExactFound DEF handler
<1>11. QED  BY <1>4, <1>5, <1>6, <1>9, <1>10 DEF Stolen

\* The fields its handler uses, by the manual's names.
LEMMA FieldsByName ==
  ASSUME NEW w, NEW garbage, FirstMatch(w) # NoRow
  PROVE  LET d == decode_instruction(w, garbage)
         IN  /\ d.name \in OfType.I =>
                  /\ d.rd = Rd(w) /\ d.rn = Rn(w)
                  /\ d.shamt = sh(w) /\ d.alu_immediate = imm12(w)
             /\ d.name \in OfType.X => d.rd = Rd(w) /\ d.rn = Rn(w) /\ d.rm = Rm(w)
             /\ d.name \in OfType.R => d.rd = Rd(w) /\ d.rn = Rn(w) /\ d.rm = immr(w)
             /\ d.name \in OfType.D =>
                  d.rd = Rd(w) /\ d.rn = Rn(w) /\ d.dt_address = w.lo \div 4096
             /\ d.name \in OfType.IW => d.rd = Rd(w) /\ d.mov_immediate = imm16(w)
             /\ d.name \in OfType.CB =>
                  /\ d.rt = Rd(w)
                  /\ d.cond_br_address = ((w.hi % 8) * 65536) + (w.lo \div 32)
             /\ d.name \in OfType.B => d.br_address = w.lo % 64
<1> DEFINE row == FirstMatch(w)
           d == decode_instruction(w, garbage)
<1>1. row \in opcode_table \union {NoRow} /\ d.name = row.name
  BY DecodedRow, DecodedName
<1>2. PICK type : type = row.type
  OBVIOUS
<1>3. /\ d.name \in OfType.I  => type = "I"
      /\ d.name \in OfType.X  => type = "X"
      /\ d.name \in OfType.R  => type = "R"
      /\ d.name \in OfType.D  => type = "D"
      /\ d.name \in OfType.IW => type = "IW"
      /\ d.name \in OfType.CB => type = "CB"
      /\ d.name \in OfType.B  => type = "B"
  BY <1>1, <1>2, RowTypes
<1>4. /\ type \in {"I", "X", "IW", "R", "D"} => d.rd = Rd(w)
      /\ type \in {"I", "X", "R", "D"} => d.rn = Rn(w)
      /\ type = "R" => d.rm = immr(w)
      /\ type = "X" => d.rm = Rm(w)
      /\ type = "CB" => d.rt = Rd(w)
      /\ type = "I" => d.shamt = sh(w) /\ d.alu_immediate = imm12(w)
  BY <1>2, Fields DEF Rd, Rn, Rm, immr, sh, imm12
<1>5. /\ type = "D" => d.dt_address = w.lo \div 4096
      /\ type = "B" => d.br_address = w.lo % 64
      /\ type = "CB" => d.cond_br_address = ((w.hi % 8) * 65536) + (w.lo \div 32)
      /\ type = "IW" => d.mov_immediate = imm16(w)
  BY <1>2, Fields DEF imm16
<1> HIDE DEF d
<1>6. QED  BY <1>3, <1>4, <1>5 DEF d

LEMMA RegisterFields ==
  ASSUME NEW w, BytecodeOK(w)
  PROVE  /\ Rd(w) \in 0 .. (ARM_REGS - 1) /\ Rn(w) \in 0 .. (ARM_REGS - 1)
         /\ Rm(w) \in 0 .. (ARM_REGS - 1)
<1>1. PICK l \in Nat : l = w.lo
  BY SMT DEF BytecodeOK
<1>2. l < 2097152
  BY <1>1, SMT DEF BytecodeOK
<1>3. /\ l % 32 \in 0 .. (ARM_REGS - 1) /\ (l \div 32) % 32 \in 0 .. (ARM_REGS - 1)
      /\ l \div 65536 \in 0 .. (ARM_REGS - 1)
  BY <1>2, SMT DEF ARM_REGS
<1>4. QED  BY <1>1, <1>3 DEF Rd, Rn, Rm

\* The offsets, sign-extended as the handlers do.
LEMMA OffsetsByName ==
  ASSUME NEW w, BytecodeOK(w)
  PROVE  LET dt == w.lo \div 4096
             br == ((w.hi % 8) * 65536) + (w.lo \div 32)
         IN  /\ SignExtended(dt, Bit8, SignBit(dt, Bit8)) = imm9(w) /\ dt \in Nat
             /\ SignExtended(br, Bit18, SignBit(br, Bit18)) = imm19(w) /\ br \in Nat
             /\ imm19(w) < 0 <=> SignBit(br, Bit18)
<1>1. PICK l \in Nat : l = w.lo
  BY SMT DEF BytecodeOK
<1>2. PICK h \in Nat : h = w.hi
  BY SMT DEF BytecodeOK
<1>3. l < 2097152
  BY <1>1, SMT DEF BytecodeOK
<1>4. PICK dt \in Nat : dt = l \div 4096
  OBVIOUS
<1>5. PICK br \in Nat : br = ((h % 8) * 65536) + (l \div 32)
  OBVIOUS
<1>6. dt < 512 /\ br < 524288
  BY <1>3, <1>4, <1>5, SMT
<1>7. /\ SignExtended(dt, Bit8, SignBit(dt, Bit8)) = Signed(dt, 512)
      /\ SignExtended(br, Bit18, SignBit(br, Bit18)) = Signed(br, 524288)
  BY <1>6, Extensions, SMT
<1>8. Signed(br, 524288) < 0 <=> SignBit(br, Bit18)
  BY <1>6, SMT DEF Signed, SignBit, Bit18
<1>9. imm9(w) = Signed(dt, 512) /\ imm19(w) = Signed(br, 524288)
  BY <1>1, <1>2, <1>4, <1>5, SMT DEF imm9, imm19
<1>10. QED  BY <1>1, <1>2, <1>4, <1>5, <1>7, <1>8, <1>9, SMT

-----------------------------------------------------------------------------
\* What the machine of ISA sees of the simulator.

XRegs == [k \in 0 .. 30 |-> Architectural.REGS[k]]

LEMMA RefinedInit == Init => Described!Init
<1> SUFFICES ASSUME Init PROVE Described!Init
  OBVIOUS
<1>1. Architectural = Reset /\ RUN_BIT = 1 /\ command = "prompt"
  BY DEF Init, Architectural
<1>2. /\ Reset.PC = TEXT.start /\ Reset.FLAG_N = 0 /\ Reset.FLAG_Z = 0
      /\ \A k \in 0 .. 30 : Reset.REGS[k] = 0
  BY DEF Reset, ARM_REGS
<1>3. [k \in 0 .. 30 |-> Architectural.REGS[k]] = [k \in 0 .. 30 |-> 0]
  BY <1>1, <1>2
<1>4. QED  BY <1>1, <1>2, <1>3 DEF Described!Init, Described!TEXT, TEXT

\* The steps that only the simulator sees: decoding, the latch, and the commands.
LEMMA ShellStep ==
  ASSUME TypeOK, BetweenCycles, DoubleBuffer,
         \/ Go \/ Quit \/ Return \/ StartCycle \/ EndCycle
         \/ \E n \in RunSizes : Run(n)
         \/ \E r \in InputRegs, v \in InputValues : Input(r, v)
  PROVE  Described!Next \/ UNCHANGED Described!vars
<1>1. ASSUME Go \/ \E n \in RunSizes : Run(n) PROVE Described!Start
  <2>1. command = "prompt" /\ command' \in {"go", "run"} /\ UNCHANGED simVars
    BY <1>1 DEF Go, Run, AtPrompt
  <2>2. Architectural' = Architectural /\ RUN_BIT' = RUN_BIT /\ mem' = mem
    BY <2>1 DEF simVars, Architectural
  <2>3. QED  BY <2>1, <2>2 DEF Described!Start
<1>2. ASSUME Return PROVE Described!Return
  <2>1. command \in {"go", "run"} /\ command' = "prompt" /\ UNCHANGED simVars
    BY <1>2 DEF Return
  <2>2. Architectural' = Architectural /\ RUN_BIT' = RUN_BIT /\ mem' = mem
    BY <2>1 DEF simVars, Architectural
  <2>3. QED  BY <2>1, <2>2 DEF Described!Return
<1>3. ASSUME Quit PROVE UNCHANGED Described!vars
  <2>1. command = "prompt" /\ command' = "exited" /\ UNCHANGED simVars
    BY <1>3 DEF Quit, AtPrompt
  <2>2. Architectural' = Architectural /\ RUN_BIT' = RUN_BIT /\ mem' = mem
    BY <2>1 DEF simVars, Architectural
  <2>3. QED  BY <2>1, <2>2 DEF Described!vars
<1>4. ASSUME StartCycle PROVE UNCHANGED Described!vars
  <2>1. /\ stage = "idle" /\ stage' = "execute"
        /\ UNCHANGED <<CURRENT_STATE, RUN_BIT, mem, command>>
    BY <1>4 DEF StartCycle, Fetch, shellVars
  <2>2. Architectural' = Architectural
    BY <2>1 DEF Architectural
  <2>3. QED  BY <2>1, <2>2 DEF Described!vars
<1>5. ASSUME EndCycle PROVE UNCHANGED Described!vars
  <2>1. /\ stage = "latch" /\ stage' = "idle" /\ CURRENT_STATE' = NEXT_STATE
        /\ UNCHANGED <<RUN_BIT, mem, command>>
    BY <1>5 DEF EndCycle, Latch
  <2>2. Architectural' = Architectural
    BY <2>1 DEF Architectural
  <2>3. QED  BY <2>1, <2>2 DEF Described!vars
<1>6. ASSUME NEW r \in InputRegs, NEW v \in InputValues, Input(r, v)
      PROVE  Described!Input \/ UNCHANGED Described!vars
  <2>1. /\ command = "prompt" /\ stage = "idle" /\ stage' = "idle"
        /\ UNCHANGED <<RUN_BIT, mem, command>>
        /\ CURRENT_STATE' = [CURRENT_STATE EXCEPT !.REGS[r] = v]
    BY <1>6 DEF Input, AtPrompt, BetweenCycles, shellVars
  <2>2. Architectural = CURRENT_STATE /\ Architectural' = CURRENT_STATE'
    BY <2>1 DEF Architectural
  <2>3. r \in 0 .. 31 /\ v \in Dword /\ CURRENT_STATE \in CPU_State
    BY ShellAssumption DEF ARM_REGS, TypeOK
  <2>4. /\ CURRENT_STATE'.PC = CURRENT_STATE.PC
        /\ CURRENT_STATE'.FLAG_N = CURRENT_STATE.FLAG_N
        /\ CURRENT_STATE'.FLAG_Z = CURRENT_STATE.FLAG_Z
        /\ CURRENT_STATE'.REGS = [CURRENT_STATE.REGS EXCEPT ![r] = v]
    BY <2>1, <2>3 DEF CPU_State
  <2>5. \A k \in 0 .. 30 : k # r => CURRENT_STATE'.REGS[k] = CURRENT_STATE.REGS[k]
    BY <2>3, <2>4 DEF CPU_State, ARM_REGS
  <2>6. CASE r = 31
    <3>1. XRegs' = XRegs
      BY <2>2, <2>5, <2>6 DEF XRegs
    <3>2. QED  BY <2>1, <2>2, <2>4, <3>1 DEF Described!vars, XRegs
  <2>7. CASE r \in 0 .. 30
    <3>1. XRegs' = [XRegs EXCEPT ![r] = XRegs'[r]]
      BY Zenon, <2>2, <2>5, <2>7 DEF XRegs
    <3>2. QED  BY Zenon, <2>1, <2>2, <2>4, <2>7, <3>1 DEF Described!Input, XRegs
  <2>8. QED  BY <2>3, <2>6, <2>7
<1>7. QED  BY <1>1, <1>2, <1>3, <1>4, <1>5, <1>6 DEF Described!Next

-----------------------------------------------------------------------------
\* The state in which a handler runs.
Executing ==
  /\ TypeOK /\ DoubleBuffer /\ PCAligned /\ BetweenCycles
  /\ stage = "execute" /\ RUN_BIT = 1
  /\ \E garbage \in Garbage : instr = decode_instruction(bytecode, garbage)

LEMMA ExecuteState ==
  ASSUME IInv, Fetched, Process
  PROVE  Executing
<1>1. stage = "execute"
  BY HandlerEffect DEF Process, Effect, IInv
<1>2. QED  BY <1>1 DEF IInv, Fetched, Executing, bytecode

\* What the described machine sees of it.
LEMMA Machine ==
  ASSUME Executing
  PROVE  /\ CURRENT_STATE \in CPU_State /\ NEXT_STATE \in CPU_State
         /\ mem \in [Backed -> Byte] /\ instr \in Instruction
         /\ BytecodeOK(bytecode)
         /\ Architectural = CURRENT_STATE
         /\ Described!b = bytecode /\ Described!op = op
<1>1. /\ CURRENT_STATE \in CPU_State /\ NEXT_STATE \in CPU_State
      /\ mem \in [Backed -> Byte] /\ instr \in Instruction
  BY DEF Executing, TypeOK
<1>2. BytecodeOK(bytecode)
  <2>1. CURRENT_STATE.PC \in Int
    BY <1>1, Widths DEF CPU_State, Dword
  <2>2. mem_read_32(mem, CURRENT_STATE.PC) \in Word
    BY <1>1, <2>1, ReadType
  <2>3. QED  BY <2>2, SimulatorAssumption DEF bytecode
<1>3. Architectural = CURRENT_STATE
  BY DEF Executing, Architectural
<1>4. Described!b = bytecode
  BY <1>3, SameMemory DEF Described!b, bytecode
<1>5. Described!op = op
  BY <1>4, SameOp DEF Described!op, op
<1>6. QED  BY <1>1, <1>2, <1>3, <1>4, <1>5

\* NEXT_STATE differs from it in PC only.
LEMMA Preset ==
  ASSUME Executing
  PROVE  /\ NEXT_STATE.REGS = CURRENT_STATE.REGS
         /\ NEXT_STATE.FLAG_N = CURRENT_STATE.FLAG_N
         /\ NEXT_STATE.FLAG_Z = CURRENT_STATE.FLAG_Z
         /\ NEXT_STATE.PC = Trunc(CURRENT_STATE.PC + 4)
         /\ CURRENT_STATE.PC \in Dword
<1>1. CURRENT_STATE \in CPU_State
  BY Machine
<1>2. NEXT_STATE = [CURRENT_STATE EXCEPT !.PC = Trunc(CURRENT_STATE.PC + 4)]
  BY DEF Executing, DoubleBuffer
<1>3. QED  BY <1>1, <1>2 DEF CPU_State

\* A documented bytecode has a row, so that its handler stays within REGS.
LEMMA RowFound ==
  ASSUME Executing, op # "undocumented"
  PROVE  FirstMatch(bytecode) # NoRow /\ ~WildAccess
<1>1. BytecodeOK(bytecode)
  BY Machine
<1>2. FirstMatch(bytecode) # NoRow
  BY <1>1, DocumentedFound DEF op
<1>3. PICK garbage \in Garbage : instr = decode_instruction(bytecode, garbage)
  BY DEF Executing
<1>4. ASSUME NEW f \in Indexes(instr.name), instr[f] >= 2 * ARM_REGS
      PROVE  FALSE
  <2>1. instr[f] < 32 \/ instr[f] < 64
    BY <1>1, <1>2, <1>3, RegisterIndexes
  <2>2. instr[f] \in Int
    <3>1. f \in {"rd", "rn", "rm", "rt", "shamt"}
      BY DEF Indexes
    <3>2. instr \in Instruction
      BY Machine
    <3>3. QED  BY <3>1, <3>2 DEF Instruction
  <2>3. QED  BY <1>4, <2>1, <2>2 DEF ARM_REGS
<1>5. QED  BY <1>2, <1>4 DEF WildAccess

\* The name selects the handler.
LEMMA Dispatch ==
  ASSUME Executing, Execute, op # "undocumented"
  PROVE  /\ instr.name = "ADDS_immediate" => implement_ADDS_immediate
         /\ instr.name = "ADDS_extended_register" => implement_ADDS_extended_register
         /\ instr.name = "SUBS_immediate" => implement_SUBS_immediate
         /\ instr.name = "SUBS_extended_register" => implement_SUBS_extended_register
         /\ instr.name = "ANDS_shifted_register" => implement_ANDS_shifted_register
         /\ instr.name = "EOR_shifted_register" => implement_EOR_shifted_register
         /\ instr.name = "ORR_shifted_register" => implement_ORR_shifted_register
         /\ instr.name = "MOVZ" => implement_MOVZ
         /\ instr.name = "LSL_immediate" => implement_LSL_immediate
         /\ instr.name = "LSR_immediate" => implement_LSR_immediate
         /\ instr.name = "ADD_immediate" => implement_ADD_immediate
         /\ instr.name = "ADD_extended_register" => implement_ADD_extended_register
         /\ instr.name = "MUL" => implement_MUL
         /\ instr.name = "STUR" => implement_STUR
         /\ instr.name = "STURB" => implement_STURB
         /\ instr.name = "STURH" => implement_STURH
         /\ instr.name = "LDUR" => implement_LDUR
         /\ instr.name = "LDURB" => implement_LDURB
         /\ instr.name = "LDURH" => implement_LDURH
         /\ instr.name = "BCOND" => implement_BCOND
         /\ instr.name = "CBZ" => implement_CBZ
         /\ instr.name = "CBNZ" => implement_CBNZ
         /\ instr.name = "B" => implement_B
         /\ instr.name = "BR" => implement_BR
         /\ instr.name = "HLT" => implement_HLT
         /\ instr.name \notin {"unset", "NULL"} => stage' = "latch"
<1>1. /\ implement_ADDS_immediate => Runs("ADDS_immediate")
      /\ implement_ADDS_extended_register => Runs("ADDS_extended_register")
      /\ implement_SUBS_immediate => Runs("SUBS_immediate")
      /\ implement_SUBS_extended_register => Runs("SUBS_extended_register")
      /\ implement_ANDS_shifted_register => Runs("ANDS_shifted_register")
      /\ implement_EOR_shifted_register => Runs("EOR_shifted_register")
      /\ implement_ORR_shifted_register => Runs("ORR_shifted_register")
      /\ implement_MOVZ => Runs("MOVZ")
      /\ implement_LSL_immediate => Runs("LSL_immediate")
      /\ implement_LSR_immediate => Runs("LSR_immediate")
  BY DEF implement_ADDS_immediate, implement_ADDS_extended_register,
         implement_SUBS_immediate, implement_SUBS_extended_register,
         implement_ANDS_shifted_register, implement_EOR_shifted_register,
         implement_ORR_shifted_register, implement_MOVZ, implement_LSL_immediate,
         implement_LSR_immediate
<1>2. /\ implement_ADD_immediate => Runs("ADD_immediate")
      /\ implement_ADD_extended_register => Runs("ADD_extended_register")
      /\ implement_MUL => Runs("MUL")
      /\ implement_STUR => Runs("STUR")
      /\ implement_STURB => Runs("STURB")
      /\ implement_STURH => Runs("STURH")
      /\ implement_LDUR => Runs("LDUR")
      /\ implement_LDURB => Runs("LDURB")
      /\ implement_LDURH => Runs("LDURH")
  BY DEF implement_ADD_immediate, implement_ADD_extended_register, implement_MUL,
         implement_STUR, implement_STURB, implement_STURH,
         implement_LDUR, implement_LDURB, implement_LDURH
<1>3. /\ implement_BCOND => Runs("BCOND")
      /\ implement_CBZ => Runs("CBZ")
      /\ implement_CBNZ => Runs("CBNZ")
      /\ implement_B => Runs("B")
      /\ implement_BR => Runs("BR")
      /\ implement_HLT => Runs("HLT")
      /\ Unknown => /\ instr.name \in {"unset", "SUB_immediate", "AND_immediate"}
                    /\ instr.name # "unset" => stage' = "latch"
      /\ ~WildAccess
      /\ NullName => instr.name = "NULL"
  BY RowFound DEF implement_BCOND, implement_CBZ, implement_CBNZ, implement_B,
         implement_BR, implement_HLT, Unknown, NullName
<1>4. \A name : Runs(name) => instr.name = name /\ stage' = "latch"
  BY DEF Runs
<1>5. QED  BY <1>1, <1>2, <1>3, <1>4 DEF Execute

-----------------------------------------------------------------------------
\* The decoded instruction.

LEMMA Reached ==
  ASSUME Executing, op # "undocumented", ~SwappedShift,
         ~(op = "B" /\ imm26(bytecode) \notin 0 .. 63)
  PROVE  instr.name = HandlerOf(op)
<1>1. PICK garbage \in Garbage : instr = decode_instruction(bytecode, garbage)
  BY DEF Executing
<1>2. BytecodeOK(bytecode)
  BY Machine
<1>3. \/ instr.name = HandlerOf(op)
      \/ op = "B" /\ imm26(bytecode) \notin 0 .. 63
      \/ op = "LSL" /\ immr(bytecode) < 32
      \/ op = "LSR" /\ immr(bytecode) >= 32
  BY <1>1, <1>2, HandlerReached DEF op
<1>4. QED  BY <1>3 DEF SwappedShift

LEMMA InstrFields ==
  ASSUME Executing, op # "undocumented"
  PROVE  /\ instr.name \in OfType.I =>
              /\ instr.rd = Rd(bytecode) /\ instr.rn = Rn(bytecode)
              /\ instr.shamt = sh(bytecode) /\ instr.alu_immediate = imm12(bytecode)
         /\ instr.name \in OfType.X =>
              instr.rd = Rd(bytecode) /\ instr.rn = Rn(bytecode) /\ instr.rm = Rm(bytecode)
         /\ instr.name \in OfType.R =>
              instr.rd = Rd(bytecode) /\ instr.rn = Rn(bytecode) /\ instr.rm = immr(bytecode)
         /\ instr.name \in OfType.D =>
              /\ instr.rd = Rd(bytecode) /\ instr.rn = Rn(bytecode)
              /\ instr.dt_address = bytecode.lo \div 4096
         /\ instr.name \in OfType.IW =>
              instr.rd = Rd(bytecode) /\ instr.mov_immediate = imm16(bytecode)
         /\ instr.name \in OfType.CB =>
              /\ instr.rt = Rd(bytecode)
              /\ instr.cond_br_address = ((bytecode.hi % 8) * 65536) + (bytecode.lo \div 32)
         /\ instr.name \in OfType.B => instr.br_address = bytecode.lo % 64
<1>1. PICK garbage \in Garbage : instr = decode_instruction(bytecode, garbage)
  BY DEF Executing
<1>2. QED  BY <1>1, RowFound, FieldsByName

\* The bits its encoding fixes.
LEMMA EncodedBits ==
  ASSUME Executing
  PROVE  /\ op \in OpNames
         /\ op = "ADD_register" => immr(bytecode) = Rm(bytecode)
         /\ op = "ORR" => sh(bytecode) = 0
         /\ op = "LSL" => immr(bytecode) = imms(bytecode) + 1
<1>1. PICK h \in Tops : h = bytecode.hi
  BY Machine, BytecodeRanges
<1>2. /\ h \in TopBits(op) /\ op \in OpNames
      /\ op = "LSL" => immr(bytecode) = imms(bytecode) + 1
  BY <1>1, OpMeans DEF op
<1>3. op = "ADD_register" => h = 1112
  BY <1>2 DEF TopBits
<1>4. op = "ORR" => h = 1360
  BY <1>2 DEF TopBits
<1>5. PICK r \in Int : r = Rm(bytecode)
  <2>1. Rm(bytecode) \in Int
    BY Machine, RegisterFields DEF ARM_REGS
  <2>2. QED  BY <2>1
<1>6. immr(bytecode) = ((h % 2) * 32) + r /\ sh(bytecode) = (h \div 2) % 4
  BY <1>1, <1>5 DEF immr, sh
<1>7. QED  BY <1>2, <1>3, <1>4, <1>5, <1>6

RegisterForms  == {"ADDS_register", "SUBS_register", "ADD_register", "ANDS", "EOR", "MUL"}
ImmediateForms == {"ADDS_immediate", "SUBS_immediate", "ADD_immediate"}
Transfers      == {"STUR", "STURB", "STURH", "LDUR", "LDURB", "LDURH"}
Conditional    == {"B.cond", "CBZ", "CBNZ"}

LEMMA Decoded ==
  ASSUME Executing, ~SwappedShift
  PROVE  /\ op \in RegisterForms =>
              instr.rd = Rd(bytecode) /\ instr.rn = Rn(bytecode) /\ instr.rm = Rm(bytecode)
         /\ op \in ImmediateForms =>
              /\ instr.rd = Rd(bytecode) /\ instr.rn = Rn(bytecode)
              /\ instr.alu_immediate = imm12(bytecode)
         /\ op = "ORR" =>
              instr.rd = Rd(bytecode) /\ instr.rn = Rn(bytecode) /\ instr.shamt = 0
         /\ op \in {"LSL", "LSR"} =>
              instr.rd = Rd(bytecode) /\ instr.rn = Rn(bytecode) /\ instr.rm = immr(bytecode)
         /\ op = "MOVZ" => instr.rd = Rd(bytecode) /\ instr.mov_immediate = imm16(bytecode)
         /\ op = "BR" => instr.rn = Rn(bytecode)
         /\ op \in Transfers =>
              /\ instr.rd = Rd(bytecode) /\ instr.rn = Rn(bytecode)
              /\ instr.dt_address = bytecode.lo \div 4096
         /\ op \in Conditional =>
              /\ instr.rt = Rd(bytecode)
              /\ instr.cond_br_address = ((bytecode.hi % 8) * 65536) + (bytecode.lo \div 32)
<1>1. PICK o \in OpNames : o = op
  BY EncodedBits
<1>2. o \in (OpNames \ {"undocumented", "B"}) => instr.name = HandlerOf(o)
  BY <1>1, Reached
<1>3. o \in RegisterForms \ {"ADD_register"} => instr.name \in OfType.X
  BY <1>2, HandlerNames DEF RegisterForms, OpNames, OfType
<1>4. o \in ImmediateForms \union {"ORR", "BR"} => instr.name \in OfType.I
  BY <1>2, HandlerNames DEF ImmediateForms, OpNames, OfType
<1>5. o \in {"ADD_register", "LSL", "LSR"} => instr.name \in OfType.R
  BY <1>2, HandlerNames DEF OpNames, OfType
<1>6. o = "MOVZ" => instr.name \in OfType.IW
  BY <1>2, HandlerNames DEF OpNames, OfType
<1>7. o \in Transfers => instr.name \in OfType.D
  BY <1>2, HandlerNames DEF Transfers, OpNames, OfType
<1>8. o \in Conditional => instr.name \in OfType.CB
  BY <1>2, HandlerNames DEF Conditional, OpNames, OfType
<1>9. /\ o = "ADD_register" => immr(bytecode) = Rm(bytecode)
      /\ o = "ORR" => sh(bytecode) = 0
  BY <1>1, EncodedBits
<1>10. o \in RegisterForms \ {"ADD_register"} \/ o = "ADD_register" \/ o \notin RegisterForms
  OBVIOUS
<1>11. CASE o # "undocumented"
  BY <1>1, <1>3, <1>4, <1>5, <1>6, <1>7, <1>8, <1>9, <1>10, <1>11, InstrFields DEF OfType
<1>12. CASE o = "undocumented"
  BY <1>1, <1>12 DEF RegisterForms, ImmediateForms, Transfers, Conditional
<1>13. QED  BY <1>11, <1>12

-----------------------------------------------------------------------------
\* Operands and results.

LEMMA Sources ==
  /\ op \in RegisterForms \union {"ORR"} =>
       Rn(bytecode) \in SourceRegisters /\ Rm(bytecode) \in SourceRegisters
  /\ op \in ImmediateForms \union {"LSL", "LSR", "BR", "LDUR", "LDURH", "LDURB"} =>
       Rn(bytecode) \in SourceRegisters
  /\ op \in {"STUR", "STURH", "STURB"} =>
       Rn(bytecode) \in SourceRegisters /\ Rd(bytecode) \in SourceRegisters
  /\ op \in {"CBZ", "CBNZ"} => Rd(bytecode) \in SourceRegisters
  /\ SourceRegisters \subseteq {Rd(bytecode), Rn(bytecode), Rm(bytecode)}
<1>1. PICK o : o = op
  OBVIOUS
<1>2. QED  BY <1>1 DEF SourceRegisters, RegisterForms, ImmediateForms

\* An operand that is not a stale XZR is the register the description names.
LEMMA Operand ==
  ASSUME Executing, ~StaleZero, NEW k \in SourceRegisters
  PROVE  /\ Reads(k) = {Described!X(k)} /\ Described!X(k) = CURRENT_STATE.REGS[k]
         /\ Described!X(k) \in Dword
<1>1. CURRENT_STATE \in CPU_State /\ BytecodeOK(bytecode) /\ Architectural = CURRENT_STATE
  BY Machine
<1>2. k \in 0 .. (ARM_REGS - 1)
  BY <1>1, Sources, RegisterFields
<1>3. CURRENT_STATE.REGS[k] \in Dword
  BY <1>1, <1>2 DEF CPU_State
<1>4. k = 31 => CURRENT_STATE.REGS[k] = 0
  BY DEF StaleZero
<1>5. k < ARM_REGS /\ (k # 31 => k \in 0 .. 30)
  BY <1>2 DEF ARM_REGS
<1>6. Described!X(k) = CURRENT_STATE.REGS[k]
  BY <1>1, <1>4, <1>5 DEF Described!X
<1>7. QED  BY <1>3, <1>5, <1>6 DEF Reads

\* What the description computes, case by case.
LEMMA ResultOf ==
  ASSUME Executing,
         NEW x, x = Described!X(Rn(bytecode)), NEW y, y = Described!X(Rm(bytecode))
  PROVE  /\ op \in {"ADDS_register", "ADD_register"} => Described!Result = Trunc(x + y)
         /\ op \in {"ADDS_immediate", "ADD_immediate"} =>
              Described!Result = Trunc(x + Described!Immediate)
         /\ op = "SUBS_register" => Described!Result = Trunc(x - y)
         /\ op = "SUBS_immediate" => Described!Result = Trunc(x - Described!Immediate)
         /\ op = "ANDS" => Described!Result = And64(x, y)
         /\ op = "EOR" => Described!Result = Xor64(x, y)
         /\ op = "ORR" => Described!Result = Or64(x, y)
         /\ op = "MUL" => Described!Result = Mul(x, y)
         /\ op = "LSL" => Described!Result = ShiftLeft(x, 63 - imms(bytecode))
         /\ op = "LSR" => Described!Result = ShiftRight(x, immr(bytecode))
         /\ op = "MOVZ" => Described!Result = Trunc(imm16(bytecode))
         /\ op = "LDUR" => Described!Result = Described!Load8(Described!address)
         /\ op = "LDURB" => Described!Result = Described!Load1(Described!address)
<1>1. PICK o : o = op
  OBVIOUS
<1>2. Described!op = o /\ Described!b = bytecode
  BY <1>1, Machine
<1>3. /\ Described!Rn(bytecode) = Rn(bytecode) /\ Described!Rm(bytecode) = Rm(bytecode)
      /\ Described!imms(bytecode) = imms(bytecode)
      /\ Described!immr(bytecode) = immr(bytecode)
      /\ Described!imm16(bytecode) = imm16(bytecode)
  BY SameFields
<1>4. /\ o \in {"ADDS_register", "ADD_register"} => Described!Result = Trunc(x + y)
      /\ o \in {"ADDS_immediate", "ADD_immediate"} =>
           Described!Result = Trunc(x + Described!Immediate)
      /\ o = "SUBS_register" => Described!Result = Trunc(x - y)
      /\ o = "SUBS_immediate" => Described!Result = Trunc(x - Described!Immediate)
  BY <1>2, <1>3, SameWords DEF Described!Result
<1>5. /\ o = "ANDS" => Described!Result = And64(x, y)
      /\ o = "EOR" => Described!Result = Xor64(x, y)
      /\ o = "ORR" => Described!Result = Or64(x, y)
      /\ o = "MUL" => Described!Result = Mul(x, y)
  BY <1>2, <1>3, SameWords, SameLogic DEF Described!Result
<1>6. /\ o = "LSL" => Described!Result = ShiftLeft(x, 63 - imms(bytecode))
      /\ o = "LSR" => Described!Result = ShiftRight(x, immr(bytecode))
      /\ o = "MOVZ" => Described!Result = Trunc(imm16(bytecode))
      /\ o = "LDUR" => Described!Result = Described!Load8(Described!address)
      /\ o = "LDURB" => Described!Result = Described!Load1(Described!address)
  BY <1>2, <1>3, SameWords DEF Described!Result
<1>7. QED  BY <1>1, <1>4, <1>5, <1>6

\* The immediates and shift distances of the handlers.
LEMMA Distances ==
  ASSUME Executing
  PROVE  /\ imm12(bytecode) \in Nat /\ imm16(bytecode) \in Nat
         /\ immr(bytecode) \in 0 .. 63
         /\ immr(bytecode) % 64 = immr(bytecode)
         /\ op = "LSL" => (64 - immr(bytecode)) % 64 = 63 - imms(bytecode)
         /\ op \in ImmediateForms /\ ~ImmediateShifted =>
              Described!Immediate = imm12(bytecode)
<1>1. PICK h \in Nat : h = bytecode.hi
  BY Machine DEF BytecodeOK
<1>2. PICK l \in Nat : l = bytecode.lo
  BY Machine, SMT DEF BytecodeOK
<1>3. l < 2097152
  BY <1>2, Machine, SMT DEF BytecodeOK
<1>4. imm12(bytecode) = ((h % 2) * 2048) + (l \div 1024) /\ imm16(bytecode) = l \div 32
  BY <1>1, <1>2 DEF imm12, imm16
<1>5. immr(bytecode) = ((h % 2) * 32) + (l \div 65536)
  BY <1>1, <1>2 DEF immr, Rm
<1>6. immr(bytecode) \in 0 .. 63
  BY <1>3, <1>5, SMT
<1>7. imm12(bytecode) \in Nat /\ imm16(bytecode) \in Nat
  BY <1>4
<1>8. PICK s \in Nat : s = imms(bytecode)
  <2>1. imms(bytecode) \in Nat
    BY <1>2 DEF imms, imm6
  <2>2. QED  BY <2>1
<1>9. op = "LSL" => immr(bytecode) = s + 1
  BY <1>8, EncodedBits
<1>10. /\ op = "LSL" => (64 - immr(bytecode)) % 64 = 63 - imms(bytecode)
       /\ immr(bytecode) % 64 = immr(bytecode)
  <2>1. PICK r \in 0 .. 63 : r = immr(bytecode)
    BY <1>6
  <2>2. r % 64 = r
    OBVIOUS
  <2>3. ASSUME op = "LSL" PROVE (64 - r) % 64 = 63 - s
    <3>1. r = s + 1
      BY <1>9, <2>1, <2>3
    <3>2. QED  BY <3>1
  <2>4. QED  BY <1>8, <2>1, <2>2, <2>3
<1>11. ASSUME op \in ImmediateForms, ~ImmediateShifted
       PROVE  Described!Immediate = imm12(bytecode)
  <2>1. sh(bytecode) # 1
    BY <1>11 DEF ImmediateShifted, ImmediateForms
  <2>2. Described!Immediate = imm12(bytecode) * 1
    BY <2>1, Machine, SameFields DEF Described!Immediate
  <2>3. PICK v \in Nat : v = imm12(bytecode)
    BY <1>7
  <2>4. QED  BY <2>2, <2>3
<1>12. QED  BY <1>6, <1>7, <1>10, <1>11

\* The ways a handler delivers r to register rd: SUBS and ADD(register) leave
\* register 31 alone, the others write it too.
FlagForms == {"ADDS_register", "ADDS_immediate", "SUBS_register", "SUBS_immediate", "ANDS"}
Delivers(rd, r) ==
  \/ WritesAndFlags(rd, r)
  \/ op \notin FlagForms /\ Writes(rd, r)
  \/ rd = 31 /\ FlagsOnly(r)
  \/ rd = 31 /\ op \notin FlagForms /\ FallsThrough
Computing == RegisterForms \union ImmediateForms \union {"ORR", "LSL", "LSR", "MOVZ"}

LEMMA Computes ==
  ASSUME Executing, Execute, op \in Computing,
         ~StaleZero, ~ImmediateShifted, ~SwappedShift, op = "ORR" => Rm(bytecode) = 0
  PROVE  instr.rd = Rd(bytecode) /\ Delivers(Rd(bytecode), Described!Result)
<1>1. PICK o \in Computing : o = op
  OBVIOUS
<1>2. PICK rd : rd = Rd(bytecode)
  OBVIOUS
<1>3. PICK x : x = Described!X(Rn(bytecode))
  OBVIOUS
<1>4. PICK y : y = Described!X(Rm(bytecode))
  OBVIOUS
<1>5. instr.name = HandlerOf(o) /\ op # "undocumented"
  BY <1>1, Reached DEF Computing, RegisterForms, ImmediateForms
<1>6. o # "MOVZ" => Reads(Rn(bytecode)) = {x}
  BY <1>1, <1>3, Sources, Operand DEF Computing
<1>7. o \in RegisterForms \union {"ORR"} => Reads(Rm(bytecode)) = {y}
  BY <1>1, <1>4, Sources, Operand
<1>8. instr.rd = rd
  BY <1>1, <1>2, Decoded DEF Computing
<1>9. ASSUME o \in RegisterForms PROVE Delivers(rd, Described!Result)
  <2>1. Reads(instr.rn) = {x} /\ Reads(instr.rm) = {y}
    BY <1>1, <1>6, <1>7, <1>9, Decoded DEF RegisterForms
  <2>2. CASE o = "ADDS_register"
    <3>1. implement_ADDS_extended_register
      BY <1>5, <2>2, HandlerNames, Dispatch
    <3>2. Described!Result = Trunc(x + y)
      BY <1>1, <1>3, <1>4, <2>2, ResultOf
    <3>3. QED  BY <1>8, <2>1, <3>1, <3>2 DEF implement_ADDS_extended_register, Delivers
  <2>3. CASE o = "SUBS_register"
    <3>1. implement_SUBS_extended_register
      BY <1>5, <2>3, HandlerNames, Dispatch
    <3>2. Described!Result = Trunc(x - y)
      BY <1>1, <1>3, <1>4, <2>3, ResultOf
    <3>3. QED  BY <1>8, <2>1, <3>1, <3>2 DEF implement_SUBS_extended_register, Delivers
  <2>4. CASE o = "ADD_register"
    <3>1. implement_ADD_extended_register
      BY <1>5, <2>4, HandlerNames, Dispatch
    <3>2. Described!Result = Trunc(x + y)
      BY <1>1, <1>3, <1>4, <2>4, ResultOf
    <3>3. op \notin FlagForms
      BY <1>1, <2>4 DEF FlagForms
    <3>4. QED
      BY <1>8, <2>1, <3>1, <3>2, <3>3 DEF implement_ADD_extended_register, Delivers
  <2>5. CASE o = "ANDS"
    <3>1. implement_ANDS_shifted_register
      BY <1>5, <2>5, HandlerNames, Dispatch
    <3>2. Described!Result = And64(x, y)
      BY <1>1, <1>3, <1>4, <2>5, ResultOf
    <3>3. QED  BY <1>8, <2>1, <3>1, <3>2 DEF implement_ANDS_shifted_register, Delivers
  <2>6. CASE o = "EOR"
    <3>1. implement_EOR_shifted_register
      BY <1>5, <2>6, HandlerNames, Dispatch
    <3>2. Described!Result = Xor64(x, y)
      BY <1>1, <1>3, <1>4, <2>6, ResultOf
    <3>3. op \notin FlagForms
      BY <1>1, <2>6 DEF FlagForms
    <3>4. QED
      BY <1>8, <2>1, <3>1, <3>2, <3>3 DEF implement_EOR_shifted_register, Delivers
  <2>7. CASE o = "MUL"
    <3>1. implement_MUL
      BY <1>5, <2>7, HandlerNames, Dispatch
    <3>2. Described!Result = Mul(x, y)
      BY <1>1, <1>3, <1>4, <2>7, ResultOf
    <3>3. op \notin FlagForms
      BY <1>1, <2>7 DEF FlagForms
    <3>4. QED  BY <1>8, <2>1, <3>1, <3>2, <3>3 DEF implement_MUL, Delivers
  <2>8. QED  BY <1>9, <2>2, <2>3, <2>4, <2>5, <2>6, <2>7 DEF RegisterForms
<1>10. ASSUME o \in ImmediateForms PROVE Delivers(rd, Described!Result)
  <2>1. Reads(instr.rn) = {x} /\ instr.alu_immediate = imm12(bytecode)
    BY <1>1, <1>6, <1>10, Decoded DEF ImmediateForms
  <2>2. Described!Immediate = imm12(bytecode)
    BY <1>1, <1>10, Distances
  <2>3. CASE o = "ADDS_immediate"
    <3>1. implement_ADDS_immediate
      BY <1>5, <2>3, HandlerNames, Dispatch
    <3>2. Described!Result = Trunc(x + imm12(bytecode))
      BY <1>1, <1>3, <1>4, <2>2, <2>3, ResultOf
    <3>3. QED  BY <1>8, <2>1, <3>1, <3>2 DEF implement_ADDS_immediate, Delivers
  <2>4. CASE o = "SUBS_immediate"
    <3>1. implement_SUBS_immediate
      BY <1>5, <2>4, HandlerNames, Dispatch
    <3>2. Described!Result = Trunc(x - imm12(bytecode))
      BY <1>1, <1>3, <1>4, <2>2, <2>4, ResultOf
    <3>3. QED  BY <1>8, <2>1, <3>1, <3>2 DEF implement_SUBS_immediate, Delivers
  <2>5. CASE o = "ADD_immediate"
    <3>1. implement_ADD_immediate
      BY <1>5, <2>5, HandlerNames, Dispatch
    <3>2. Described!Result = Trunc(x + imm12(bytecode))
      BY <1>1, <1>3, <1>4, <2>2, <2>5, ResultOf
    <3>3. op \notin FlagForms
      BY <1>1, <2>5 DEF FlagForms
    <3>4. QED  BY <1>8, <2>1, <3>1, <3>2, <3>3 DEF implement_ADD_immediate, Delivers
  <2>6. QED  BY <1>10, <2>3, <2>4, <2>5 DEF ImmediateForms
<1>11. CASE o = "ORR"
  <2>1. Reads(instr.rn) = {x} /\ Reads(instr.shamt) = {y}
    BY <1>1, <1>6, <1>7, <1>11, Decoded
  <2>2. implement_ORR_shifted_register
    BY <1>5, <1>11, HandlerNames, Dispatch
  <2>3. Described!Result = Or64(x, y)
    BY <1>1, <1>3, <1>4, <1>11, ResultOf
  <2>4. op \notin FlagForms
    BY <1>1, <1>11 DEF FlagForms
  <2>5. Delivers(rd, Described!Result)
    BY <1>8, <2>1, <2>2, <2>3, <2>4 DEF implement_ORR_shifted_register, Delivers
  <2>6. QED  BY <1>2, <1>8, <2>5
<1>12. CASE o = "LSL"
  <2>1. Reads(instr.rn) = {x} /\ (64 - instr.rm) % 64 = 63 - imms(bytecode)
    BY <1>1, <1>6, <1>12, Decoded, Distances
  <2>2. implement_LSL_immediate
    BY <1>5, <1>12, HandlerNames, Dispatch
  <2>3. Described!Result = ShiftLeft(x, 63 - imms(bytecode))
    BY <1>1, <1>3, <1>4, <1>12, ResultOf
  <2>4. Delivers(rd, Described!Result)
    BY <1>8, <2>1, <2>2, <2>3 DEF implement_LSL_immediate, Delivers
  <2>5. QED  BY <1>2, <1>8, <2>4
<1>13. CASE o = "LSR"
  <2>1. Reads(instr.rn) = {x} /\ instr.rm % 64 = immr(bytecode)
    BY <1>1, <1>6, <1>13, Decoded, Distances
  <2>2. implement_LSR_immediate
    BY <1>5, <1>13, HandlerNames, Dispatch
  <2>3. Described!Result = ShiftRight(x, immr(bytecode))
    BY <1>1, <1>3, <1>4, <1>13, ResultOf
  <2>4. op \notin FlagForms
    BY <1>1, <1>13 DEF FlagForms
  <2>5. Delivers(rd, Described!Result)
    BY <1>8, <2>1, <2>2, <2>3, <2>4 DEF implement_LSR_immediate, Delivers
  <2>6. QED  BY <1>2, <1>8, <2>5
<1>14. CASE o = "MOVZ"
  <2>1. implement_MOVZ /\ instr.mov_immediate = imm16(bytecode)
    BY <1>1, <1>5, <1>14, HandlerNames, Dispatch, Decoded
  <2>2. Described!Result = Trunc(imm16(bytecode))
    BY <1>1, <1>3, <1>4, <1>14, ResultOf
  <2>3. Delivers(rd, Described!Result)
    BY <1>8, <2>1, <2>2 DEF implement_MOVZ, Delivers
  <2>4. QED  BY <1>2, <1>8, <2>3
<1>15. QED  BY <1>2, <1>8, <1>9, <1>10, <1>11, <1>12, <1>13, <1>14 DEF Computing

-----------------------------------------------------------------------------
\* The latch: what a handler leaves of NEXT_STATE.

\* Only branches move PC; they and the stores write no register.
LEMMA UpdatesKeepPC ==
  ASSUME NEXT_STATE \in CPU_State
  PROVE  /\ \A rd, r : Writes(rd, r) \/ WritesAndFlags(rd, r) =>
              NEXT_STATE'.PC = NEXT_STATE.PC
         /\ \A r : FlagsOnly(r) => NEXT_STATE'.PC = NEXT_STATE.PC
         /\ FallsThrough => NEXT_STATE' = NEXT_STATE
<1>1. \A rd, r : Writes(rd, r) => NEXT_STATE'.PC = NEXT_STATE.PC
  BY DEF Writes, CPU_State
<1>2. \A rd, r : WritesAndFlags(rd, r) => NEXT_STATE'.PC = NEXT_STATE.PC
  BY DEF WritesAndFlags, CPU_State
<1>3. \A r : FlagsOnly(r) => NEXT_STATE'.PC = NEXT_STATE.PC
  BY DEF FlagsOnly, CPU_State
<1>4. QED  BY <1>1, <1>2, <1>3 DEF FallsThrough

Branching == {"BCOND", "CBZ", "CBNZ", "B", "BR"}

LEMMA OnlyBranchesJump ==
  ASSUME NEXT_STATE \in CPU_State, Execute, instr.name \notin Branching
  PROVE  NEXT_STATE'.PC = NEXT_STATE.PC
<1>1. implement_ADDS_immediate \/ implement_ADDS_extended_register
      \/ implement_SUBS_immediate \/ implement_SUBS_extended_register
      \/ implement_ANDS_shifted_register \/ implement_EOR_shifted_register
      \/ implement_ORR_shifted_register => NEXT_STATE'.PC = NEXT_STATE.PC
  BY UpdatesKeepPC
     DEF implement_ADDS_immediate, implement_ADDS_extended_register,
         implement_SUBS_immediate, implement_SUBS_extended_register,
         implement_ANDS_shifted_register, implement_EOR_shifted_register,
         implement_ORR_shifted_register
<1>2. implement_MOVZ \/ implement_LSL_immediate \/ implement_LSR_immediate
      \/ implement_ADD_immediate \/ implement_ADD_extended_register \/ implement_MUL
        => NEXT_STATE'.PC = NEXT_STATE.PC
  BY UpdatesKeepPC
     DEF implement_MOVZ, implement_LSL_immediate, implement_LSR_immediate,
         implement_ADD_immediate, implement_ADD_extended_register, implement_MUL
<1>3. implement_STUR \/ implement_STURB \/ implement_STURH
      \/ implement_LDUR \/ implement_LDURB \/ implement_LDURH
        => NEXT_STATE'.PC = NEXT_STATE.PC
  BY UpdatesKeepPC
     DEF implement_STUR, implement_STURB, implement_STURH, OnlyMemory,
         implement_LDUR, implement_LDURB, implement_LDURH
<1>4. implement_HLT \/ Unknown \/ WildAccess \/ NullName =>
        NEXT_STATE'.PC = NEXT_STATE.PC
  BY DEF implement_HLT, Unknown, WildAccess, NullName
<1>5. implement_BCOND \/ implement_CBZ \/ implement_CBNZ \/ implement_B \/ implement_BR
        => instr.name \in Branching
  BY DEF Branching, implement_BCOND, implement_CBZ, implement_CBNZ, implement_B,
         implement_BR, Runs
<1>6. QED  BY <1>1, <1>2, <1>3, <1>4, <1>5 DEF Execute

Silent == Branching \union {"HLT", "STUR", "STURB", "STURH"}

LEMMA SilentKeepsRegisters ==
  ASSUME Executing, Execute, op # "undocumented", instr.name \in Silent
  PROVE  NEXT_STATE'.REGS = NEXT_STATE.REGS
<1>1. \A a : Branches(a) => NEXT_STATE'.REGS = NEXT_STATE.REGS
  BY Machine DEF Branches, CPU_State
<1>2. FallsThrough => NEXT_STATE'.REGS = NEXT_STATE.REGS
  BY DEF FallsThrough
<1>3. instr.name \in Branching => NEXT_STATE'.REGS = NEXT_STATE.REGS
  BY <1>1, <1>2, Dispatch
     DEF Branching, implement_BCOND, implement_CBZ, implement_CBNZ, implement_B,
         implement_BR, BranchesIf
<1>4. instr.name \in {"HLT", "STUR", "STURB", "STURH"} => NEXT_STATE'.REGS = NEXT_STATE.REGS
  BY Dispatch DEF implement_HLT, implement_STUR, implement_STURB, implement_STURH, OnlyMemory
<1>5. QED  BY <1>3, <1>4 DEF Silent

LEMMA DeliveredFields ==
  ASSUME NEXT_STATE \in CPU_State, NEW rd \in 0 .. (ARM_REGS - 1), NEW r, Delivers(rd, r)
  PROVE  /\ rd # 31 => NEXT_STATE'.REGS[rd] = r
         /\ op \in FlagForms => NEXT_STATE'.FLAG_N = FlagN(r) /\ NEXT_STATE'.FLAG_Z = FlagZ(r)
<1>1. CASE WritesAndFlags(rd, r)
  BY <1>1 DEF WritesAndFlags, CPU_State
<1>2. CASE op \notin FlagForms /\ Writes(rd, r)
  BY <1>2 DEF Writes, CPU_State
<1>3. CASE rd = 31 /\ FlagsOnly(r)
  BY <1>3 DEF FlagsOnly, CPU_State
<1>4. QED  BY <1>1, <1>2, <1>3 DEF Delivers

\* The registers the described machine sees after a handler that delivers r.
LEMMA RegistersAfter ==
  ASSUME Executing, Execute, stage' = "latch",
         NEW rd \in 0 .. (ARM_REGS - 1), instr.rd = rd,
         NEW r, rd # 31 => NEXT_STATE'.REGS[rd] = r
  PROVE  /\ rd = 31 => XRegs' = XRegs
         /\ rd # 31 => XRegs' = [XRegs EXCEPT ![rd] = r]
<1>1. Architectural = CURRENT_STATE /\ Architectural' = NEXT_STATE'
  BY Machine DEF Architectural
<1>2. \A k \in 0 .. (ARM_REGS - 1) : k # rd => NEXT_STATE'.REGS[k] = CURRENT_STATE.REGS[k]
  BY HandlerEffect, EffectFields, Preset DEF Executing
<1>3. \A k \in 0 .. 30 : k \in 0 .. (ARM_REGS - 1)
  BY DEF ARM_REGS
<1>4. \A k \in 0 .. 30 : k # rd => XRegs'[k] = XRegs[k]
  BY <1>1, <1>2, <1>3 DEF XRegs
<1>5. CASE rd = 31
  <2>1. \A k \in 0 .. 30 : XRegs'[k] = XRegs[k]
    BY <1>4, <1>5
  <2>2. QED  BY <1>5, <2>1 DEF XRegs
<1>6. CASE rd # 31
  <2>1. rd \in 0 .. 30
    BY <1>6 DEF ARM_REGS
  <2>2. XRegs'[rd] = r
    BY <1>1, <1>6, <2>1 DEF XRegs
  <2>3. QED  BY <1>4, <1>6, <2>1, <2>2 DEF XRegs
<1>7. QED  BY <1>5, <1>6

-----------------------------------------------------------------------------
\* Addresses and loads.

LEMMA AddressAs ==
  ASSUME Executing, ~StaleZero, op \in Transfers
  PROVE  /\ Described!address = address /\ address \in Dword
         /\ instr.rd = Rd(bytecode) /\ instr.name = op
         /\ \E base : Reads(instr.rn) = {base} /\ Address(base) = address
<1>1. PICK o \in Transfers : o = op
  OBVIOUS
<1>2. ~SwappedShift /\ op # "B" /\ op # "undocumented"
  BY DEF Transfers, SwappedShift
<1>3. instr.name = op
  BY <1>1, <1>2, Reached, HandlerNames DEF Transfers
<1>4. /\ instr.rd = Rd(bytecode) /\ instr.rn = Rn(bytecode)
      /\ instr.dt_address = bytecode.lo \div 4096
  BY <1>2, Decoded
<1>5. Rn(bytecode) \in SourceRegisters
  BY <1>1, Sources DEF Transfers
<1>6. PICK base \in Dword : base = CURRENT_STATE.REGS[Rn(bytecode)]
  BY <1>5, Operand
<1>7. Reads(instr.rn) = {base} /\ Described!X(Rn(bytecode)) = base
  BY <1>4, <1>5, <1>6, Operand
<1>8. Address(base) = Trunc(base + imm9(bytecode))
  BY <1>4, Machine, OffsetsByName DEF Address
<1>9. Described!address = Trunc(base + imm9(bytecode))
  BY <1>7, Machine, SameFields, SameWords DEF Described!address
<1>10. address = Address(base) /\ Address(base) \in Dword
  BY <1>6, Machine, AddressTypes DEF address
<1>11. QED  BY <1>3, <1>4, <1>7, <1>8, <1>9, <1>10

LEMMA InRegionMapped ==
  ASSUME NEW a \in Int, NEW n \in Nat \ {0}, Described!InRegion(a, n),
         NEW p \in a .. (a + n - 1)
  PROVE  Mapped(p) /\ Mapped(p - (p % 4))
<1>1. PICK k \in 1 .. 3 : a .. (a + n - 1) \subseteq Covers(MEM_REGIONS[k])
  BY DEF Described!InRegion, Described!Covers, Covers
<1>2. PICK start \in Nat : start = MEM_REGIONS[k].start /\ start % 4 = 0
  BY MemoryAssumption
<1>3. PICK size \in Nat : size = MEM_REGIONS[k].size
  BY MemoryAssumption
<1>4. p \in start .. (start + size - 1)
  BY <1>1, <1>2, <1>3 DEF Covers
<1>5. p >= start /\ p < start + size
  BY <1>2, <1>3, <1>4
<1>6. p - (p % 4) >= start /\ p - (p % 4) < start + size
  BY <1>2, <1>3, <1>5
<1>7. QED  BY <1>2, <1>3, <1>5, <1>6 DEF Mapped

\* A mapped word is loaded as the description has it.
LEMMA WordLoaded ==
  ASSUME NEW a \in Int, mem \in [Backed -> Byte], Mapped(a)
  PROVE  Described!Load4(a) = mem_read_32(mem, a)
<1>1. Described!HALF = HALF
  BY SameWords
<1>2. (a + 2) + 1 = a + 3
  OBVIOUS
<1>3. QED
  BY <1>1, <1>2 DEF mem_read_32, Described!Load4, Described!Load2, Described!Load1

LEMMA LoadWordsResult ==
  ASSUME Executing, Execute, op = "LDUR", ~StaleZero, Described!InRegion(Described!address, 8),
         address % 4 = 0, ~(address + 4 >= WORD)
  PROVE  instr.rd = Rd(bytecode) /\ Writes(Rd(bytecode), Described!Result)
<1>1. op \in Transfers
  BY DEF Transfers
<1>2. PICK a \in Dword : a = address
  BY <1>1, AddressAs
<1>3. a \in Int /\ a >= 0 /\ a + 4 < WORD /\ a % 4 = 0
  BY <1>2, Widths DEF Dword
<1>4. \A v \in Nat : v < WORD => v % WORD = v
  BY Widths
<1>5. a % WORD = a /\ (a + 4) % WORD = a + 4
  <2>1. a \in Nat /\ a < WORD /\ a + 4 \in Nat
    BY <1>3, Widths
  <2>2. QED  BY <1>3, <1>4, <2>1
<1>6. Aligned(a) = a
  BY <1>3, <1>5 DEF Aligned
<1>7. Mapped(a) /\ Mapped(a + 4)
  <2>1. Described!InRegion(a, 8)
    BY <1>1, <1>2, AddressAs
  <2>2. a \in a .. (a + 8 - 1) /\ a + 4 \in a .. (a + 8 - 1)
    BY <1>3
  <2>3. QED  BY <1>3, <2>1, <2>2, InRegionMapped
<1>8. PICK lo \in Word : lo = mem_read_32(mem, a)
  BY <1>3, Machine, ReadType
<1>9. PICK hi \in Word : hi = mem_read_32(mem, a + 4)
  <2>1. a + 4 \in Int
    BY <1>3
  <2>2. QED  BY <2>1, Machine, ReadType
<1>10. Described!Load4(a) = lo /\ Described!Load4(a + 4) = hi
  <2>1. a + 4 \in Int
    BY <1>3
  <2>2. QED  BY <1>3, <1>7, <1>8, <1>9, <2>1, Machine, WordLoaded
<1>11. Described!Result = lo + (WORD * hi)
  <2>1. Described!Result = Described!Load8(a)
    BY <1>1, <1>2, ResultOf, AddressAs
  <2>2. QED  BY <1>10, <2>1, SameWords DEF Described!Load8
<1>12. (WORD * hi) + lo = lo + (WORD * hi)
  BY Widths DEF Word
<1>13. implement_LDUR
  BY <1>1, AddressAs, Dispatch
<1>14. Writes(instr.rd, (WORD * hi) + lo)
  <2>1. PICK base : Reads(instr.rn) = {base} /\ Address(base) = a
    BY <1>1, <1>2, AddressAs
  <2>2. QED  BY <1>5, <1>6, <1>8, <1>9, <1>13, <2>1 DEF implement_LDUR
<1>15. QED  BY <1>1, <1>11, <1>12, <1>14, AddressAs

\* The byte at an address is that of its word.
LEMMA ByteAt ==
  ASSUME NEW a \in Dword, a < WORD, Described!InRegion(a, 1)
  PROVE  /\ Mapped(Aligned(a)) /\ Aligned(a) \in Int /\ a % 4 \in 0 .. 3
         /\ Aligned(a) + (a % 4) = a
<1>1. a \in Nat
  BY Widths DEF Dword
<1>2. a % WORD = a
  BY <1>1, Widths
<1>3. Aligned(a) \in Int /\ a % 4 \in 0 .. 3 /\ Aligned(a) + (a % 4) = a
  BY <1>2, InWord
<1>4. a \in a .. (a + 1 - 1) /\ a \in Int
  BY <1>1
<1>5. Mapped(a - (a % 4))
  BY <1>4, InRegionMapped
<1>6. QED  BY <1>2, <1>3, <1>5 DEF Aligned

LEMMA LoadByteResult ==
  ASSUME Executing, Execute, op = "LDURB", ~StaleZero, Described!InRegion(Described!address, 1),
         ~Truncated
  PROVE  instr.rd = Rd(bytecode) /\ Writes(Rd(bytecode), Described!Result)
<1>1. op \in Transfers
  BY DEF Transfers
<1>2. PICK a \in Dword : a = address
  BY <1>1, AddressAs
<1>3. a < WORD /\ Described!InRegion(a, 1)
  BY <1>1, <1>2, AddressAs, Widths DEF Dword, Truncated
<1>4. PICK al \in Int : al = Aligned(a)
  BY <1>3, ByteAt
<1>5. PICK k \in 0 .. 3 : k = a % 4
  BY <1>3, ByteAt
<1>6. Mapped(al) /\ al + k = a
  BY <1>3, <1>4, <1>5, ByteAt
<1>7. ByteOf(mem_read_32(mem, al), k) = mem[al + k]
  <2>1. /\ mem[al] \in Byte /\ \A j \in 0 .. 3 : mem[al + j] \in Byte
        /\ mem_read_32(mem, al) =
             FourBytes(mem[al], mem[al + 1], mem[al + 2], mem[al + 3])
    BY <1>6, Machine, ReadBytes
  <2>2. PICK b0 \in Byte : b0 = mem[al]
    BY <2>1
  <2>3. PICK b1 \in Byte : b1 = mem[al + 1]
    BY <2>1
  <2>4. PICK b2 \in Byte : b2 = mem[al + 2]
    BY <2>1
  <2>5. PICK b3 \in Byte : b3 = mem[al + 3]
    BY <2>1
  <2>6. mem_read_32(mem, al) = FourBytes(b0, b1, b2, b3)
    BY <2>1, <2>2, <2>3, <2>4, <2>5
  <2>7. PICK w : w = FourBytes(b0, b1, b2, b3)
    OBVIOUS
  <2>8. /\ ByteOf(FourBytes(b0, b1, b2, b3), 0) = b0
        /\ ByteOf(FourBytes(b0, b1, b2, b3), 1) = b1
        /\ ByteOf(FourBytes(b0, b1, b2, b3), 2) = b2
        /\ ByteOf(FourBytes(b0, b1, b2, b3), 3) = b3
    BY BytesOfWord
  <2>9. ByteOf(w, 0) = b0 /\ ByteOf(w, 1) = b1 /\ ByteOf(w, 2) = b2 /\ ByteOf(w, 3) = b3
    BY <2>7, <2>8
  <2>10. ByteOf(w, k) = mem[al + k]
    <3>1. al + 0 = al
      OBVIOUS
    <3>2. QED  BY <2>2, <2>3, <2>4, <2>5, <2>9, <3>1
  <2>11. QED  BY <2>6, <2>7, <2>10
<1>8. Described!Result = mem[a]
  BY <1>1, <1>2, ResultOf, AddressAs DEF Described!Load1
<1>9. implement_LDURB
  BY <1>1, AddressAs, Dispatch
<1>10. Writes(instr.rd, ByteOf(mem_read_32(mem, al), k))
  <2>1. PICK base : Reads(instr.rn) = {base} /\ Address(base) = a
    BY <1>1, <1>2, AddressAs
  <2>2. QED  BY <1>4, <1>5, <1>9, <2>1 DEF implement_LDURB
<1>11. QED  BY <1>1, <1>6, <1>7, <1>8, <1>10, AddressAs

-----------------------------------------------------------------------------
\* The four parts of a step.

\* A documented instruction never faults.
LEMMA Latches ==
  ASSUME Executing, Execute, op # "undocumented"
  PROVE  stage' = "latch" /\ Architectural' = NEXT_STATE'
<1>1. PICK o \in OpNames \ {"undocumented"} : o = op
  BY EncodedBits
<1>2. PICK garbage \in Garbage : instr = decode_instruction(bytecode, garbage)
  BY DEF Executing
<1>3. \/ instr.name = HandlerOf(o)
      \/ instr.name \in {"ADDS_immediate", "CBZ", "CBNZ", "LSL_immediate", "LSR_immediate"}
  BY <1>1, <1>2, Machine, HandlerReached DEF op
<1>4. HandlerOf(o) \notin {"unset", "NULL"}
  BY <1>1, HandlerNames DEF OpNames
<1>5. stage' = "latch"
  BY <1>3, <1>4, Dispatch
<1>6. QED  BY <1>5 DEF Architectural

LEMMA SameClasses ==
  /\ Described!FlagOps = FlagForms
  /\ Described!RegisterOps = Computing \union {"LDUR", "LDURH", "LDURB"}
  /\ Described!Loads = {"LDUR", "LDURH", "LDURB"}
  /\ Described!Stores = {"STUR", "STURH", "STURB"}
<1>1. /\ Described!Loads = {"LDUR", "LDURH", "LDURB"}
      /\ Described!Stores = {"STUR", "STURH", "STURB"}
      /\ Described!FlagOps = FlagForms
  BY DEF Described!FlagOps, FlagForms, Described!Loads, Described!Stores
<1>2. \A o : o \in Described!RegisterOps <=> o \in Computing \union {"LDUR", "LDURH", "LDURB"}
  BY DEF Described!RegisterOps, Described!FlagOps, Described!Loads, Computing,
         RegisterForms, ImmediateForms
<1>3. QED  BY <1>1, <1>2

LEMMA FlagsPart ==
  ASSUME Executing, Execute, op # "undocumented", ~FlagsDeviate
  PROVE  Described!FlagsRight
<1>1. PICK o \in OpNames \ {"undocumented"} : o = op
  BY EncodedBits
<1>2. /\ ~StaleZero /\ ~ImmediateShifted /\ ~SwappedShift
      /\ o \notin {"MOVZ", "LSL"} /\ ~(op = "B" /\ imm26(bytecode) \notin 0 .. 63)
  BY <1>1 DEF FlagsDeviate
<1>3. NEXT_STATE \in CPU_State /\ Architectural = CURRENT_STATE /\ Described!op = op
  BY Machine
<1>4. Architectural' = NEXT_STATE'
  BY Latches
<1>5. CASE o \in FlagForms
  <2>1. o \in Computing /\ (op = "ORR" => Rm(bytecode) = 0)
    BY <1>1, <1>5 DEF FlagForms, Computing, RegisterForms, ImmediateForms
  <2>2. Delivers(Rd(bytecode), Described!Result)
    BY <1>1, <1>2, <2>1, Computes
  <2>3. Rd(bytecode) \in 0 .. (ARM_REGS - 1)
    BY Machine, RegisterFields
  <2>4. /\ NEXT_STATE'.FLAG_N = FlagN(Described!Result)
        /\ NEXT_STATE'.FLAG_Z = FlagZ(Described!Result)
    BY <1>1, <1>3, <1>5, <2>2, <2>3, DeliveredFields
  <2>5. op \in Described!FlagOps
    BY <1>1, <1>5, SameClasses
  <2>6. QED  BY <1>3, <1>4, <2>4, <2>5, SameWords DEF Described!FlagsRight
<1>6. CASE o \notin FlagForms
  <2>1. instr.name = HandlerOf(o)
    BY <1>1, <1>2, Reached
  <2>2. HandlerOf(o) \notin FlagSetters
    BY <1>1, <1>2, <1>6, HandlerNames DEF OpNames, FlagForms, FlagSetters
  <2>3. /\ NEXT_STATE'.FLAG_N = CURRENT_STATE.FLAG_N
        /\ NEXT_STATE'.FLAG_Z = CURRENT_STATE.FLAG_Z
    BY <2>1, <2>2, HandlerEffect, EffectFields, Preset DEF Executing
  <2>4. op \notin Described!FlagOps
    BY <1>1, <1>6, SameClasses
  <2>5. QED  BY <1>3, <1>4, <2>3, <2>4 DEF Described!FlagsRight
<1>7. QED  BY <1>5, <1>6

LEMMA RegistersPart ==
  ASSUME Executing, Execute, op # "undocumented", ~RegistersDeviate
  PROVE  Described!RegistersRight
<1>1. PICK o \in OpNames \ {"undocumented"} : o = op
  BY EncodedBits
<1>2. /\ ~StaleZero /\ ~ImmediateShifted /\ ~SwappedShift
      /\ o # "LDURH" /\ (op = "ORR" => Rm(bytecode) = 0)
      /\ ~(op = "B" /\ imm26(bytecode) \notin 0 .. 63)
  BY <1>1 DEF RegistersDeviate
<1>3. /\ NEXT_STATE \in CPU_State /\ Architectural = CURRENT_STATE
      /\ Described!op = op /\ Described!b = bytecode
  BY Machine
<1>4. Architectural' = NEXT_STATE' /\ stage' = "latch"
  BY Latches
<1>5. PICK rd \in 0 .. (ARM_REGS - 1) : rd = Rd(bytecode)
  BY Machine, RegisterFields
<1>6. Described!Rd(Described!b) = rd
  BY <1>3, <1>5, SameFields
<1>7. CASE o \in Computing
  <2>1. instr.rd = rd /\ Delivers(rd, Described!Result)
    BY <1>1, <1>2, <1>5, <1>7, Computes
  <2>2. rd # 31 => NEXT_STATE'.REGS[rd] = Described!Result
    BY <1>3, <2>1, DeliveredFields
  <2>3. /\ rd = 31 => XRegs' = XRegs
        /\ rd # 31 => XRegs' = [XRegs EXCEPT ![rd] = Described!Result]
    BY <1>4, <2>1, <2>2, RegistersAfter
  <2>4. op \in Described!RegisterOps /\ op \notin Described!Loads
    BY <1>1, <1>7, SameClasses DEF Computing, RegisterForms, ImmediateForms
  <2>5. QED  BY <1>3, <1>6, <2>3, <2>4 DEF Described!RegistersRight, XRegs
<1>8. CASE o \in {"LDUR", "LDURB"}
  <2>1. instr.rd = rd
    BY <1>1, <1>2, <1>5, <1>8, AddressAs DEF Transfers
  <2>2. /\ rd = 31 => XRegs' = XRegs
        /\ rd # 31 => XRegs' = [XRegs EXCEPT ![rd] = NEXT_STATE'.REGS[rd]]
    BY <1>4, <2>1, RegistersAfter
  <2>3. op \in Described!RegisterOps /\ op \in Described!Loads
    BY <1>1, <1>8, SameClasses
  <2>4. rd # 31 => XRegs'[rd] = NEXT_STATE'.REGS[rd]
    <3>1. rd # 31 => rd \in 0 .. 30
      BY DEF ARM_REGS
    <3>2. QED  BY <1>4, <3>1 DEF XRegs
  <2>5. CASE rd = 31 \/ ~Described!InRegion(Described!address, Described!Size)
    BY <1>3, <1>6, <2>2, <2>3, <2>4, <2>5 DEF Described!RegistersRight, XRegs
  <2>6. CASE rd # 31 /\ Described!InRegion(Described!address, Described!Size)
    <3>1. Described!Size = IF o = "LDUR" THEN 8 ELSE 1
      BY <1>1, <1>3, <1>8 DEF Described!Size
    <3>2. o = "LDUR" => address % 4 = 0 /\ ~(address + 4 >= WORD)
      BY <1>1 DEF RegistersDeviate
    <3>3. o = "LDURB" => ~Truncated
      BY <1>1 DEF RegistersDeviate
    <3>4. Writes(rd, Described!Result)
      BY <1>1, <1>2, <1>5, <1>8, <2>6, <3>1, <3>2, <3>3, LoadWordsResult, LoadByteResult
    <3>5. NEXT_STATE'.REGS[rd] = Described!Result
      BY <1>3, <3>4 DEF Writes, CPU_State
    <3>6. QED
      BY <1>3, <1>6, <2>2, <2>3, <2>6, <3>5 DEF Described!RegistersRight, XRegs
  <2>7. QED  BY <2>5, <2>6
<1>9. CASE o \notin Computing \union {"LDUR", "LDURB"}
  <2>1. instr.name = HandlerOf(o)
    BY <1>1, <1>2, Reached
  <2>2. instr.name \in Silent
    BY <1>1, <1>2, <1>9, <2>1, HandlerNames
       DEF OpNames, Computing, RegisterForms, ImmediateForms, Silent, Branching
  <2>3. NEXT_STATE'.REGS = CURRENT_STATE.REGS
    BY <1>3, <2>2, SilentKeepsRegisters, Preset
  <2>4. XRegs' = XRegs
    BY <1>3, <1>4, <2>3 DEF XRegs
  <2>5. op \notin Described!RegisterOps
    BY <1>1, <1>2, <1>9, SameClasses
  <2>6. QED  BY <1>3, <2>4, <2>5 DEF Described!RegistersRight, XRegs
<1>10. QED  BY <1>7, <1>8, <1>9

\* The conditions of B.cond, by number.
LEMMA ConditionsByNumber ==
  ASSUME Executing, op = "B.cond"
  PROVE  Condition(Rd(bytecode)) <=> Described!Holds(cond(bytecode))
<1>1. PICK c \in {0, 1, 10, 11, 12, 13} : c = bytecode.lo % 32
  <2>1. bytecode.lo % 32 \in {EQ, NE, GE, LT, GT, LE}
    BY EncodedCondition DEF op
  <2>2. QED  BY <2>1, SMT DEF EQ, NE, GE, LT, GT, LE
<1>2. PICK l \in Nat : l = bytecode.lo
  BY Machine, SMT DEF BytecodeOK
<1>3. l % 16 = c
  BY <1>1, <1>2
<1>4. Rd(bytecode) = c /\ cond(bytecode) = c
  BY <1>1, <1>2, <1>3 DEF Rd, cond
<1>5. PICK n \in {0, 1} : n = CURRENT_STATE.FLAG_N
  BY Machine DEF CPU_State, Flag
<1>6. PICK z \in {0, 1} : z = CURRENT_STATE.FLAG_Z
  BY Machine DEF CPU_State, Flag
<1>7. Architectural = CURRENT_STATE
  BY Machine
<1>8. Described!Holds(c) <=> \/ c = 0 /\ z = 1
                             \/ c = 1 /\ z = 0
                             \/ c = 10 /\ n = 0
                             \/ c = 11 /\ n = 1
                             \/ c = 12 /\ z = 0 /\ n = 0
                             \/ c = 13 /\ (z = 1 \/ n = 1)
  <2>1. /\ Described!EQ = 0 /\ Described!NE = 1 /\ Described!GE = 10
        /\ Described!LT = 11 /\ Described!GT = 12 /\ Described!LE = 13
    BY DEF Described!EQ, Described!NE, Described!GE, Described!LT, Described!GT, Described!LE
  <2>2. c = 0 => (Described!Holds(c) <=> z = 1)
    BY <1>6, <1>7, <2>1 DEF Described!Holds
  <2>3. c = 1 => (Described!Holds(c) <=> z = 0)
    BY <1>6, <1>7, <2>1 DEF Described!Holds
  <2>4. c = 10 => (Described!Holds(c) <=> n = 0)
    BY <1>5, <1>7, <2>1 DEF Described!Holds
  <2>5. c = 11 => (Described!Holds(c) <=> n = 1)
    BY <1>5, <1>7, <2>1 DEF Described!Holds
  <2>6. c = 12 => (Described!Holds(c) <=> z = 0 /\ n = 0)
    BY <1>5, <1>6, <1>7, <2>1 DEF Described!Holds
  <2>7. c = 13 => (Described!Holds(c) <=> z = 1 \/ n = 1)
    BY <1>5, <1>6, <1>7, <2>1 DEF Described!Holds
  <2>8. QED  BY <2>2, <2>3, <2>4, <2>5, <2>6, <2>7
<1>9. Condition(c) <=> \/ c = 0 /\ z = 1
                       \/ c = 1 /\ z = 0
                       \/ c = 10 /\ n = 0
                       \/ c = 11 /\ n = 1
                       \/ c = 12 /\ z = 0 /\ n = 0
                       \/ c = 13 /\ (z = 1 \/ n = 1)
  BY <1>5, <1>6 DEF Condition
<1>10. QED  BY <1>4, <1>8, <1>9

\* The target of a conditional branch whose sign is tested on the right field.
LEMMA ConditionalTarget ==
  ASSUME Executing, op \in Conditional, NEW signed \in Nat,
         SignBit(signed, Bit18) <=> imm19(bytecode) < 0
  PROVE  /\ Target(instr.cond_br_address, signed) = Trunc(CURRENT_STATE.PC + (4 * imm19(bytecode)))
         /\ Target(instr.cond_br_address, signed) % 4 = 0
<1>1. PICK br : br = ((bytecode.hi % 8) * 65536) + (bytecode.lo \div 32)
  OBVIOUS
<1>2. /\ SignExtended(br, Bit18, SignBit(br, Bit18)) = imm19(bytecode) /\ br \in Nat
      /\ imm19(bytecode) < 0 <=> SignBit(br, Bit18)
  BY <1>1, Machine, OffsetsByName
<1>3. instr.cond_br_address = br
  BY <1>1, Decoded DEF Conditional, SwappedShift
<1>4. SignExtended(br, Bit18, SignBit(signed, Bit18)) = imm19(bytecode)
  BY <1>2 DEF SignExtended
<1>5. Target(br, signed) = Trunc(CURRENT_STATE.PC + (4 * imm19(bytecode)))
  BY <1>4 DEF Target
<1>6. CURRENT_STATE \in CPU_State /\ CURRENT_STATE.PC % 4 = 0
  BY Machine DEF Executing, PCAligned
<1>7. Target(br, signed) % 4 = 0
  BY <1>2, <1>6, TargetType
<1>8. QED  BY <1>3, <1>5, <1>7

LEMMA OwnSign ==
  ASSUME Executing, op \in Conditional
  PROVE  /\ instr.cond_br_address \in Nat
         /\ SignBit(instr.cond_br_address, Bit18) <=> imm19(bytecode) < 0
<1>1. PICK br : br = ((bytecode.hi % 8) * 65536) + (bytecode.lo \div 32)
  OBVIOUS
<1>2. br \in Nat /\ (imm19(bytecode) < 0 <=> SignBit(br, Bit18))
  BY <1>1, Machine, OffsetsByName
<1>3. instr.cond_br_address = br
  BY <1>1, Decoded DEF Conditional, SwappedShift
<1>4. QED  BY <1>2, <1>3

\* A short forward branch.
LEMMA ShortTarget ==
  ASSUME Executing, imm26(bytecode) \in 0 .. 63,
         instr.br_address = bytecode.lo % 64
  PROVE  Target(instr.br_address, instr.br_address) =
           Trunc(CURRENT_STATE.PC + (4 * imm26(bytecode)))
<1>1. PICK h \in Nat : h = bytecode.hi
  BY Machine DEF BytecodeOK
<1>2. PICK l \in Nat : l = bytecode.lo
  BY Machine, SMT DEF BytecodeOK
<1>3. l < 2097152
  BY <1>2, Machine, SMT DEF BytecodeOK
<1>4. PICK d \in Nat : d = h % 32
  OBVIOUS
<1>5. PICK v \in Nat : v = (d * 2097152) + l
  BY <1>4, SMT
<1>6. d < 32 /\ v < 67108864
  BY <1>3, <1>4, <1>5, SMT
<1>7. imm26(bytecode) = Signed(v, 67108864)
  BY <1>1, <1>2, <1>4, <1>5, SMT DEF imm26
<1>8. imm26(bytecode) = v /\ v < 64
  BY <1>6, <1>7, SMT DEF Signed
<1>9. v = l
  BY <1>5, <1>8, SMT
<1>10. instr.br_address = v
  BY <1>2, <1>8, <1>9, SMT
<1>11. SignExtended(v, Bit18, SignBit(v, Bit18)) = v
  BY <1>8, SMT DEF SignExtended, SignBit, Bit18
<1>12. QED  BY <1>8, <1>10, <1>11 DEF Target

LEMMA PCPart ==
  ASSUME Executing, Execute, op # "undocumented", ~PCDeviates
  PROVE  Described!PCRight
<1>1. PICK o \in OpNames \ {"undocumented"} : o = op
  BY EncodedBits
<1>2. ~(op = "B" /\ imm26(bytecode) \notin 0 .. 63)
  BY DEF PCDeviates
<1>3. /\ NEXT_STATE \in CPU_State /\ CURRENT_STATE \in CPU_State
      /\ Architectural = CURRENT_STATE
      /\ Described!op = o /\ Described!b = bytecode /\ instr \in Instruction
  BY <1>1, Machine
<1>4. Architectural' = NEXT_STATE'
  BY Latches
<1>5. /\ NEXT_STATE.PC = Trunc(CURRENT_STATE.PC + 4)
      /\ \A v : Described!Trunc(v) = Trunc(v)
      /\ Described!imm19(bytecode) = imm19(bytecode)
      /\ Described!imm26(bytecode) = imm26(bytecode)
      /\ Described!Rn(bytecode) = Rn(bytecode) /\ Described!Rd(bytecode) = Rd(bytecode)
      /\ Described!cond(bytecode) = cond(bytecode)
  BY Preset, SameWords, SameFields
<1>6. \A a : Branches(a) => NEXT_STATE'.PC = a
  BY <1>3 DEF Branches, CPU_State
<1>7. o \in Branching \union {"B.cond"} => instr.name = HandlerOf(o)
  BY <1>1, <1>2, Reached DEF SwappedShift, Branching
<1>8. o \notin Conditional => ~Described!Taken
  BY <1>3 DEF Described!Taken, Conditional
<1>9. CASE o = "B"
  <2>1. implement_B
    BY <1>7, <1>9, HandlerNames, Dispatch DEF Branching
  <2>2. instr.br_address = bytecode.lo % 64
    BY <1>7, <1>9, HandlerNames, InstrFields DEF Branching, OfType
  <2>3. NEXT_STATE'.PC = Trunc(CURRENT_STATE.PC + (4 * imm26(bytecode)))
    BY <1>1, <1>2, <1>6, <1>9, <2>1, <2>2, ShortTarget DEF implement_B
  <2>4. ~Described!Taken
    BY <1>8, <1>9 DEF Conditional
  <2>5. QED  BY <1>3, <1>4, <1>5, <1>9, <2>3, <2>4 DEF Described!PCRight
<1>10. CASE o = "BR"
  <2>1. implement_BR
    BY <1>7, <1>10, HandlerNames, Dispatch DEF Branching
  <2>2. ~StaleZero /\ CURRENT_STATE.REGS[Rn(bytecode)] % 4 = 0
    BY <1>1, <1>10 DEF PCDeviates
  <2>3. Rn(bytecode) \in SourceRegisters /\ instr.rn = Rn(bytecode)
    BY <1>1, <1>10, Sources, Decoded DEF SwappedShift
  <2>4. PICK x : x = Described!X(Rn(bytecode))
    OBVIOUS
  <2>5. Reads(instr.rn) = {x} /\ x % 4 = 0
    BY <2>2, <2>3, <2>4, Operand
  <2>6. NEXT_STATE'.PC = x
    BY <1>6, <2>1, <2>5 DEF implement_BR
  <2>7. ~Described!Taken
    BY <1>8, <1>10 DEF Conditional
  <2>8. QED  BY <1>3, <1>4, <1>5, <1>10, <2>4, <2>6, <2>7 DEF Described!PCRight
<1>11. CASE o = "B.cond"
  <2>1. implement_BCOND
    BY <1>7, <1>11, HandlerNames, Dispatch
  <2>2. instr.rt = Rd(bytecode) /\ instr.cond_br_address \in Nat
    BY <1>1, <1>3, <1>11, Decoded DEF Conditional, SwappedShift, Instruction
  <2>3. Condition(instr.rt) <=> Described!Taken
    BY <1>1, <1>3, <1>5, <1>11, <2>2, ConditionsByNumber DEF Described!Taken
  <2>4. Target(instr.cond_br_address, instr.cond_br_address) =
          Trunc(CURRENT_STATE.PC + (4 * imm19(bytecode)))
    BY <1>1, <1>11, OwnSign, ConditionalTarget DEF Conditional
  <2>5. NEXT_STATE'.PC = IF Described!Taken
                         THEN Trunc(CURRENT_STATE.PC + (4 * imm19(bytecode)))
                         ELSE Trunc(CURRENT_STATE.PC + 4)
    BY <1>5, <1>6, <2>1, <2>3, <2>4 DEF implement_BCOND, FallsThrough
  <2>6. QED  BY <1>3, <1>4, <1>5, <1>11, <2>5 DEF Described!PCRight
<1>12. CASE o \in {"CBZ", "CBNZ"}
  <2>1. ~StaleZero /\ Rd(bytecode) \in SourceRegisters
    BY <1>1, <1>12, Sources DEF PCDeviates
  <2>2. instr.rt = Rd(bytecode) /\ instr.cond_br_address \in Nat /\ instr.br_address \in Nat
    BY <1>1, <1>3, <1>12, Decoded DEF Conditional, SwappedShift, Instruction
  <2>3. PICK x : x = Described!X(Rd(bytecode))
    OBVIOUS
  <2>4. Reads(instr.rt) = {x}
    BY <2>1, <2>2, <2>3, Operand
  <2>5. Described!Taken <=> IF o = "CBZ" THEN x = 0 ELSE x # 0
    BY <1>3, <1>5, <1>12, <2>3 DEF Described!Taken
  <2>6. PICK target : target = Trunc(CURRENT_STATE.PC + (4 * imm19(bytecode)))
    OBVIOUS
  <2>7. NEXT_STATE'.PC = IF Described!Taken THEN target ELSE Trunc(CURRENT_STATE.PC + 4)
    <3>1. CASE o = "CBZ"
      <4>1. implement_CBZ
        BY <1>7, <3>1, HandlerNames, Dispatch DEF Branching
      <4>2. /\ Target(instr.cond_br_address, instr.cond_br_address) = target
            /\ target % 4 = 0
        BY <1>1, <3>1, <2>6, OwnSign, ConditionalTarget DEF Conditional
      <4>3. BranchesIf(x = 0, target)
        BY <2>4, <4>1, <4>2 DEF implement_CBZ
      <4>4. QED  BY <1>6, <2>5, <3>1, <4>2, <4>3 DEF BranchesIf
    <3>2. CASE o = "CBNZ"
      <4>1. implement_CBNZ
        BY <1>7, <3>2, HandlerNames, Dispatch DEF Branching
      <4>2. SignBit(instr.br_address, Bit18) <=> imm19(bytecode) < 0
        BY <1>1, <3>2 DEF PCDeviates, SignBit
      <4>3. /\ Target(instr.cond_br_address, instr.br_address) = target
            /\ target % 4 = 0
        BY <1>1, <3>2, <2>2, <2>6, <4>2, ConditionalTarget DEF Conditional
      <4>4. BranchesIf(x # 0, target)
        BY <2>4, <4>1, <4>3 DEF implement_CBNZ
      <4>5. QED  BY <1>6, <2>5, <3>2, <4>3, <4>4 DEF BranchesIf
    <3>3. QED  BY <1>12, <3>1, <3>2
  <2>8. QED  BY <1>3, <1>4, <1>5, <1>12, <2>6, <2>7 DEF Described!PCRight
<1>13. CASE o \notin {"B", "BR", "B.cond", "CBZ", "CBNZ"}
  <2>1. PICK garbage \in Garbage : instr = decode_instruction(bytecode, garbage)
    BY DEF Executing
  <2>2. instr.name = HandlerOf(o) \/ instr.name \in {"LSL_immediate", "LSR_immediate"}
    BY <1>1, <1>13, <2>1, Machine, HandlerReached DEF op
  <2>3. HandlerOf(o) \notin Branching
    BY <1>13, HandlerNames DEF OpNames, Branching
  <2>4. instr.name \notin Branching
    BY <2>2, <2>3 DEF Branching
  <2>5. NEXT_STATE'.PC = Trunc(CURRENT_STATE.PC + 4)
    BY <1>3, <1>5, <2>4, OnlyBranchesJump
  <2>6. ~Described!Taken
    BY <1>8, <1>13 DEF Conditional
  <2>7. QED  BY <1>3, <1>4, <1>5, <1>13, <2>5, <2>6 DEF Described!PCRight
<1>14. QED  BY <1>9, <1>10, <1>11, <1>12, <1>13

\* The two low bytes of a value.
LEMMA LowHalf ==
  ASSUME NEW v \in Dword
  PROVE  /\ v % BYTE \in Byte /\ (v \div BYTE) % BYTE \in Byte
         /\ v % HALF = (v % BYTE) + (BYTE * ((v \div BYTE) % BYTE))
<1>1. v \in Int /\ BYTE \in Nat \ {0} /\ HALF \in Nat \ {0}
  BY Widths DEF Dword
<1>2. PICK q \in Int : q = v \div BYTE
  BY <1>1, DivMod
<1>3. PICK lo \in Byte : lo = v % BYTE
  BY <1>1, DivMod DEF Byte
<1>4. PICK hi \in Byte : hi = q % BYTE
  BY <1>1, DivMod DEF Byte
<1>5. PICK p \in Int : p = q \div BYTE
  BY <1>1, DivMod
<1>6. v = (BYTE * q) + lo /\ q = (BYTE * p) + hi
  BY <1>1, <1>2, <1>3, <1>4, <1>5, DivMod
<1>7. PICK r \in 0 .. (HALF - 1) : r = lo + (BYTE * hi)
  BY TwoBytes
<1>8. v = (HALF * p) + r
  <2>1. \A m, x, y, z \in Int : (m * ((m * x) + y)) + z = ((m * m) * x) + (z + (m * y))
    OBVIOUS
  <2>2. lo \in Int /\ hi \in Int /\ BYTE \in Int
    BY <1>1 DEF Byte
  <2>3. QED  BY <1>6, <1>7, <2>1, <2>2 DEF HALF
<1>9. v % HALF = r
  BY <1>1, <1>8, DivModUnique
<1>10. QED  BY <1>2, <1>3, <1>4, <1>7, <1>9

LEMMA StoreByteResult ==
  ASSUME Executing, Execute, op = "STURB", ~StaleZero, Described!InRegion(Described!address, 1),
         ~Truncated
  PROVE  mem' = Described!Stored(Described!address, 1, Described!X(Rd(bytecode)))
<1>1. op \in Transfers
  BY DEF Transfers
<1>2. PICK a \in Dword : a = address
  BY <1>1, AddressAs
<1>3. a < WORD /\ Described!InRegion(a, 1) /\ a \in Int
  BY <1>1, <1>2, AddressAs, Widths DEF Dword, Truncated
<1>4. PICK al \in Int : al = Aligned(a)
  BY <1>3, ByteAt
<1>5. PICK k \in 0 .. 3 : k = a % 4
  BY <1>3, ByteAt
<1>6. Mapped(al) /\ al + k = a
  BY <1>3, <1>4, <1>5, ByteAt
<1>7. PICK value \in Dword : value = Described!X(Rd(bytecode)) /\ Reads(instr.rd) = {value}
  BY <1>1, Sources, Operand, AddressAs
<1>8. PICK v \in Byte : v = value % BYTE
  BY LowHalf
<1>9. implement_STURB
  BY <1>1, AddressAs, Dispatch
<1>10. mem' = mem_write_32(mem, al, ReplaceByte(mem_read_32(mem, al), k, v))
  <2>1. PICK base : Reads(instr.rn) = {base} /\ Address(base) = a
    BY <1>1, <1>2, AddressAs
  <2>2. QED  BY <1>4, <1>5, <1>7, <1>8, <1>9, <2>1 DEF implement_STURB
<1>11. \A x \in Backed : mem'[x] = IF x = a THEN v ELSE mem[x]
  <2>1. mem \in [Backed -> Byte] /\ Mapped(al)
    BY <1>6, Machine
  <2>2. ASSUME NEW x \in Backed
        PROVE  mem_write_32(mem, al, ReplaceByte(mem_read_32(mem, al), k, v))[x] =
                 IF x = a THEN v ELSE mem[x]
    BY <1>6, <2>1, StoredByte, SMTT(40)
  <2>3. QED  BY <1>10, <2>2
<1>12. ASSUME NEW x \in Backed
       PROVE  mem'[x] = IF x \in a .. (a + 1 - 1) THEN (value \div (BYTE ^ (x - a))) % BYTE
                        ELSE mem[x]
  <2>1. x \in Int
    BY BackedType
  <2>2. CASE x = a
    <3>1. x - a = 0 /\ x \in a .. (a + 1 - 1)
      BY <1>3, <2>2
    <3>2. value \div 1 = value
      <4>1. value \in Int
        BY Widths DEF Dword
      <4>2. QED  BY <4>1, SMT
    <3>3. (value \div (BYTE ^ (x - a))) % BYTE = v
      BY <1>8, <3>1, <3>2, PowerAssumption
    <3>4. mem'[x] = v
      BY <1>11, <2>2
    <3>5. QED  BY <3>1, <3>3, <3>4
  <2>3. CASE x # a
    <3>1. x \notin a .. (a + 1 - 1)
      BY <1>3, <2>1, <2>3
    <3>2. QED  BY <1>11, <2>3, <3>1
  <2>4. QED  BY <2>2, <2>3
<1>13. mem' = [x \in Backed |-> IF x \in a .. (a + 1 - 1)
                                THEN (value \div (BYTE ^ (x - a))) % BYTE ELSE mem[x]]
  <2>1. mem' = [x \in Backed |-> mem'[x]]
    BY <1>6, <1>10, Machine DEF mem_write_32
  <2>2. QED  BY <1>12, <2>1
<1>14. Described!address = a /\ Described!Backed = Backed
  BY <1>1, <1>2, AddressAs, SameMemory
<1>15. QED  BY <1>7, <1>13, <1>14 DEF Described!Stored

LEMMA StoreHalfResult ==
  ASSUME Executing, Execute, op = "STURH", ~StaleZero, Described!InRegion(Described!address, 2),
         ~Truncated, address % 2 = 0
  PROVE  mem' = Described!Stored(Described!address, 2, Described!X(Rd(bytecode)))
<1>1. op \in Transfers
  BY DEF Transfers
<1>2. PICK a \in Dword : a = address
  BY <1>1, AddressAs
<1>3. a < WORD /\ a % 2 = 0 /\ Described!InRegion(a, 2) /\ a \in Int
  BY <1>1, <1>2, AddressAs, Widths DEF Dword, Truncated
<1>4. PICK al \in Int : al = Aligned(a)
  BY InWord
<1>5. PICK k \in {0, 1} : k = (a \div 2) % 2
  BY InWord
<1>6. a % WORD = a
  BY <1>3, Widths DEF Dword
<1>7. a = al + (2 * k)
  BY <1>3, <1>4, <1>5, <1>6, InWord
<1>8. Mapped(al)
  <2>1. a \in a .. (a + 2 - 1)
    BY <1>3
  <2>2. Mapped(a - (a % 4))
    BY <1>3, <2>1, InRegionMapped
  <2>3. QED  BY <1>4, <1>6, <2>2 DEF Aligned
<1>9. PICK value \in Dword : value = Described!X(Rd(bytecode)) /\ Reads(instr.rd) = {value}
  BY <1>1, Sources, Operand, AddressAs
<1>10. PICK lo \in Byte : lo = value % BYTE
  BY LowHalf
<1>11. PICK hi \in Byte : hi = (value \div BYTE) % BYTE
  BY LowHalf
<1>12. PICK v : v = value % HALF /\ v = lo + (BYTE * hi)
  BY <1>10, <1>11, LowHalf
<1>13. implement_STURH
  BY <1>1, AddressAs, Dispatch
<1>14. mem' = mem_write_32(mem, al, ReplaceHalf(mem_read_32(mem, al), k, v))
  <2>1. PICK base : Reads(instr.rn) = {base} /\ Address(base) = a
    BY <1>1, <1>2, AddressAs
  <2>2. QED  BY <1>4, <1>5, <1>9, <1>12, <1>13, <2>1 DEF implement_STURH
<1>15. \A x \in Backed : mem'[x] = IF x = a THEN lo ELSE IF x = a + 1 THEN hi ELSE mem[x]
  <2>1. mem \in [Backed -> Byte]
    BY Machine
  <2>2. v = lo + (BYTE * hi)
    BY <1>12
  <2>3. \A x \in Backed :
          mem_write_32(mem, al, ReplaceHalf(mem_read_32(mem, al), k, v))[x] =
            IF x = a THEN lo ELSE IF x = a + 1 THEN hi ELSE mem[x]
    BY <1>7, <1>8, <2>1, <2>2, StoredHalf, SMTT(60)
  <2>4. QED  BY <1>14, <2>3
<1>16. ASSUME NEW x \in Backed
       PROVE  mem'[x] = IF x \in a .. (a + 2 - 1) THEN (value \div (BYTE ^ (x - a))) % BYTE
                        ELSE mem[x]
  <2>1. x \in Int
    BY BackedType
  <2>2. CASE x = a
    <3>1. x - a = 0 /\ x \in a .. (a + 2 - 1)
      BY <1>3, <2>2
    <3>2. value \div 1 = value
      <4>1. value \in Int
        BY Widths DEF Dword
      <4>2. QED  BY <4>1, SMT
    <3>3. (value \div (BYTE ^ (x - a))) % BYTE = lo
      BY <1>10, <3>1, <3>2, PowerAssumption
    <3>4. QED  BY <1>15, <2>2, <3>1, <3>3
  <2>3. CASE x = a + 1
    <3>1. x - a = 1 /\ x \in a .. (a + 2 - 1) /\ x # a
      BY <1>3, <2>3
    <3>2. (value \div (BYTE ^ (x - a))) % BYTE = hi
      BY <1>11, <3>1, PowerAssumption
    <3>3. QED  BY <1>15, <2>3, <3>1, <3>2
  <2>4. CASE x # a /\ x # a + 1
    <3>1. x \notin a .. (a + 2 - 1)
      BY <1>3, <2>1, <2>4
    <3>2. QED  BY <1>15, <2>4, <3>1
  <2>5. QED  BY <2>2, <2>3, <2>4
<1>17. mem' = [x \in Backed |-> IF x \in a .. (a + 2 - 1)
                                THEN (value \div (BYTE ^ (x - a))) % BYTE ELSE mem[x]]
  <2>1. mem' = [x \in Backed |-> mem'[x]]
    BY <1>14, <1>8, Machine DEF mem_write_32
  <2>2. QED  BY <1>16, <2>1
<1>18. Described!address = a /\ Described!Backed = Backed
  BY <1>1, <1>2, AddressAs, SameMemory
<1>19. QED  BY <1>9, <1>17, <1>18 DEF Described!Stored

LEMMA MemoryPart ==
  ASSUME Executing, Execute, op # "undocumented", ~MemoryDeviates
  PROVE  Described!MemoryRight
<1>1. PICK o \in OpNames \ {"undocumented"} : o = op
  BY EncodedBits
<1>2. ~StaleZero /\ o # "STUR"
  BY <1>1 DEF MemoryDeviates
<1>3. Described!op = o /\ Described!b = bytecode /\ Described!Rd(bytecode) = Rd(bytecode)
  BY <1>1, Machine, SameFields
<1>4. CASE o \notin Described!Stores
  <2>1. PICK garbage \in Garbage : instr = decode_instruction(bytecode, garbage)
    BY DEF Executing
  <2>2. \/ instr.name = HandlerOf(o)
        \/ instr.name \in {"ADDS_immediate", "CBZ", "CBNZ", "LSL_immediate", "LSR_immediate"}
    BY <1>1, <2>1, Machine, HandlerReached DEF op
  <2>3. HandlerOf(o) \notin {"STUR", "STURB", "STURH"}
    BY <1>1, <1>2, <1>4, SameClasses, HandlerNames DEF OpNames
  <2>4. /\ implement_STUR => instr.name = "STUR"
        /\ implement_STURB => instr.name = "STURB"
        /\ implement_STURH => instr.name = "STURH"
    BY DEF implement_STUR, implement_STURB, implement_STURH, Runs
  <2>5. mem' = mem
    BY <2>2, <2>3, <2>4, NoStore
  <2>6. QED  BY <1>3, <1>4, <2>5 DEF Described!MemoryRight
<1>5. CASE o \in Described!Stores
  <2>1. o \in {"STURB", "STURH"}
    BY <1>2, <1>5, SameClasses
  <2>2. Described!Size = IF o = "STURH" THEN 2 ELSE 1
    BY <1>3, <2>1 DEF Described!Size
  <2>3. o = "STURB" => ~Truncated
    BY <1>1 DEF MemoryDeviates
  <2>4. o = "STURH" => ~Truncated /\ address % 2 = 0
    BY <1>1 DEF MemoryDeviates
  <2>5. Described!InRegion(Described!address, Described!Size) =>
          mem' = Described!Stored(Described!address, Described!Size, Described!X(Rd(bytecode)))
    BY <1>1, <1>2, <2>1, <2>2, <2>3, <2>4, StoreByteResult, StoreHalfResult
  <2>6. QED  BY <1>3, <1>5, <2>5 DEF Described!MemoryRight
<1>6. QED  BY <1>4, <1>5

-----------------------------------------------------------------------------
\* No other handler touches RUN_BIT.
LEMMA NoHalt ==
  ASSUME Execute, ~implement_HLT
  PROVE  RUN_BIT' = RUN_BIT
<1>1. implement_ADDS_immediate \/ implement_ADDS_extended_register
      \/ implement_SUBS_immediate \/ implement_SUBS_extended_register
      \/ implement_ANDS_shifted_register \/ implement_EOR_shifted_register
      \/ implement_ORR_shifted_register => RUN_BIT' = RUN_BIT
  BY DEF OnlyNextState, implement_ADDS_immediate, implement_ADDS_extended_register,
         implement_SUBS_immediate, implement_SUBS_extended_register,
         implement_ANDS_shifted_register, implement_EOR_shifted_register,
         implement_ORR_shifted_register
<1>2. implement_MOVZ \/ implement_LSL_immediate \/ implement_LSR_immediate
      \/ implement_ADD_immediate \/ implement_ADD_extended_register \/ implement_MUL
        => RUN_BIT' = RUN_BIT
  BY DEF OnlyNextState, implement_MOVZ, implement_LSL_immediate, implement_LSR_immediate,
         implement_ADD_immediate, implement_ADD_extended_register, implement_MUL
<1>3. implement_STUR \/ implement_STURB \/ implement_STURH
      \/ implement_LDUR \/ implement_LDURB \/ implement_LDURH => RUN_BIT' = RUN_BIT
  BY DEF OnlyNextState, OnlyMemory, implement_STUR, implement_STURB, implement_STURH,
         implement_LDUR, implement_LDURB, implement_LDURH
<1>4. implement_BCOND \/ implement_CBZ \/ implement_CBNZ \/ implement_B \/ implement_BR
      \/ Unknown \/ WildAccess \/ NullName => RUN_BIT' = RUN_BIT
  BY DEF OnlyNextState, implement_BCOND, implement_CBZ, implement_CBNZ, implement_B,
         implement_BR, Unknown, WildAccess, NullName
<1>5. QED  BY <1>1, <1>2, <1>3, <1>4 DEF Execute

\* Only HLT stops the machine.
LEMMA OnlyHLTStops ==
  ASSUME Executing, Execute, op # "undocumented"
  PROVE  RUN_BIT' = IF op = "HLT" THEN 0 ELSE RUN_BIT
<1>1. PICK o \in OpNames \ {"undocumented"} : o = op
  BY EncodedBits
<1>2. CASE o = "HLT"
  <2>1. instr.name = "HLT"
    BY <1>1, <1>2, Reached, HandlerNames DEF SwappedShift
  <2>2. QED  BY <1>1, <1>2, <2>1, Dispatch DEF implement_HLT
<1>3. CASE o # "HLT"
  <2>1. PICK garbage \in Garbage : instr = decode_instruction(bytecode, garbage)
    BY DEF Executing
  <2>2. \/ instr.name = HandlerOf(o)
        \/ instr.name \in {"ADDS_immediate", "CBZ", "CBNZ", "LSL_immediate", "LSR_immediate"}
    BY <1>1, <2>1, Machine, HandlerReached DEF op
  <2>3. HandlerOf(o) # "HLT"
    BY <1>1, <1>3, HandlerNames DEF OpNames
  <2>4. ~implement_HLT
    BY <2>2, <2>3 DEF implement_HLT, Runs
  <2>5. QED  BY <1>1, <1>3, <2>4, NoHalt
<1>4. QED  BY <1>2, <1>3

\* A cycle is a step of the described machine; an undocumented bytecode, which
\* alone may fault, is one it says nothing of.
LEMMA CycleStep ==
  ASSUME IInv, Fetched, Process
  PROVE  Described!Step
<1>1. Executing /\ Execute
  BY ExecuteState DEF Process
<1>2. command \notin {"prompt", "exited"} /\ command' = command
  BY <1>1 DEF Executing, BetweenCycles, Process, shellVars
<1>3. RUN_BIT = 1 /\ stage = "execute"
  BY <1>1 DEF Executing
<1>4. Described!op = op
  BY <1>1, Machine
<1>5. /\ PCDeviates => "pc" \in Deviations
      /\ RegistersDeviate => "registers" \in Deviations
      /\ FlagsDeviate => "flags" \in Deviations
      /\ MemoryDeviates => "memory" \in Deviations
  BY <1>3 DEF Deviations
<1>6. ASSUME op # "undocumented"
      PROVE  /\ RUN_BIT' = IF op = "HLT" THEN 0 ELSE RUN_BIT
             /\ Described!PCRight \/ "pc" \in Deviations
             /\ Described!RegistersRight \/ "registers" \in Deviations
             /\ Described!FlagsRight \/ "flags" \in Deviations
             /\ Described!MemoryRight \/ "memory" \in Deviations
  BY <1>1, <1>5, <1>6, OnlyHLTStops, PCPart, RegistersPart, FlagsPart, MemoryPart
<1>7. QED  BY <1>2, <1>3, <1>4, <1>6 DEF Described!Step

LEMMA ConformsStep ==
  ASSUME IInv, Fetched, [Next]_vars
  PROVE  Described!Next \/ UNCHANGED Described!vars
<1>1. ASSUME UNCHANGED vars PROVE UNCHANGED Described!vars
  BY <1>1 DEF vars, simVars, shellVars, Architectural, Described!vars
<1>2. ASSUME Process PROVE Described!Next \/ UNCHANGED Described!vars
  BY <1>2, CycleStep DEF Described!Next
<1>3. TypeOK /\ BetweenCycles /\ DoubleBuffer
  BY DEF IInv
<1>4. QED  BY <1>1, <1>2, <1>3, ShellStep DEF Next, Work

\* Apart from the listed deviations the simulator executes every documented
\* instruction as the assignment describes it.
THEOREM Conforms == Spec => ConformsButFor
<1>1. IInv /\ Fetched /\ [Next]_vars => [Described!Next]_(Described!vars)
  BY ConformsStep
<1>2. QED  BY <1>1, RefinedInit, FetchInvariance, PTL DEF Spec, ConformsButFor, Described!Spec

-----------------------------------------------------------------------------
\* Sessions.

\* While a session runs, the instruction in progress is the one at PC.
SessionFetched == process = "running" => Fetched

LEMMA SessionFetchedStep ==
  ASSUME SessionInv, StartInv, OverlayInv, OverlayInv', SessionFetched, [MainNext]_allVars
  PROVE  SessionFetched'
<1>1. CASE UNCHANGED allVars
  BY <1>1 DEF allVars, loaderVars, vars, simVars, SessionFetched, Fetched
<1>2. CASE MainNext /\ process = "running"
  <2>1. [Next]_vars /\ TypeOK /\ BetweenCycles
    BY <1>2, RunningStep DEF SessionInv, IInv
  <2>2. Fetched'
    BY <1>2, <2>1, FetchedStep DEF SessionFetched
  <2>3. QED  BY <2>2 DEF SessionFetched
<1>3. CASE MainNext /\ process # "running" /\ process' = "running"
  <2>1. stage' = "idle"
    BY <1>3, PromptState
  <2>2. QED  BY <2>1 DEF SessionFetched, Fetched
<1>4. QED  BY <1>1, <1>2, <1>3 DEF SessionFetched

LEMMA PromptDescribed ==
  ASSUME SessionInv, StartInv, OverlayInv, OverlayInv', MainNext,
         process # "running", process' = "running"
  PROVE  Described!Init'
<1>1. Architectural' = Reset /\ RUN_BIT' = 1 /\ command' = "prompt"
  BY PromptState DEF Architectural
<1>2. /\ Reset.PC = TEXT.start /\ Reset.FLAG_N = 0 /\ Reset.FLAG_Z = 0
      /\ \A k \in 0 .. 30 : Reset.REGS[k] = 0
  BY DEF Reset, ARM_REGS
<1>3. [k \in 0 .. 30 |-> Architectural'.REGS[k]] = [k \in 0 .. 30 |-> 0]
  BY <1>1, <1>2
<1>4. QED  BY <1>1, <1>2, <1>3 DEF Described!Init, Described!TEXT, TEXT

\* What is loaded, typed, dumped, interrupted and started again makes no
\* difference: every session's machine is the one the assignment describes.
THEOREM EverySessionConforms == MainSpec => SessionsConform
<1>1. ASSUME SessionInv, StartInv, OverlayInv, OverlayInv', SessionFetched, MainNext
      PROVE  /\ process # "running" /\ process' = "running" => Described!Init'
             /\ process = "running" => Described!Next \/ UNCHANGED Described!vars
  <2>1. ASSUME process = "running" PROVE Described!Next \/ UNCHANGED Described!vars
    <3>1. [Next]_vars /\ IInv /\ Fetched
      BY <1>1, <2>1, RunningStep DEF SessionInv, SessionFetched
    <3>2. QED  BY <3>1, ConformsStep
  <2>2. QED  BY <1>1, <2>1, PromptDescribed
<1>2. SessionInv /\ StartInv /\ OverlayInv /\ OverlayInv' /\ SessionFetched /\ [MainNext]_allVars
        => /\ SessionFetched'
           /\ [/\ process # "running" /\ process' = "running" => Described!Init'
               /\ process = "running" => Described!Next \/ UNCHANGED Described!vars]_allVars
  BY <1>1, SessionFetchedStep
<1>3. MainInit => SessionFetched
  BY DEF MainInit, LoaderInit, SessionFetched
<1>4. QED  BY <1>2, <1>3, OverlayInvariant, PTL DEF MainSpec, SessionsConform
=============================================================================
