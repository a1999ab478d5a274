----------------------------- MODULE Conformance -----------------------------
(***************************************************************************)
(* The simulator against the machine of ISA.  An instruction takes place     *)
(* when its handler runs: from then to the latch the architectural state is  *)
(* NEXT_STATE, otherwise CURRENT_STATE.  A cycle that faults takes no step.  *)
(***************************************************************************)
EXTENDS Shell, Armv8

Architectural == IF stage = "latch" THEN NEXT_STATE ELSE CURRENT_STATE

bytecode == Bytecode[mem_read_32(mem, CURRENT_STATE.PC)]
op       == Op(bytecode)
address  == Address(CURRENT_STATE.REGS[Rn(bytecode)])

-----------------------------------------------------------------------------
\* Everything in which an instruction may fail its description.

\* The registers an instruction reads, as the description numbers them.
SourceRegisters ==
  CASE op \in {"ADDS_register", "SUBS_register", "ADD_register", "ANDS", "EOR", "ORR", "MUL"}
         -> {Rn(bytecode), Rm(bytecode)}
    [] op \in {"ADDS_immediate", "SUBS_immediate", "ADD_immediate", "LSL", "LSR", "BR",
               "LDUR", "LDURH", "LDURB"} -> {Rn(bytecode)}
    [] op \in {"STUR", "STURH", "STURB"} -> {Rn(bytecode), Rd(bytecode)}
    [] op \in {"CBZ", "CBNZ"} -> {Rd(bytecode)}
    [] OTHER -> {}

\* REGS[31] is written like any other register, and read back.
StaleZero == 31 \in SourceRegisters /\ CURRENT_STATE.REGS[31] # 0

ImmediateShifted ==
  op \in {"ADDS_immediate", "SUBS_immediate", "ADD_immediate"} /\ sh(bytecode) = 1

\* LSL by 33 to 63 and LSR by 32 to 63 run each other's handler.
SwappedShift == \/ op = "LSL" /\ immr(bytecode) < 32
                \/ op = "LSR" /\ immr(bytecode) >= 32

\* Handlers that keep 32 bits of the address.
Truncated == address >= WORD

PCDeviates ==
  \/ StaleZero /\ op \in {"BR", "CBZ", "CBNZ"}
  \/ op = "B" /\ imm26(bytecode) \notin 0 .. 63
  \/ op = "BR" /\ CURRENT_STATE.REGS[Rn(bytecode)] % 4 # 0
  \/ op = "CBNZ" /\ SignBit(instr.br_address, Bit18) # (imm19(bytecode) < 0)

RegistersDeviate ==
  \/ StaleZero \/ ImmediateShifted \/ SwappedShift
  \/ op = "ORR" /\ Rm(bytecode) # 0
  \/ op = "LDURH"
  \/ op = "LDUR" /\ (address % 4 # 0 \/ address + 4 >= WORD)
  \/ op = "LDURB" /\ Truncated
  \/ op = "B" /\ imm26(bytecode) \notin 0 .. 63

FlagsDeviate ==
  \/ StaleZero \/ ImmediateShifted \/ SwappedShift
  \/ op \in {"MOVZ", "LSL"}
  \/ op = "B" /\ imm26(bytecode) \notin 0 .. 63

MemoryDeviates ==
  \/ StaleZero
  \/ op = "STUR"
  \/ op = "STURB" /\ Truncated
  \/ op = "STURH" /\ (Truncated \/ address % 2 # 0)

Deviations ==
  {part \in (IF stage = "execute" THEN {"pc", "registers", "flags", "memory"} ELSE {}) :
     CASE part = "pc"        -> PCDeviates
       [] part = "registers" -> RegistersDeviate
       [] part = "flags"     -> FlagsDeviate
       [] part = "memory"    -> MemoryDeviates}

-----------------------------------------------------------------------------
Described == INSTANCE ISA WITH
  prompt  <- command \in {"prompt", "exited"},
  running <- RUN_BIT,
  pc      <- Architectural.PC,
  regs    <- [k \in 0 .. 30 |-> Architectural.REGS[k]],
  flagN   <- Architectural.FLAG_N,
  flagZ   <- Architectural.FLAG_Z,
  M       <- mem,
  excused <- Deviations

\* Apart from the deviations listed above, the simulator executes every
\* documented instruction as described: the latch, the table search, the word
\* accessors and the shell's loops add nothing and lose nothing.
ConformsButFor == Described!Spec

-----------------------------------------------------------------------------
(***************************************************************************)
(* Three of the statements of the assignment the code does not keep to, those *)
(* that only show across cycles, said without excuse.                        *)
(***************************************************************************)
Strict == INSTANCE ISA WITH
  prompt  <- command \in {"prompt", "exited"},
  running <- RUN_BIT,
  pc      <- Architectural.PC,
  regs    <- [k \in 0 .. 30 |-> Architectural.REGS[k]],
  flagN   <- Architectural.FLAG_N,
  flagZ   <- Architectural.FLAG_Z,
  M       <- mem,
  excused <- {}

\* "todos sus cambios deberian de hacerse en NEXT_STATE", page 4; what LDURH
\* loads does not outlive the cycle.
LDURHLoads ==
  [][stage = "execute" /\ stage' = "latch" /\ op = "LDURH" => Strict!RegistersRight]_vars

\* "los primeros 8 bits del registro son guardados en los primeros 8 bits
\* guardados en la direccion de memoria", page 12; STURB keeps 32 bits of the
\* address, and the stack region begins a word below 2^32 (shell.c:40).
STURBStores ==
  [][stage = "execute" /\ stage' = "latch" /\ op = "STURB" => Strict!MemoryRight]_vars

\* "XZR es un registro que siempre tiene ceros", page 8, item 7; no run starts
\* with input giving it another value.
XZRIsZero == CURRENT_STATE.REGS[31] = 0
=============================================================================
