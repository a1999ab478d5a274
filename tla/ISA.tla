--------------------------------- MODULE ISA ---------------------------------
(***************************************************************************)
(* The machine the assignment asks for (I304_TP1_Simulador_CPU.pdf): one     *)
(* documented instruction per step, executed at once on registers X0 to X30, *)
(* the flags N and Z and a byte-addressed little-endian memory.  Register 31 *)
(* is XZR, always zero (page 8, item 7); C and V are taken to be 0 (item 6). *)
(* It has no latch, no decoder table and no word accessors.                  *)
(*                                                                         *)
(* excused names the parts of the state the next step need not get right: it *)
(* is {} for the machine itself, and what an implementation admits to        *)
(* deviate in otherwise.                                                     *)
(***************************************************************************)
EXTENDS Memory, Armv8

CONSTANT Bytecode    \* the bytecode each memory word stands for

VARIABLES prompt, running, pc, regs, flagN, flagZ, M, excused
vars == <<prompt, running, pc, regs, flagN, flagZ, M>>

Init ==
  /\ prompt = TRUE /\ running = 1
  /\ pc = TEXT.start
  /\ regs = [k \in 0 .. 30 |-> 0]
  /\ flagN = 0 /\ flagZ = 0

-----------------------------------------------------------------------------
b  == Bytecode[mem_read_32(M, pc)]
op == Op(b)

X(k) == IF k = 31 THEN 0 ELSE regs[k]

\* imm12, or shifted 12 bits to the left (page 8, item 4).
Immediate == imm12(b) * (IF sh(b) = 1 THEN 4096 ELSE 1)

address == Trunc(X(Rn(b)) + imm9(b))
InRegion(a, n) == \E k \in 1 .. 3 : a .. (a + n - 1) \subseteq Covers(MEM_REGIONS[k])

Load1(a) == M[a]
Load2(a) == Load1(a) + (BYTE * Load1(a + 1))
Load4(a) == Load2(a) + (HALF * Load2(a + 2))
Load8(a) == Load4(a) + (WORD * Load4(a + 4))
Stored(a, n, v) ==
  [x \in Backed |-> IF x \in a .. (a + n - 1) THEN (v \div (BYTE ^ (x - a))) % BYTE ELSE M[x]]

Size == CASE op \in {"LDUR", "STUR"} -> 8 [] op \in {"LDURH", "STURH"} -> 2 [] OTHER -> 1

Loads  == {"LDUR", "LDURH", "LDURB"}
Stores == {"STUR", "STURH", "STURB"}
FlagOps == {"ADDS_register", "ADDS_immediate", "SUBS_register", "SUBS_immediate", "ANDS"}
RegisterOps == FlagOps \union Loads \union
  {"EOR", "ORR", "LSL", "LSR", "MOVZ", "ADD_register", "ADD_immediate", "MUL"}

\* What an instruction computes.
Result ==
  CASE op \in {"ADDS_register", "ADD_register"}   -> Trunc(X(Rn(b)) + X(Rm(b)))
    [] op \in {"ADDS_immediate", "ADD_immediate"} -> Trunc(X(Rn(b)) + Immediate)
    [] op = "SUBS_register"  -> Trunc(X(Rn(b)) - X(Rm(b)))
    [] op = "SUBS_immediate" -> Trunc(X(Rn(b)) - Immediate)
    [] op = "ANDS" -> And64(X(Rn(b)), X(Rm(b)))
    [] op = "EOR"  -> Xor64(X(Rn(b)), X(Rm(b)))
    [] op = "ORR"  -> Or64(X(Rn(b)), X(Rm(b)))
    [] op = "MUL"  -> Mul(X(Rn(b)), X(Rm(b)))
    [] op = "LSL"  -> ShiftLeft(X(Rn(b)), 63 - imms(b))
    [] op = "LSR"  -> ShiftRight(X(Rn(b)), immr(b))
    [] op = "MOVZ" -> Trunc(imm16(b))
    [] op = "LDUR"  -> Load8(address)
    [] op = "LDURH" -> Load2(address)
    [] op = "LDURB" -> Load1(address)

Holds(c) ==
  CASE c = EQ -> flagZ = 1
    [] c = NE -> flagZ = 0
    [] c = GE -> flagN = 0
    [] c = LT -> flagN = 1
    [] c = GT -> flagZ = 0 /\ flagN = 0
    [] c = LE -> flagZ = 1 \/ flagN = 1

Taken == CASE op = "B.cond" -> Holds(cond(b))
           [] op = "CBZ"    -> X(Rd(b)) = 0
           [] op = "CBNZ"   -> X(Rd(b)) # 0
           [] OTHER         -> FALSE

-----------------------------------------------------------------------------
\* The four parts of a step.

PCRight ==
  pc' = CASE op = "B"  -> Trunc(pc + (4 * imm26(b)))
          [] op = "BR" -> X(Rn(b))
          [] Taken     -> Trunc(pc + (4 * imm19(b)))
          [] OTHER     -> Trunc(pc + 4)

\* A load from outside the regions may return anything.
RegistersRight ==
  \/ op \notin RegisterOps /\ regs' = regs
  \/ op \in RegisterOps /\ Rd(b) = 31 /\ regs' = regs
  \/ /\ op \in RegisterOps /\ Rd(b) # 31
     /\ IF op \in Loads /\ ~InRegion(address, Size)
        THEN regs' = [regs EXCEPT ![Rd(b)] = regs'[Rd(b)]]
        ELSE regs' = [regs EXCEPT ![Rd(b)] = Result]

FlagsRight ==
  IF op \in FlagOps
  THEN flagN' = FlagN(Result) /\ flagZ' = FlagZ(Result)
  ELSE UNCHANGED <<flagN, flagZ>>

\* A store outside the regions may do anything to memory.
MemoryRight ==
  \/ op \notin Stores /\ M' = M
  \/ op \in Stores /\ (InRegion(address, Size) => M' = Stored(address, Size, X(Rd(b))))

Step ==
  /\ ~prompt /\ ~prompt' /\ running = 1
  /\ op # "undocumented" =>
       /\ running' = IF op = "HLT" THEN 0 ELSE running
       /\ PCRight        \/ "pc" \in excused
       /\ RegistersRight \/ "registers" \in excused
       /\ FlagsRight     \/ "flags" \in excused
       /\ MemoryRight    \/ "memory" \in excused

\* The shell: commands are taken between instructions.
Start  == prompt /\ prompt' = FALSE /\ UNCHANGED <<running, pc, regs, flagN, flagZ, M>>
Return == ~prompt /\ prompt' = TRUE /\ UNCHANGED <<running, pc, regs, flagN, flagZ, M>>
Input ==
  /\ prompt
  /\ \E k \in 0 .. 30 : regs' = [regs EXCEPT ![k] = regs'[k]]
  /\ UNCHANGED <<prompt, running, pc, flagN, flagZ, M>>

Next == Step \/ Start \/ Return \/ Input

Spec == Init /\ [][Next]_vars
=============================================================================
