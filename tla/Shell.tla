-------------------------------- MODULE Shell --------------------------------
(***************************************************************************)
(* get_command of shell.c, the loops of go and run, and the state they       *)
(* start from.  The shell is one thread: while go or run loops, no command   *)
(* is read.  rdump, mdump and help only print, a refused go or run and an    *)
(* ill-formed command only return to the prompt: all of them are stutters.   *)
(***************************************************************************)
EXTENDS Simulator

CONSTANTS
  Programs,      \* the programs on disk, each a sequence of words
  SlackBytes,    \* what malloc left in the bytes init_memory does not clear
  InputRegs, InputValues,   \* the arguments of input
  RunSizes                  \* the argument of run

ASSUME ShellAssumption ==
  /\ Programs \subseteq Seq(Word)
  /\ SlackBytes \subseteq Byte
  /\ InputRegs \subseteq 0 .. (ARM_REGS - 1)
  /\ InputValues \subseteq Dword
  /\ RunSizes \subseteq Int

VARIABLES
  command,       \* "prompt", "go", "run" or "exited"
  i, num_cycles  \* the loop counter of run and its limit

shellVars == <<command, i, num_cycles>>
vars == <<simVars, shellVars>>

\* Memory after init_memory and load_program: a word past the end of the text
\* region is dropped, unless it is long enough past it to lie in another one.
Loaded(program, slack) ==
  [a \in Backed |->
     LET k == 1 + ((a - TEXT.start) \div 4)
     IN  CASE a \in Slack -> slack
           [] a \notin Slack /\ a >= TEXT.start /\ k <= Len(program) ->
                ByteOf(program[k], (a - TEXT.start) % 4)
           [] OTHER -> 0]

Reset == [PC |-> TEXT.start, REGS |-> [k \in 0 .. (ARM_REGS - 1) |-> 0],
          FLAG_N |-> 0, FLAG_Z |-> 0]

Init ==
  /\ \E program \in Programs, slack \in SlackBytes : mem = Loaded(program, slack)
  /\ CURRENT_STATE = Reset
  /\ NEXT_STATE = CURRENT_STATE
  /\ RUN_BIT = 1
  /\ INSTRUCTION_COUNT = 0
  /\ instr = NoInstruction
  /\ stage = "idle"
  /\ command = "prompt" /\ i = 0 /\ num_cycles = 0

-----------------------------------------------------------------------------
\* The commands that change something.

AtPrompt == command = "prompt"

Go ==
  /\ AtPrompt /\ RUN_BIT = 1
  /\ command' = "go"
  /\ UNCHANGED <<simVars, i, num_cycles>>

Run(n) ==
  /\ AtPrompt /\ RUN_BIT = 1
  /\ command' = "run" /\ i' = 0 /\ num_cycles' = n
  /\ UNCHANGED simVars

\* Slip: only one of the two copies is written.
Input_Current(register_no, register_value) ==
  /\ AtPrompt
  /\ CURRENT_STATE' = [CURRENT_STATE EXCEPT !.REGS[register_no] = register_value]
  /\ UNCHANGED <<NEXT_STATE, RUN_BIT, INSTRUCTION_COUNT, mem, instr, stage, shellVars>>

Input(register_no, register_value) ==
  /\ AtPrompt
  /\ CURRENT_STATE' = [CURRENT_STATE EXCEPT !.REGS[register_no] = register_value]
  /\ NEXT_STATE' = [NEXT_STATE EXCEPT !.REGS[register_no] = register_value]
  /\ UNCHANGED <<RUN_BIT, INSTRUCTION_COUNT, mem, instr, stage, shellVars>>

Quit ==
  /\ AtPrompt
  /\ command' = "exited"
  /\ UNCHANGED <<simVars, i, num_cycles>>

-----------------------------------------------------------------------------
\* The loops.

\* Slips: one cycle too many; the run bit not tested again.
Continues_Inclusive ==
  CASE command = "go"  -> RUN_BIT = 1
    [] command = "run" -> i <= num_cycles /\ RUN_BIT = 1
    [] OTHER           -> FALSE
Continues_Halted ==
  CASE command = "go"  -> RUN_BIT = 1
    [] command = "run" -> i < num_cycles
    [] OTHER           -> FALSE

\* The loop test, made between two cycles.
Continues ==
  CASE command = "go"  -> RUN_BIT = 1
    [] command = "run" -> i < num_cycles /\ RUN_BIT = 1
    [] OTHER           -> FALSE

StartCycle == Continues /\ Fetch /\ UNCHANGED shellVars
Process    == Execute /\ UNCHANGED shellVars
\* Slip: the counter of run does not advance.
EndCycle_Uncounted == Latch /\ UNCHANGED shellVars

EndCycle ==
  /\ Latch
  /\ i' = IF command = "run" THEN i + 1 ELSE i
  /\ UNCHANGED <<command, num_cycles>>

Return ==
  /\ command \in {"go", "run"} /\ stage = "idle" /\ ~Continues
  /\ command' = "prompt"
  /\ UNCHANGED <<simVars, i, num_cycles>>

Work == StartCycle \/ Process \/ EndCycle \/ Return

Next ==
  \/ Go
  \/ \E n \in RunSizes : Run(n)
  \/ \E r \in InputRegs, v \in InputValues : Input(r, v)
  \/ Quit
  \/ Work

Spec == Init /\ [][Next]_vars

\* Nothing suspends the simulator while it works; the user may leave the
\* prompt unanswered for ever.  Every step of Work moves command or stage, and
\* no other step does while Busy, so that this is WF_vars(Work), stated so that
\* TLC need not run a handler to see that one is enabled.
Busy == command \in {"go", "run"} /\ stage # "crashed"
Proceeds ==
  /\ Busy
  /\ command' \in {"prompt", "go", "run"}
  /\ stage' \in {"idle", "execute", "latch", "crashed"}
FairSpec == Spec /\ WF_<<command, stage>>(Proceeds)

-----------------------------------------------------------------------------
(***************************************************************************)
(* Properties.                                                             *)
(***************************************************************************)

TypeOK ==
  /\ CURRENT_STATE \in CPU_State
  /\ NEXT_STATE \in CPU_State
  /\ RUN_BIT \in {0, 1}
  /\ INSTRUCTION_COUNT \in Word
  /\ mem \in [Backed -> Byte]
  /\ stage \in {"idle", "execute", "latch", "crashed"}
  /\ IF stage = "idle" THEN instr = NoInstruction ELSE instr \in Instruction
  /\ command \in {"prompt", "go", "run", "exited"}
  /\ i \in Nat /\ num_cycles \in Int

\* The two copies of the state differ only by what the instruction in progress
\* has written: a register other than its destination, or the flags when it
\* sets none, can be neither lost nor resurrected by the latch.  It rests on
\* initialize and input writing both copies (shell.c:312-313, 390).
FlagSetters == {"ADDS_immediate", "ADDS_extended_register", "SUBS_immediate",
                "SUBS_extended_register", "ANDS_shifted_register", "MOVZ",
                "LSL_immediate"}
DoubleBuffer ==
  /\ stage = "idle" => NEXT_STATE = CURRENT_STATE
  /\ stage = "execute" =>
       NEXT_STATE = [CURRENT_STATE EXCEPT !.PC = Trunc(CURRENT_STATE.PC + 4)]
  /\ stage = "latch" =>
       /\ \A k \in 0 .. (ARM_REGS - 1) :
            k # instr.rd => NEXT_STATE.REGS[k] = CURRENT_STATE.REGS[k]
       /\ instr.name \notin FlagSetters =>
            /\ NEXT_STATE.FLAG_N = CURRENT_STATE.FLAG_N
            /\ NEXT_STATE.FLAG_Z = CURRENT_STATE.FLAG_Z

\* Instructions are fetched from word-aligned addresses only, so that a fetch
\* never reads the uninitialised bytes behind a region: PC starts aligned, every
\* branch offset is a multiple of 4 and BR refuses other targets (sim.c:651).
PCAligned == CURRENT_STATE.PC % 4 = 0 /\ NEXT_STATE.PC % 4 = 0

\* The flags always describe one result, which cannot be both negative and zero.
FlagsExclusive ==
  /\ ~(CURRENT_STATE.FLAG_N = 1 /\ CURRENT_STATE.FLAG_Z = 1)
  /\ ~(NEXT_STATE.FLAG_N = 1 /\ NEXT_STATE.FLAG_Z = 1)

\* The prompt comes back between two cycles only, and run never starts one more
\* cycle than it was asked for.
BetweenCycles ==
  /\ command \in {"prompt", "exited"} => stage = "idle"
  /\ command = "run" /\ stage # "idle" => i < num_cycles

\* After HLT has been latched nothing but input changes the machine, whatever
\* commands follow: no cycle runs any more (RUN_BIT is never set again).
HaltFreezes ==
  [][RUN_BIT = 0 /\ stage = "idle" =>
       /\ CURRENT_STATE'.PC = CURRENT_STATE.PC
       /\ UNCHANGED <<RUN_BIT, INSTRUCTION_COUNT, mem, stage>>]_vars

\* A store changes no byte but those it addresses, in the 32-bit space for
\* STURB and STURH, though these two rewrite the whole word around them
\* (sim.c:387-391, 520-524).
Touches(name, address) ==
  CASE name = "STUR"  -> address .. (address + 3)
    [] name = "STURH" -> LET a == (address % WORD) - (address % 2) IN {a, a + 1}
    [] name = "STURB" -> {address % WORD}
    [] OTHER -> {}
StoreTouches ==
  UNION {Touches(instr.name, Address(base)) : base \in Reads(instr.rn)}
StoreFootprint ==
  [][\A a \in Backed : mem'[a] # mem[a] =>
       stage = "execute" /\ a \in StoreTouches]_vars

\* run n comes back, whatever the program does: it halts, uses up its cycles or
\* faults.
RunReturns == command = "run" ~> (command = "prompt" \/ stage = "crashed")

\* Why it does: a cycle takes three steps, and each step of run leaves fewer of those
\* that the cycles asked for may take, whatever the instructions do (shell.c:163-168).
StepsLeft ==
  (3 * (num_cycles - i)) - (CASE stage = "idle" -> 0 [] stage = "execute" -> 1 [] OTHER -> 2)
RunAdvances ==
  [][command = "run" => \/ command' = "prompt" \/ stage' = "crashed"
                        \/ 0 <= StepsLeft' /\ StepsLeft' < StepsLeft]_vars

\* go runs the program to completion (shell.c:124): it comes back to the prompt.
\* Meant for programs whose every path ends in HLT.
GoCompletes == command = "go" ~> command = "prompt"
=============================================================================
