# The LEGv8/ARM simulator, specified

A TLA+ development of the instruction-level simulator in `src/TP1-ARM/src`
(`shell.c`, `sim.c`, `shell.h`): modules that model it, TLC configurations that
check it on a small machine, and proofs about it that TLAPS checks for every
size of the machine, every program and every sequence of commands.

Paths below are relative to `src/TP1-ARM/src` unless they start with `src/`.
"The assignment" is `src/TP1-ARM/I304_TP1_Simulador_CPU.pdf`.

## 1. Inventory

| Component | State | Operations | Where |
|---|---|---|---|
| Main memory | three byte arrays (text, data, stack), each three bytes longer than its region | `mem_read_32`, `mem_write_32` | `shell.c:36-114`, `329-336` |
| Decoder | `opcode_table`, constant; the decoded record, local and not initialised | `decode_instruction` and its two halves | `sim.c:19-97`, `134-245` |
| Handlers and cycle | `CURRENT_STATE`, `NEXT_STATE` (PC, 32 registers, N, Z), `RUN_BIT`, `INSTRUCTION_COUNT` | `cycle`, `process_instruction`, 25 `implement_*` | `shell.c:140-145`, `sim.c:100-132`, `248-708` |
| Command shell | what is being executed; the counter of `run`; the input not read yet | `go`, `run n`, `input r v`, `quit`, `rdump`, `mdump`, `help` | `shell.c:122-320` |
| Dumps | the loop of `mdump`; the file `dumpsim` and its stream's buffer | `mdump`, `rdump` | `shell.c:180-230` |
| Loader and start-up | the files still to load, those open, the offset reached | `main`, `init_memory`, `load_program`, `initialize` | `shell.c:329-420` |
| Test programs | | `inputs/*.s`, `inputs/bytecodes/*.x` | `src/TP1-ARM/inputs` |
| Assembler script, reference simulators, cross toolchain | | outside the program | `src/TP1-ARM` |

How they interact. The shell calls `cycle`; `cycle` calls `process_instruction`,
which reads the word at PC through `mem_read_32`, decodes it, and dispatches on
the row's name to one handler. Handlers read `CURRENT_STATE` and are meant to
write `NEXT_STATE`; the latch at the end of `cycle` copies `NEXT_STATE` over
`CURRENT_STATE`. Memory and `RUN_BIT` are written in place. `input` writes both
copies of the register file. `HLT` clears `RUN_BIT`, which `go` and `run` test.

The program has one thread and talks to nobody, so most of its hard behaviours
are those of a machine: long sequences of legal steps (program and commands) that
reach an odd state; two copies of one state that must agree; a table search whose
outcome depends on rows nobody wrote; fields and bytes that were never
initialised; sign extension, truncation and alignment at the edges of a width; and
loops whose end depends on the program being run. Around the machine there are
three more: loading that can fail halfway, after memory has been written; words of
input that a failed `scanf` leaves for the next command; and `dumpsim`, the one
thing that outlives a process, written through a buffer that a fault or Control+C
loses. PROJECT.json lists each at its line.

What makes each component correct:

- memory: an access that passes the range test stays in the array; a store
  changes no byte but those it addresses;
- decoder: every documented encoding reaches its own handler with the operands
  of the manual, whatever the stack held, apart from two stolen windows and CBNZ;
- handlers: together with the latch they execute each documented instruction as
  described;
- the latch: it neither loses nor resurrects a register or a flag;
- PC: instructions are fetched from multiples of 4;
- shell: `run n` returns and runs no cycle too many, `go` returns on programs that
  halt, and a halted machine stays as it is; a line that is not a command takes no
  command with it;
- loader: the prompt is reached by just the command lines it should be, if `dumpsim` can
  be opened, and the machine is then that of the last word loaded at each place;
- dumps: a dump is complete, once and in order, and `dumpsim` belongs to the last
  session that had a prompt.

## 2. Modules

| Module | What it is |
|---|---|
| `Words` | C's unsigned integers, parameterised by the size of a byte |
| `Memory` | the regions, `mem_read_32`, `mem_write_32` |
| `Decoder` | `opcode_table`, the searches, the extraction of fields, sign extension |
| `Armv8` | the encodings the assignment asks for, written without the table |
| `DecoderWalk`, `DecoderMC` | every opcode through the decoder, compared with `Armv8` |
| `Simulator` | EXTENDS `Memory`, `Decoder`: fetch, one action per handler, latch |
| `Shell` | EXTENDS `Simulator`: commands, loops, initial state, fairness, properties |
| `ISA` | the abstract machine: one documented instruction per step, no latch, table or word accessors |
| `Conformance` | EXTENDS `Shell`, `Armv8`: the refinement mapping to `ISA`, and the list of deviations |
| `Loader` | EXTENDS `Shell`: a process from `main` to its first prompt, and `dumpsim` |
| `Main` | EXTENDS `Loader`: sessions, `get_command` with `scanf`, the dumps, the ends of a process, properties |
| `SessionConformance` | EXTENDS `Main`, `Conformance`: sessions against the machine of `ISA` |
| `MCParams`, `ShellMC`, `ConformanceMC`, `MainMC` | the small machine, its programs and its sessions |
| `WordLemmas`, `DecoderLemmas` | lemmas on words and memory, on the decoder |
| `ShellProofs`, `DecoderProofs` | theorems of `Shell!Spec` and of the decoder's walk |
| `MainProofs`, `DumpProofs`, `StartProofs` | theorems of `Main!MainSpec`, each module extending the one before |
| `ConformanceProofs` | EXTENDS `SessionConformance`, `StartProofs`: the refinement of `ISA`, step by step, of the machine and of sessions |

Names are the source's:
`CURRENT_STATE`, `NEXT_STATE`, `RUN_BIT`, `mem_read_32`, `implement_STURB` and so on.
Rows and handlers are named `ADDS_extended_register` for the function
`implement_ADDS_extended_register`, whose row is called
`ADDS(Extended Register)` in the table.

### State and actions

`stage` is the program counter of `cycle`: `"idle"` between two cycles,
`"execute"` once `process_instruction` has decoded and preset
`NEXT_STATE.PC = CURRENT_STATE.PC + 4`, `"latch"` once the handler has returned,
`"crashed"` after a fault. `command` tells which loop is running. One action is
one of

- `Go`, `Run(n)`, `Input(r, v)`, `Quit`: a command. Commands that only print, a
  refused `go` or `run`, and ill-formed commands are stutters;
- `StartCycle`: the loop test succeeds, fetch and decode;
- `Process`: one handler, whole;
- `EndCycle`: the latch, `INSTRUCTION_COUNT++` and the `i++` of `run`;
- `Return`: the loop test fails.

In `Shell` printing commands and refused ones are stutters; `Main` models them.

`Main` is the whole program. `process` is `"off"`, `"loading"`, `"running"`, `"exited"`
or `"killed"`; a session is a process started on some files (`Start`), with its
input, `script`, a sequence of the words that will be typed. Its actions are

- `Load`, one of the steps of `Loader`: `OpenProgram`, `LoadWord` (one word to memory),
  `EndOfProgram` (PC set, the file left open), `HandOver` (the rest of `initialize`,
  and `dumpsim` opened, which empties it), and the failures `CannotOpenProgram`,
  `Malformed`, `CannotOpenDumpsim`, which exit. `fopen` of `dumpsim` fails when no
  descriptor is left, or when the file may not be written: `writable` is chosen
  anew for each process, and stands for directory, mode and disk;
- one action per case of `get_command`: `GoCommand`, `RunCommand`, `InputCommand`,
  `RDumpCommand`, `PrintingCommand`, `QuitCommand`, `MDumpCommand`, and `EndOfInput`.
  Those of `go`, `run`, `input` and `quit` conjoin the action of `Shell` with what happens
  to the input. `Scan` is one `scanf` conversion: the model's constant `Numeral` says, for a
  word and a conversion, whether a numeral stands at its start, its value, and what
  is left of the word, which stays in the input;
- `ToScreen`, `TurnToFile`, `ToFile`, `EndOfDump`: the two loops of `mdump`, one word a step;
- `MachineStep`: a step of `Shell!Work`;
- `Fault`, the signal after a crash, and `Interrupt`, Control+C at any moment of a
  living process.

`disk` is what `dumpsim` holds and `buffer` what its stream holds back. When `fprintf`
passes its lines on is up to the C library: `Prints` may keep a line or write out all it
has. `exit` flushes, a signal does not. A line stands for one `fprintf` with an
argument, or for the lines of one register dump; a flush may in truth cut a line in
two, which no property would tell apart.

Six variables of `Main` are seen by the properties only: `given` and `meant` (the files of
the session, and the commands its user meant by the lines typed), `kept`, `prompted`,
`executed` and `promised`.

Splitting a cycle in three costs nothing (nothing interleaves with it) and lets
the properties speak of what lies between a handler and the latch.

Behaviour C leaves undefined is a choice:

- the decoded record is not initialised: each `Fetch` decodes over some element of
  `Garbage`, a whole record with its name and type. A field that the row's type does
  not set keeps what it held;
- the three bytes behind a region, which `init_memory` does not clear, start as
  any element of `SlackBytes` (one value for all of them);
- when no row matches, name and type are that record's too (`decode_instruction_opcode`).
  A type left there by an earlier instruction has its fields extracted from the new
  word, and a name left there runs its handler, on fields that may be any words; a
  name that is no handler's does nothing, or faults when it is printed or compared
  (`Unknown`);
- a register number beyond 31 reads any element of `StrayValues`, and a result written
  there reaches no register of the model. `rm` of type R has six bits, and ADD(Extended
  Register) uses it as a register number; a stale handler may use any number, and from
  64 on it may also fault (`WildAccess`);
- when an empty row matches, the name is null and `strcmp` faults.

Six things are taken for granted. A write beyond the register file, by a handler that
runs on a stale name, hits nothing the model holds: which variable lies there is the
linker's choice. Memory can be allocated (`shell.c:333` does not check `malloc`), and
what is written to `dumpsim` once it is open arrives there. `input` with a register number outside the file
(`shell.c:312` does not check it) writes somewhere else in the process: the model
takes register numbers in range. A typed word fits the 20 bytes of `get_command`'s
buffer. And the file names of the command line lie one behind the other in the
process, as `initialize` assumes (`shell.c:388`) and Linux lays them out.

## 3. What is checked

The small machine (`MCParams`). A byte has two bits, so that a word has 8 and a
register 16; every truncation and wrap-around happens at its own width, as in C.
Instructions keep their 32-bit encodings: a memory word *numbers* the bytecode it
stands for in a dictionary, so a program may still overwrite its text. The text
region is [32, 96), data [100, 116), stack [252, 268): as in the program the
stack starts 4 bytes below the end of the 32-bit space and runs past it, and text and
data lie below the largest `int`, here 127. There
are 16 programs, made from those in `src/TP1-ARM/inputs` with the addresses of this
machine, and completed for what they leave out: all six conditions and one the
switch does not know, backward branches, unaligned and negative offsets, both ends
of the stack, branches too far for B, register 31 with a value, a program that runs off its end, one that overwrites itself, one
that loops for ever, an opcode in no row.

| Run | Question | Bounds |
|---|---|---|
| `decoder` | for which bytecodes does the decoder agree with the manual? | full width: all 2048 values of bits 31..21, on which alone the search depends, with 99 low parts that reach both ends of every field |
| `shell` | safety of latch, PC, flags, halted machine, stores; does `run n` end, and what brings it there? | all 16 programs; `input` sets X1 to 0, 48 (aligned, in text), 49 (unaligned) or 65535 at any prompt; `run -1` and `run 3` |
| `go_completes` | does `go` end? | the 9 programs whose every path reaches HLT; the values of X1 keep their stores out of the text |
| `conformance` | does the simulator implement `ISA`? | 15 programs; X1 as above |
| `session` | what does a user get, from the command line to the exit? | two sessions in a row, of 10; at most 3 open files beside the standard ones |

`run 3` is enough to stop a program between any two of its instructions, by
repeating it. X1 is the register the programs branch on, store through or jump
to, so that setting it takes every branch both ways. `Garbage` has
five stacks: two that no comparison knows, with bit 18 clear and set, since CBNZ uses
its unset field for that bit alone; one left by a STURB, name and type; and the names
of an ADDS and a BR, with words in the fields that lie beyond the register file or
within. `decoder` compares every bytecode over each two of these. The
program that loops for ever is left out of `conformance`, where it would show the same two
instructions at every value of `INSTRUCTION_COUNT`.

The ten sessions of `MainMC` are five whose start fails (no file, a missing one, a
malformed one, as many files as descriptors, more files than descriptors) and five that
reach a prompt when `dumpsim` may be written, and are tried both ways: a machine that halts, is commanded again and dumped over the edge of the
negative addresses; a short file over the beginning of one that runs past the text
region; an input of lines cut short, numerals with letters behind them and words
that are no command; the last word of the ints and the first dump that wraps; a
program that faults between two dumps. Two sessions, in all their pairs and with
Control+C after any step, show what the second finds of the first: only `disk`
passes from one to the other, and `kept` is all a session can see of it, so a third
adds nothing. Three open files let two programs load and leave one descriptor
for `dumpsim`, and a third program take it.

Everything TLC checks on the small machine is about widths, not about the value
256, with one exception: the 16 bits of a small register cannot hold 2^20, so a
CBNZ offset of the wrong sign is the same address there. The sign of offsets is
therefore checked at full width, in `decoder`.

### Properties

- `TypeOK`: every register, flag, counter and byte keeps its width.
- `DoubleBuffer`: between two cycles the two copies agree; after a handler they
  differ in its destination, PC, and the flags if it is one that sets them.
- `PCAligned`, `FlagsExclusive`, `BetweenCycles`, `HaltFreezes`, `StoreFootprint`: see
  the comments in `Shell`.
- `RunReturns`, `GoCompletes`: liveness. `RunAdvances` is why `run` ends: `StepsLeft`, three
  for each cycle asked for less those taken, is never negative and falls with each step.
- `DocumentedDecoded`, `OperandsDecoded`, `NullOnlyWhenEmpty`, `ReadsSetFields`,
  `RegisterNumbers`: the decoder, each with its exceptions stated. The last two speak of
  bytecodes for which a row is found: there the handler, and each field it uses, is
  the same over any two stacks, CBNZ's `br_address` apart, and register numbers are
  in the file. For the others the stack decides; `ReadsSetFields` adds that none of
  them is documented.
- `SessionSound`: `Shell`'s invariants at every moment of every session; `Shell` assumes an
  initial state, and this says the loader delivers it, with nothing of an earlier
  load showing through.
- `HandsOver`: at the first prompt memory is the overlay of the session's files, word
  by word that of the last file long enough, and the rest of the machine is `Reset`.
- `StartsRight`: the prompt is reached if and only if every file can be opened and is well
  formed, a descriptor is left, and `dumpsim` may be written.
- `DumpFileRight`, `DumpsComplete`: what is in `dumpsim`, after the end and while running. What
  a session should have written is `promised`, computed when the command is read
  by `Listing`, a definition without a loop.
- `Resynchronises`: once the input is used up, the commands meant by its lines have all
  been executed with the arguments meant, in order (`Within`). Others may have been: `2go` after
  `run` runs two cycles and leaves `go` in the input. A command cut short takes the next
  line for its arguments, but no command starts like a numeral, not even a
  hexadecimal one, and what is no numeral stays in the input. Incomplete and
  mistyped lines are of the kind `Other`, which mean nothing.
- `SessionEnds`: every session ends, unless it dumps up to the largest ints.
  `DumpAdvances` is why a dump ends: `DumpLeft`, the lines both loops have to go, falls with each
  step, except in a dump that wraps, which never leaves its first loop.
- `SessionsConform`: each session reaches its prompt in `ISA`'s initial state, whatever was
  loaded and failed before, and while it runs, each step is one of `ISA`, apart from the listed deviations, or a
  stutter. `conformance` asks this of `Shell`, where commands come in any order;
  here they come from what was typed, between dumps, and after a session that ended anyhow.
- `ConformsButFor`: the refinement. `Conformance` maps the machine to `ISA` by taking
  `NEXT_STATE` between a handler and the latch and `CURRENT_STATE` otherwise, so that
  a handler is an `ISA` step and fetch and latch are stutters. `ISA!Step` fixes four
  parts of the state, PC, registers, flags and memory, and leaves out those named
  in `excused`; `Deviations` computes, from the bytecode and the state, exactly in
  which part an instruction may be wrong. A deviation that is not in that list, or a
  part it does not name, is a violation.

`CHECK_DEADLOCK FALSE` is there because the system does stop: after `quit`, after a
fault, and at the end of the decoder's walk.

### Fairness

The simulator is one thread that nothing suspends, so its next step, while it is
working, is weakly fair; the user may never type anything, so commands have no
fairness. The condition is `WF(Proceeds)`: while `Busy`, each step of `Work`, and no
other step, changes `command` or `stage`. It is `WF_vars(Work)`, in a form in which
TLC decides enabledness without running a handler.

Sessions have `WF_position(ProcessStep)`: a living process goes on. Its input is all
there from the start, so that reading it is the process's own step; a process need
not be started nor interrupted. `position` lists the variables of which each step of a
process moves one (the file or the word being loaded, the input, the address of the
dump, the stage of the cycle), which keeps the value of memory out of the fairness
condition. `SessionEnds` is meant for programs that halt or fault, as those of the run do:
a `go` on any other never comes back.

### Disagreements between the code and its documents

Seven have a run of their own, which TLC must find violated:

| Run | The code | The document |
|---|---|---|
| `doc_ldurh` | LDURH writes `CURRENT_STATE`, so the latch undoes the load (`sim.c:547`) | changes go to NEXT_STATE (page 4) |
| `doc_sturb` | STURB keeps 32 bits of its address, so that its byte is lost beyond 2^32, where the stack region goes on and STUR stores (`sim.c:387`) | the byte is stored at the address (page 12) |
| `doc_xzr` | a result written to register 31 is read back (`sim.c:268`) | XZR is always zero (page 8) |
| `doc_shifts` | LSL by 33..63 and LSR by 32..63 run each other's handler (`sim.c:81`) | any amount (page 11) |
| `doc_cbnz` | the sign of CBNZ comes from a field that is not set (`sim.c:604`) | the label may lie on either side (page 13) |
| `mdump_stack` | an address from 2^31 is sign-extended and read as 0 (`shell.c:192`) | "dump memory from low to high" (`shell.c:126`) |
| `go_without_hlt` | a program without HLT faults behind its end (`sim.c:107`) | "run program to completion" (`shell.c:124`) |

All but `mdump_stack` and `go_without_hlt` are entries of `Conformance!Deviations` too; the others there
have no run. Each entry of that list but CBNZ's,
which 16-bit registers cannot show, is needed: `conformance` fails without it.

| Entry | The code | The document |
|---|---|---|
| `op = "ORR"` | ORR uses the register numbered by the shift field (`sim.c:499`) | X0 = X1 \| X2 (page 9) |
| `op = "STUR"` | STUR stores 32 bits (`sim.c:367`) | M[X2 + 0x10] = X1 (page 11) |
| `Truncated` | STURB, STURH and LDURB keep 32 bits of the address (`sim.c:387`, `429`, `518`) | an address is a register and an offset, 64 bits (pages 11, 12) |
| `address + 4 >= WORD` | so do the two reads of LDUR, and the second wraps to 0 just below 2^32 (`sim.c:408-410`) | X1 = M[X2 + 0x10] (page 12) |
| `address % 2 # 0`, STURH | an unaligned STURH writes the aligned halfword around its address (`sim.c:520`) | M[X2 + 0x10](15:0) = X1(15:0) (page 12) |
| `op = "LDUR"` | an unaligned LDUR reads the aligned words around it (`sim.c:408`) | X1 = M[X2 + 0x10] (page 12) |
| `ImmediateShifted` | shift 01 of immediates is ignored (`sim.c:677`) | must be implemented (pages 9, 12) |
| `op \in {"MOVZ", "LSL"}` | MOVZ and LSL set flags (`sim.c:338`) | only ADDS, SUBS, ANDS do (pages 9-13) |
| `op = "B"` | B keeps 6 bits of its offset (`sim.c:237`) | bits [25:0] (comment, `sim.c:237`) |
| `op = "BR"` | BR to an unaligned address is ignored (`sim.c:651`) | BR jumps to the address in the register (pages 9-13) |

## 4. What is proved

For all values of the constants:

| Module | Theorem | Property | Of |
|---|---|---|---|
| `ShellProofs` | `TypeCorrect` | `[]TypeOK` | `Shell!Spec` |
| | `PromptBetweenCycles` | `[]BetweenCycles` | |
| | `DoubleBuffered` | `[]DoubleBuffer` | |
| | `FetchAligned` | `[]PCAligned` | |
| | `FlagsOfOneResult` | `[]FlagsExclusive` | |
| | `HaltIsFinal` | `HaltFreezes` | |
| | `StoresTouchOnlyTheirBytes` | `StoreFootprint` | |
| | `RunIsBounded` | `RunAdvances` | |
| `ConformanceProofs` | `Conforms` | `ConformsButFor` | |
| `MainProofs` | `EverySessionSound` | `[]SessionSound` | `Main!MainSpec` |
| | `InputResynchronises` | `[]Resynchronises` | |
| `DumpProofs` | `EveryDumpComplete` | `[]DumpsComplete` | |
| | `DumpFileBelongs` | `[]DumpFileRight` | |
| | `DumpsAdvance` | `DumpAdvances` | |
| `StartProofs` | `StartsAreRight` | `[]StartsRight` | |
| | `SessionTypes` | `[]MainTypeOK` | |
| | `FilesHandedOver` | `[]HandsOver` | |
| | `SessionsRefineShell` | `SessionsAreShells` (stated with its proof) | |
| `ConformanceProofs` | `EverySessionConforms` | `SessionsConform` | |
| `DecoderProofs` | `OperandsOfTheManual` | `[]OperandsDecoded` | `DecoderWalk!Spec` |
| | `RegistersInFile` | `[]RegisterNumbers` | |
| | `NoFieldUnset` | `[]ReadsSetFields` | |
| | `EncodingsReachHandlers` | `[]DocumentedDecoded` | |
| | `FaultsOnlyWhenEmpty` | `[]NullOnlyWhenEmpty` | |

Assumptions, each named in the module that declares the constants and evaluated by
TLC in the runs: `WordsAssumption` (a byte has an even number of values, more than 1,
and & | ^ map bytes to bytes), `PowerAssumption` (BYTE is 2^ByteBits, BYTE^0 and
BYTE^1 are what they should be, and powers of two are positive: the provers know
nothing else of exponentiation),
`MemoryAssumption` (the three arrays do not overlap, regions are aligned, the text
starts below 2^64), `LowPartsAssumption`, `StacksAssumption`, `SimulatorAssumption` (a bytecode has 32 bits; garbage and stray
values are values of their C types) and `ShellAssumption` (programs are words,
arguments of `input` are a register of the file and a 64-bit value), `LoaderAssumption` (files
hold words) and `MainAssumption` (the arguments of `run` and `input` are all ints and all
64-bit values, `Numeral` and the sessions have their types, and no region reaches the
last 2^32 addresses of the 64-bit space, where negative ints are converted to) and
`InputAssumption`, without which `Resynchronises` would be false. It has two halves. A word
that begins a command (that starts with g, m, q, r or i, in either case, or `?`: `shell.c:274-318`) is no numeral under
`%d`, `%i` or `%x`, and a conversion that meets it takes none of it. And a session says where
each command meant begins: from the word `at[k]` on, the input reads `means[k]` with its
numerals, each a word of its own (`Says`). Nothing is assumed of the words between.

The argument. Proving each invariant over 25 handlers would repeat one case split
five times. Instead `HandlerEffect` classifies a handler once: it writes a register,
or a register and both flags, or both flags, or PC with a multiple of 4 (if PC
was one), or memory through `mem_write_32`, or `CURRENT_STATE` (LDURH), or `RUN_BIT`,
or nothing; `EffectFields` says what each effect leaves alone. The invariants follow
from that and the few other actions.

`IInv == TypeOK /\ BetweenCycles /\ DoubleBuffer /\ PCAligned /\ FlagsExclusive`

is inductive. `TypeOK` is so alone; the others are not:

- `DoubleBuffer` needs `BetweenCycles`: `input` would break it in the middle of a cycle;
- `PCAligned` speaks of both copies, because the latch copies one over the other,
  and needs that 4 divides 2^64 (`TruncMod4`);
- `FlagsExclusive` speaks of both copies for the same reason.

`WordLemmas` has the facts on the operators: division and remainder by an unknown
width, digits in base m, the byte-by-byte operators, and that an access which passes
the range test reads and writes inside the arrays (`MappedBacked`).

The argument for sessions. `RunningStep` shows that each step of a running session is a
step of `Shell` or leaves the machine alone, with arguments in the sets `Shell` has for
them, and `LoadStep` that the hand-over satisfies `IInv`; together they carry `IInv`, and
with it all of `Shell`'s invariants, to every session (`SessionInv`).

`DumpInv` is the invariant of the dumps. `DumpsComplete` is not inductive: in the middle of
`mdump` one must know which line comes next. `Partial` says that the last lines
promised are those of the dump in progress, and that what is written is what is
promised but for the lines from `Position` on; `Dumping` that the address is at a multiple
of 4 from `start`, and, in the second loop, that the dump does not wrap. That
is where the ints come in: a dump that can wrap never leaves its first loop, since
its address never exceeds `stop` (`StaysBelow`), and one that cannot does not
wrap (`NoWrap`). A line read by the loop is that of the listing because a negative int
is converted to an address in no region (`LineRead`).

Dumps advance for the same reasons: `DumpInv` gives the address its bounds, and `NoWrap`
that one more line is one line less to go.

`InputInv` is the invariant of the input. `Resynchronises` speaks of the moment when all is
read; before, some number `k` of the commands meant are `Within` those executed, and the
words from the beginning of the next one on are `Kept`, that is, still the end of the
input, whatever a conversion left in front of them. `CommandRead` shows that one turn of
`get_command` never reads past that beginning without executing the command: what it
reads is either an earlier word, whose failed or partial conversions take nothing from a
word that begins a command (`NotNumeral`, `ScanKeeps`, `ScanTwoKeeps`), or the command itself,
whose numerals are there, each whole (`WholeCommands`, with `MeantRun` and `MeantTwo`). In the
second case `k` grows (`WithinAppend`), and when the input is empty no beginning is left
to be kept, so that `k` is all of them (`AllExecuted`).

`StartInv` counts: the files taken so far are good, they are the first of the command line,
and as many files are open as were taken, and one more while one is read. From this the
reason of each failure, and of the prompt, is a fact about the command line or about
`dumpsim`.

`HandsOver` is an induction over the files and over the words of each. `Gives(j, k)` says
that file `j` has put its word `k` into memory, by now: all of its words if it was
taken, those before the offset if it is being read. The invariant `Image` says of each
byte that it is the last giver's, or zero, or slack. `LoadWord` keeps it because
the file being read is later than all givers, opening and closing a file because they
change no `Gives` (`SameImage`). When the last file is closed, the last giver of a word is
the last file long enough, and `Image` is `Loaded(Overlay(given), slack)` byte by byte
(`Overlaid`). That these maxima exist is an induction over the number of files,
made with least counterexamples (`Least`, `Greatest`, `Bounded`), which take sets where the
library's induction takes a predicate. `OverlayInv` adds that no command has
been executed while the files are loaded, so that `HandsOver` is not true for want of a
prompt.

`SessionsAreShells` says of each step what `Main` owes to `Shell`: the step to the prompt ends in
`Shell!Init`, with the overlay for program, and each later one is a step of `Shell`
or leaves the machine alone. With it every theorem of `Shell!Spec`, the refinement
included, holds of a session between its prompt and its end. TLC is not asked for it,
because deciding `Next` for one step tries all values of `input`.

`StoreFootprint` follows from `TypeOK`: whichever base a store's register number
yields, the bytes written are those addressed from it. STURB
and STURH read the aligned word, replace a byte or two of it and write it
back, so their part is the round trip of the accessors: `mem_write_32` after `mem_read_32`
puts each other byte back (`StoredByte`, `StoredHalf`).

The decoder's theorems extend the walk of `decoder` from its 99 low parts to all
2^21. They rest on `FoundOpcode` (a row that is found has the opcode of one of the
searches), `RowTypes` and `NamedRow`; the two about the stack assume that a row is found. `EncodingsReachHandlers` has to run the table: `Found(h)` is the name
the four searches find for the top 11 bits `h`, the low bits having no part in it, and
`TopBits(op)` the top bits that an encoding allows (`OpMeans`). What is found is then
computed for each row and each interval of `h`, by proofs on numerals
(`Encodings`, `NullFound`, `NoOrphanFound`).

The refinement. `Executing` is the state in which a handler runs: `IInv`
without the flags, and `Fetched`, in stage `"execute"`; `Fetched` says that the instruction in
progress is the decoding of the word at PC, over some garbage. A documented word finds a
row (`DocumentedFound`), so that the name and type of the garbage are of no account
(`RowFound`). `Machine` shows that `ISA` sees the same
instruction at the same PC with the same registers, and `HandlerReached` and `FieldsByName` that
the handler and its operands are those of the manual, apart from the two windows of the
decoder. The step is then proved part by part:

- `RegistersPart`: `Computes` compares the result of each computing handler with the
  described one, `LoadWordsResult` and `LoadByteResult` those of loads, and all other
  handlers write no register;
- `FlagsPart`: they describe the same result;
- `PCPart`: `ConditionsByNumber` and `ConditionalTarget` for branches; nothing else jumps;
- `MemoryPart`: `StoreByteResult` and `StoreHalfResult`, and that nothing else stores.

Each part assumes that its deviation predicate is false and concludes that the part is
right, so each entry of `Deviations` is where a proof needed it. Fetch, latch and the
commands are stutters or `ISA!Input` (`ShellStep`): the latch because `DoubleBuffer` says that
`NEXT_STATE` was what `ISA` saw already.

`EverySessionConforms` carries this to sessions. `Fetched`, which the refinement needs, is an
invariant of sessions too (`SessionFetched`): nothing but a cycle moves `stage`, and a process
starts between cycles. `PromptState` and `PromptDescribed` show that the state at the
prompt is `ISA`'s initial one, and `RunningStep` that the steps after it are `Shell`'s.

`RunAdvances` needs `BetweenCycles`: that a cycle has begun means that `i < num_cycles` was
tested, without which the variant could pass below zero (`RunStep`).

What stays with TLC. `RunReturns`, `GoCompletes` and `SessionEnds` are liveness, whose
fairness needs ENABLED. The safety halves of the first and the last are theorems (`RunAdvances`,
`DumpAdvances`); what is left to TLC is that a process that can go on does. That `go`
comes back depends on the program. The `doc_` runs, `mdump_stack` and `go_without_hlt` are
counterexamples, for which one instance is enough.

## 5. Not modelled

Every component of the program is modelled, and each invariant and action property
that a passing run checks is a theorem. What could still be added: `input` with a register number
outside the file, which needs the layout of the process's memory to have an outcome; two
sessions at once over one `dumpsim`, which the code does nothing about; and liveness, if a
prover for it is at hand.

Left out for good: what the program prints on the screen, `inputs/asm2hex` (Python
text processing around the assembler), `ref_sim_*` (binaries), and the cross toolchain
`aarch64-linux-android-4.9`. The last is third-party code, compiler headers and the
sources of gcov, which this program neither includes nor links: it is some 32000 of the
34000 lines of C in the repository, and the simulator itself is 1170.
