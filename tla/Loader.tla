-------------------------------- MODULE Loader --------------------------------
(***************************************************************************)
(* The process from its start to the first prompt: main, initialize and      *)
(* load_program of shell.c.  Program files are loaded one over the other,    *)
(* all from the start of the text region, and none is closed.  Any failure   *)
(* ends the process, whatever is in memory by then.  The file dumpsim, where *)
(* the dumps go, is opened last, if it may be written; it outlives the process. *)
(***************************************************************************)
EXTENDS Shell, SequencesExt

CONSTANTS
  Files,      \* what a program file holds: its words, and whether they are all of it
  OpenMax     \* files a process may have open, beside the three standard ones

ASSUME LoaderAssumption ==
  /\ \A f \in DOMAIN Files : Files[f] \in [words : Seq(Word), wellFormed : BOOLEAN]
  /\ OpenMax \in Nat

VARIABLES
  process,       \* "off", "loading", "running", "exited" or "killed"
  argv,          \* the files still to be loaded
  prog, ii,      \* whether the first of them is open, and the offset reached in it
  opened,        \* the number of open files
  writable,      \* whether dumpsim may be written: its directory, its mode, the disk
  disk, buffer   \* the lines in dumpsim, and those its stream holds back

loaderVars == <<process, argv, prog, ii, opened, writable, disk, buffer>>

Alive == process \in {"loading", "running"}
Ended == process \in {"exited", "killed"}

\* Globals without an initialiser are zero; no command is read before HandOver.
Zeroed == [PC |-> 0, REGS |-> Reset.REGS, FLAG_N |-> 0, FLAG_Z |-> 0]

LoaderInit ==
  /\ process = "off" /\ argv = <<>> /\ prog = FALSE /\ ii = 0 /\ opened = 0
  /\ writable = TRUE /\ disk = <<>> /\ buffer = <<>>
  /\ \E slack \in SlackBytes : mem = Loaded(<<>>, slack)
  /\ CURRENT_STATE = Zeroed /\ NEXT_STATE = Zeroed
  /\ RUN_BIT = 0 /\ INSTRUCTION_COUNT = 0
  /\ instr = NoInstruction /\ stage = "idle"
  /\ command = "exited" /\ i = 0 /\ num_cycles = 0

-----------------------------------------------------------------------------
\* A new process: without a file it prints its usage and exits.
StartProcess(files) ==
  /\ ~Alive
  /\ process' = IF files = <<>> THEN "exited" ELSE "loading"
  /\ argv' = files /\ prog' = FALSE /\ ii' = 0 /\ opened' = 0
  /\ writable' \in BOOLEAN /\ buffer' = <<>> /\ UNCHANGED disk
  /\ \E slack \in SlackBytes : mem' = Loaded(<<>>, slack)
  /\ CURRENT_STATE' = Zeroed /\ NEXT_STATE' = Zeroed
  /\ RUN_BIT' = 0 /\ INSTRUCTION_COUNT' = 0
  /\ instr' = NoInstruction /\ stage' = "idle"
  /\ command' = "exited" /\ i' = 0 /\ num_cycles' = 0

Loading == process = "loading"
Contents == Files[Head(argv)].words
AtEnd == Loading /\ prog /\ ii = 4 * Len(Contents)

Fails ==
  /\ process' = "exited"
  /\ UNCHANGED <<argv, prog, ii, opened, writable, disk, buffer>>

\* Slip: memory is cleared for each file.
OpenProgram_Clears ==
  /\ Loading /\ argv # <<>> /\ ~prog
  /\ Head(argv) \in DOMAIN Files /\ opened < OpenMax
  /\ prog' = TRUE /\ ii' = 0 /\ opened' = opened + 1
  /\ \E slack \in SlackBytes : mem' = Loaded(<<>>, slack)
  /\ UNCHANGED <<CURRENT_STATE, NEXT_STATE, RUN_BIT, INSTRUCTION_COUNT, instr, stage, shellVars>>
  /\ UNCHANGED <<process, argv, writable, disk, buffer>>

OpenProgram ==
  /\ Loading /\ argv # <<>> /\ ~prog
  /\ Head(argv) \in DOMAIN Files /\ opened < OpenMax
  /\ prog' = TRUE /\ ii' = 0 /\ opened' = opened + 1
  /\ UNCHANGED <<vars, process, argv, writable, disk, buffer>>

CannotOpenProgram ==
  /\ Loading /\ argv # <<>> /\ ~prog
  /\ Head(argv) \notin DOMAIN Files \/ opened = OpenMax
  /\ Fails /\ UNCHANGED vars

LoadWord ==
  /\ Loading /\ prog /\ ii < 4 * Len(Contents)
  /\ mem' = mem_write_32(mem, TEXT.start + ii, Contents[1 + (ii \div 4)])
  /\ ii' = ii + 4
  /\ UNCHANGED <<CURRENT_STATE, NEXT_STATE, RUN_BIT, INSTRUCTION_COUNT, instr, stage, shellVars>>
  /\ UNCHANGED <<process, argv, prog, opened, writable, disk, buffer>>

\* Slip: what cannot be read is taken for the end of the file.
EndOfProgram_Lenient ==
  /\ AtEnd
  /\ CURRENT_STATE' = [CURRENT_STATE EXCEPT !.PC = TEXT.start]
  /\ argv' = Tail(argv) /\ prog' = FALSE
  /\ UNCHANGED <<NEXT_STATE, RUN_BIT, INSTRUCTION_COUNT, mem, instr, stage, shellVars>>
  /\ UNCHANGED <<process, ii, opened, writable, disk, buffer>>

\* The file stays open.
EndOfProgram ==
  /\ AtEnd /\ Files[Head(argv)].wellFormed
  /\ CURRENT_STATE' = [CURRENT_STATE EXCEPT !.PC = TEXT.start]
  /\ argv' = Tail(argv) /\ prog' = FALSE
  /\ UNCHANGED <<NEXT_STATE, RUN_BIT, INSTRUCTION_COUNT, mem, instr, stage, shellVars>>
  /\ UNCHANGED <<process, ii, opened, writable, disk, buffer>>

Malformed ==
  /\ AtEnd /\ ~Files[Head(argv)].wellFormed
  /\ Fails /\ UNCHANGED vars

-----------------------------------------------------------------------------
\* The end of initialize, and the opening of dumpsim, which empties it.
Initialized ==
  /\ Loading /\ argv = <<>>
  /\ NEXT_STATE' = CURRENT_STATE
  /\ RUN_BIT' = 1
  /\ UNCHANGED <<CURRENT_STATE, INSTRUCTION_COUNT, mem, instr, stage, i, num_cycles>>

Prompts ==
  /\ process' = "running" /\ command' = "prompt"
  /\ opened' = opened + 1
  /\ UNCHANGED <<argv, prog, ii, writable, buffer>>

\* Slips: NEXT_STATE keeps its zeros; dumpsim is opened to append.
HandOver_Stale ==
  /\ Loading /\ argv = <<>> /\ writable /\ opened < OpenMax
  /\ RUN_BIT' = 1
  /\ UNCHANGED <<CURRENT_STATE, NEXT_STATE, INSTRUCTION_COUNT, mem, instr, stage, i, num_cycles>>
  /\ Prompts /\ disk' = <<>>
HandOver_Appends ==
  writable /\ opened < OpenMax /\ Initialized /\ Prompts /\ UNCHANGED disk

HandOver == writable /\ opened < OpenMax /\ Initialized /\ Prompts /\ disk' = <<>>

CannotOpenDumpsim ==
  /\ ~writable \/ opened = OpenMax
  /\ Initialized /\ Fails /\ UNCHANGED command

LoaderStep ==
  \/ OpenProgram \/ CannotOpenProgram \/ LoadWord \/ EndOfProgram \/ Malformed
  \/ HandOver \/ CannotOpenDumpsim

-----------------------------------------------------------------------------
\* What several files amount to: word k is that of the last file long enough.
Overlay(files) ==
  LET Length(j) == Len(Files[files[j]].words)
      longest == Max({Length(j) : j \in DOMAIN files})
      Giver(k) == Max({j \in DOMAIN files : k <= Length(j)})
  IN  [k \in 1 .. longest |-> Files[files[Giver(k)]].words[k]]

\* The files a process can start with.
Startable(files) ==
  /\ files # <<>> /\ Len(files) < OpenMax
  /\ \A j \in DOMAIN files : files[j] \in DOMAIN Files /\ Files[files[j]].wellFormed
=============================================================================
