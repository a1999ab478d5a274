--------------------------------- MODULE Main ---------------------------------
(***************************************************************************)
(* The program as its user meets it: sessions one after the other, each a    *)
(* process started on some files and given some input.  Composes Loader,     *)
(* Shell and Simulator with get_command, which reads words and numerals with *)
(* scanf, and with the dumps, which go to the screen and to dumpsim.         *)
(***************************************************************************)
EXTENDS Loader

CONSTANTS
  Vocabulary,    \* the words that may be typed
  Invocations,   \* files of a command line, the words typed then, the commands meant
                 \* by some of them, and where these start
  Kind,          \* the command get_command takes a word for, by its first letters
  Numeral,       \* what a scanf conversion finds at the start of a word, and leaves of it
  MaxSessions    \* bound on the number of sessions

CInt == (0 - (WORD \div 2)) .. ((WORD \div 2) - 1)
Conversions == {"i", "d", "x"}      \* %i, %d and %PRIx64

ASSUME MainAssumption ==
  /\ RunSizes = CInt /\ InputValues = Dword
  /\ Numeral \in [Vocabulary -> [Conversions ->
                   [matches : BOOLEAN, value : Int, left : Seq(Vocabulary)]]]
  /\ \A v \in Invocations : v.files \in Seq(STRING) /\ v.words \in Seq(Vocabulary)
  /\ \A k \in 1 .. 3 : MEM_REGIONS[k].start + MEM_REGIONS[k].size <= DWORD - WORD

VARIABLES
  script,        \* the words of the input not read yet
  dump,          \* the loop of mdump: [loop, address, start, stop]
  sessions       \* how many there were

\* Seen by the properties only.
VARIABLES
  given, meant,       \* the session's files and the commands its user means
  kept, prompted,     \* what dumpsim held before, and whether the prompt was reached
  executed, promised  \* the commands executed, and the lines they promise in dumpsim

fixedVars == <<given, meant, kept>>
historyVars == <<fixedVars, prompted, executed, promised>>
mainVars == <<script, dump, sessions, historyVars>>
allVars == <<vars, loaderVars, mainVars>>

NoDump == [loop |-> "none", address |-> 0, start |-> 0, stop |-> 0]

MainInit ==
  /\ LoaderInit
  /\ script = <<>> /\ dump = NoDump /\ sessions = 0
  /\ given = <<>> /\ meant = <<>> /\ kept = <<>>
  /\ prompted = FALSE /\ executed = <<>> /\ promised = <<>>

Start(invocation) ==
  /\ sessions < MaxSessions
  /\ StartProcess(invocation.files)
  /\ script' = invocation.words
  /\ dump' = NoDump
  /\ sessions' = sessions + 1
  /\ given' = invocation.files /\ meant' = invocation.means /\ kept' = disk
  /\ prompted' = FALSE /\ executed' = <<>> /\ promised' = <<>>

Load ==
  /\ LoaderStep
  /\ prompted' = (process' = "running")
  /\ UNCHANGED <<script, dump, sessions, fixedVars, executed, promised>>

-----------------------------------------------------------------------------
\* Conversions.

\* Slip: no wrap at the end of the range.
Int32_Unbounded(v) == v

\* The int a number is converted to; int arithmetic wraps, built without optimisation.
Int32(v) == LET w == v % WORD IN IF w < WORD \div 2 THEN w ELSE w - WORD

\* One conversion: the part of the word that is not the numeral stays unread.
Scan(c, input) ==
  IF input = <<>> THEN [ok |-> FALSE, value |-> 0, rest |-> <<>>]
  ELSE LET n == Numeral[Head(input)][c]
       IN  [ok |-> n.matches, value |-> n.value, rest |-> n.left \o Tail(input)]

\* Slip: after a failed conversion the word it stopped at is dropped.
ScanTwo_Drops(c1, c2, input) ==
  LET a == Scan(c1, input)
      b == IF a.ok THEN Scan(c2, a.rest) ELSE a
      ok == a.ok /\ b.ok
  IN  [ok |-> ok, first |-> a.value, second |-> b.value,
       rest |-> IF ok \/ b.rest = <<>> THEN b.rest ELSE Tail(b.rest)]

\* Two of them; the second is not tried when the first fails.
ScanTwo(c1, c2, input) ==
  LET a == Scan(c1, input)
      b == Scan(c2, a.rest)
  IN  [ok |-> a.ok /\ b.ok, first |-> a.value, second |-> b.value,
       rest |-> IF a.ok THEN b.rest ELSE a.rest]

\* The command that the words from p on give, each numeral being a word.
Says(words, p, c) ==
  LET kind == Kind[words[p]]
      Numbers(convs) ==
        /\ p + Len(convs) <= Len(words)
        /\ \A k \in DOMAIN convs : /\ Numeral[words[p + k]][convs[k]].matches
                                  /\ Numeral[words[p + k]][convs[k]].left = <<>>
      IsInt(n, k, conv) ==
        n \in CInt /\ (n - Numeral[words[p + k]][conv].value) % WORD = 0
  IN  \/ kind \in {"go", "rdump"} /\ c = <<kind>>
      \/ /\ kind = "run" /\ Numbers(<<"d">>)
         /\ c = <<kind, c[2]>> /\ IsInt(c[2], 1, "d")
      \/ /\ kind = "mdump" /\ Numbers(<<"i", "i">>)
         /\ c = <<kind, c[2], c[3]>> /\ IsInt(c[2], 1, "i") /\ IsInt(c[3], 2, "i")
      \/ /\ kind = "input" /\ Numbers(<<"i", "x">>)
         /\ c = <<kind, c[2], Trunc(Numeral[words[p + 2]]["x"].value)>> /\ IsInt(c[2], 1, "i")

\* No command starts like a numeral, not even a hexadecimal one; a conversion that
\* fails at its first character takes nothing.  What is typed between the
\* commands meant may be anything.
ASSUME InputAssumption ==
  /\ \A w \in Vocabulary, conv \in Conversions :
       Kind[w] # "invalid" => ~Numeral[w][conv].matches /\ Numeral[w][conv].left = <<w>>
  /\ \A v \in Invocations :
       /\ v.at \in Seq(DOMAIN v.words) /\ DOMAIN v.means = DOMAIN v.at
       /\ \A k \in DOMAIN v.at : /\ Says(v.words, v.at[k], v.means[k])
                                /\ \A j \in 1 .. (k - 1) : v.at[j] < v.at[k]

-----------------------------------------------------------------------------
\* dumpsim.

Heading(start, stop)  == [kind |-> "memory", start |-> start, stop |-> stop]
MemoryLine(address, value) == [kind |-> "word", address |-> address, value |-> value]
Registers == [kind |-> "registers", count |-> INSTRUCTION_COUNT, state |-> CURRENT_STATE]

Written == disk \o buffer

\* A line stays in the stream's buffer until it overflows.
Prints(line) ==
  \/ buffer' = Append(buffer, line) /\ UNCHANGED disk
  \/ disk' = Append(Written, line) /\ buffer' = <<>>

Exits == process' = "exited" /\ disk' = Written /\ buffer' = <<>>

\* What mdump should list, seen from outside: each word from start to stop once.
\* Addresses are converted from int to uint64_t, so that negative ones are in no
\* region.  A dump that reaches the largest ints never gets to the file.
MaxInt == (WORD \div 2) - 1
Endless(start, stop) == start <= stop /\ stop >= MaxInt - ((MaxInt - start) % 4)
Listing(start, stop) ==
  [k \in 1 .. (IF start <= stop THEN ((stop - start) \div 4) + 1 ELSE 0) |->
     LET address == start + (4 * (k - 1))
     IN  MemoryLine(address, IF address < 0 THEN 0 ELSE mem_read_32(mem, address))]
Promise(start, stop) ==
  IF Endless(start, stop) THEN <<>> ELSE <<Heading(start, stop)>> \o Listing(start, stop)

-----------------------------------------------------------------------------
\* The commands.

Reading == process = "running" /\ AtPrompt /\ dump = NoDump
Types(kind) == Reading /\ script # <<>> /\ Kind[Head(script)] = kind
Arguments == Tail(script)

Executes(c) == executed' = Append(executed, c)
Forgets == UNCHANGED <<vars, executed>>

\* "Can't simulate, Simulator is halted"
Refused == RUN_BIT = 0 /\ UNCHANGED vars

GoCommand ==
  /\ Types("go")
  /\ script' = Arguments
  /\ Go \/ Refused
  /\ Executes(<<"go">>)
  /\ UNCHANGED <<loaderVars, dump, sessions, fixedVars, prompted, promised>>

RunCommand ==
  /\ Types("run")
  /\ LET a == Scan("d", Arguments)
         cycles == Int32(a.value)
     IN  /\ script' = a.rest
         /\ \/ a.ok /\ (Run(cycles) \/ Refused) /\ Executes(<<"run", cycles>>)
            \/ ~a.ok /\ Forgets
  /\ UNCHANGED <<loaderVars, dump, sessions, fixedVars, prompted, promised>>

\* register_no is taken to be in the register file, which the code does not check.
InputCommand ==
  /\ Types("input")
  /\ LET a == ScanTwo("i", "x", Arguments)
         register_no == Int32(a.first)
         register_value == Trunc(a.second)
     IN  /\ script' = a.rest
         /\ \/ /\ a.ok /\ register_no \in InputRegs
               /\ Input(register_no, register_value)
               /\ Executes(<<"input", register_no, register_value>>)
            \/ ~a.ok /\ Forgets
  /\ UNCHANGED <<loaderVars, dump, sessions, fixedVars, prompted, promised>>

RDumpCommand ==
  /\ Types("rdump")
  /\ script' = Arguments
  /\ Prints(Registers)
  /\ Executes(<<"rdump">>) /\ promised' = Append(promised, Registers)
  /\ UNCHANGED <<vars, process, argv, prog, ii, opened, writable>>
  /\ UNCHANGED <<dump, sessions, fixedVars, prompted>>

\* help, and "Invalid Command"
PrintingCommand ==
  /\ Types("help") \/ Types("invalid")
  /\ script' = Arguments
  /\ UNCHANGED <<vars, loaderVars, dump, sessions, historyVars>>

QuitCommand ==
  /\ Types("quit")
  /\ script' = Arguments
  /\ Quit /\ Exits
  /\ UNCHANGED <<argv, prog, ii, opened, writable, dump, sessions, historyVars>>

\* Slip: scanf's EOF is not looked at.
EndOfInput_Ignored ==
  /\ Reading /\ script = <<>>
  /\ UNCHANGED allVars

EndOfInput ==
  /\ Reading /\ script = <<>>
  /\ Quit /\ Exits
  /\ UNCHANGED <<argv, prog, ii, opened, writable, mainVars>>

-----------------------------------------------------------------------------
\* mdump: one loop prints to the screen, a second one to dumpsim.

MDumpCommand ==
  /\ Types("mdump")
  /\ LET a == ScanTwo("i", "i", Arguments)
         start == Int32(a.first)
         stop == Int32(a.second)
     IN  /\ script' = a.rest
         /\ \/ /\ a.ok
               /\ dump' = [loop |-> "screen", address |-> start, start |-> start, stop |-> stop]
               /\ Executes(<<"mdump", start, stop>>)
               /\ promised' = promised \o Promise(start, stop)
            \/ ~a.ok /\ UNCHANGED <<dump, executed, promised>>
  /\ UNCHANGED <<vars, loaderVars, sessions, fixedVars, prompted>>

In(loop) == process = "running" /\ dump.loop = loop

\* Slip: a dump whose range is not a multiple of 4 runs past its end.
More_NotEqual == dump.address # dump.stop

More == dump.address <= dump.stop
Advance == dump' = [dump EXCEPT !.address = Int32(@ + 4)]
OnlyDump ==
  UNCHANGED <<vars, process, argv, prog, ii, opened, writable, script, sessions, historyVars>>

ToScreen ==
  /\ In("screen") /\ More
  /\ Advance
  /\ OnlyDump /\ UNCHANGED <<disk, buffer>>

\* Slip: the second loop starts where the first one stopped.
TurnToFile_Continued ==
  /\ In("screen") /\ ~More
  /\ Prints(Heading(dump.start, dump.stop))
  /\ dump' = [dump EXCEPT !.loop = "file"]
  /\ OnlyDump

TurnToFile ==
  /\ In("screen") /\ ~More
  /\ Prints(Heading(dump.start, dump.stop))
  /\ dump' = [dump EXCEPT !.loop = "file", !.address = dump.start]
  /\ OnlyDump

\* The address is converted from int to uint64_t.
ToFile ==
  /\ In("file") /\ More
  /\ Prints(MemoryLine(dump.address, mem_read_32(mem, Trunc(dump.address))))
  /\ Advance
  /\ OnlyDump

EndOfDump ==
  /\ In("file") /\ ~More
  /\ dump' = NoDump
  /\ OnlyDump /\ UNCHANGED <<disk, buffer>>

-----------------------------------------------------------------------------
\* The machine at work, and the ends nobody asked for.

MachineStep ==
  /\ process = "running" /\ Work
  /\ UNCHANGED <<loaderVars, mainVars>>

Dies ==
  /\ process' = "killed" /\ buffer' = <<>>
  /\ UNCHANGED <<vars, argv, prog, ii, opened, writable, disk, mainVars>>

\* The signal of a fault; what the stream holds back is lost.
Fault == process = "running" /\ stage = "crashed" /\ Dies

\* Control+C, at any moment.
Interrupt == Alive /\ Dies

ProcessStep ==
  \/ Load
  \/ GoCommand \/ RunCommand \/ InputCommand \/ RDumpCommand \/ PrintingCommand
  \/ QuitCommand \/ EndOfInput
  \/ MDumpCommand \/ ToScreen \/ TurnToFile \/ ToFile \/ EndOfDump
  \/ MachineStep \/ Fault

MainNext ==
  \/ \E invocation \in Invocations : Start(invocation)
  \/ ProcessStep
  \/ Interrupt

MainSpec == MainInit /\ [][MainNext]_allVars

\* A process that is alive goes on; it need not be started, nor interrupted.  Each
\* of its steps moves it in one of these.
position == <<process, argv, prog, ii, script, dump, command, stage>>
FairMainSpec == MainSpec /\ WF_position(ProcessStep)

-----------------------------------------------------------------------------
(***************************************************************************)
(* Properties.                                                             *)
(***************************************************************************)

\* The variables of sessions keep their types; the addresses of a dump stay ints.
MainTypeOK ==
  /\ process \in {"off", "loading", "running", "exited", "killed"}
  /\ opened \in 0 .. OpenMax
  /\ ii \in Nat /\ ii % 4 = 0
  /\ dump.loop \in {"none", "screen", "file"}
  /\ {dump.address, dump.start, dump.stop} \subseteq CInt
  /\ mem \in [Backed -> Byte]

\* Whatever files are loaded, however many sessions there were and however they
\* ended, the machine a session commands is sound: initialize leaves nothing of
\* the load behind that a command or a cycle would trip over.
SessionSound ==
  process = "running" => TypeOK /\ DoubleBuffer /\ PCAligned /\ FlagsExclusive /\ BetweenCycles

\* Until the first command the machine is in the initial state of Shell for the
\* files' overlay: each file is loaded from the start of the text region over
\* the files before it, whose longer tails remain (shell.c:358, 386-390).
HandsOver ==
  process = "running" /\ executed = <<>> =>
    /\ \E slack \in SlackBytes : mem = Loaded(Overlay(given), slack)
    /\ CURRENT_STATE = Reset /\ NEXT_STATE = Reset
    /\ RUN_BIT = 1 /\ INSTRUCTION_COUNT = 0

\* The prompt is reached just when every file can be opened, is well formed, and
\* leaves a descriptor for dumpsim, which may be written: load_program closes no
\* file (shell.c:352, 364, 414).
StartsRight ==
  /\ prompted => Startable(given) /\ writable
  /\ process = "exited" /\ ~prompted => ~(Startable(given) /\ writable)

\* dumpsim belongs to the last session that reached its prompt: it has exactly
\* that session's dumps once the process has exited, the first of them when it
\* was killed, and what was there before when the start failed.
DumpFileRight ==
  IF prompted
  THEN /\ process = "exited" => disk = promised
       /\ process = "killed" => IsPrefix(disk, promised)
  ELSE disk = kept

\* When the shell reads a command, dumpsim and its stream hold what the commands
\* before promised: every word from low to high once, in order, though the
\* loop runs twice over an int that may wrap (shell.c:185, 192).
DumpsComplete ==
  process = "running" =>
    IF dump = NoDump THEN Written = promised ELSE IsPrefix(Written, promised)

\* s is t, or t without some of its elements.
Within(s, t) ==
  \E f \in [DOMAIN s -> DOMAIN t] :
    \A k \in DOMAIN s : s[k] = t[f[k]] /\ \A j \in 1 .. (k - 1) : f[j] < f[k]

\* A line that is not a command does not make the shell miss or misread the
\* commands of the lines that are: when the input is used up, they have all been
\* executed with their arguments, in order, though a failed scanf leaves part of
\* its line to be read as a command (shell.c:283, 303, 310).
Resynchronises ==
  process = "running" /\ script = <<>> => Within(meant, executed)

\* Every session comes to its end once its input does, unless it dumps up to the
\* largest ints, where the loop of mdump wraps for ever.  Meant for programs that
\* halt or fault.
SessionEnds ==
  Alive ~> (Ended \/ (dump # NoDump /\ Endless(dump.start, dump.stop)))

\* Why a dump ends, or does not: each step of its two loops leaves fewer lines to
\* go, unless it reaches the largest ints, which the first loop never gets past
\* (shell.c:185, 192).
LinesFrom(address) ==
  IF address <= dump.stop THEN 1 + ((dump.stop - address) \div 4) ELSE 0
DumpLeft ==
  IF dump.loop = "screen" THEN LinesFrom(dump.address) + LinesFrom(dump.start) + 2
  ELSE LinesFrom(dump.address) + 1
DumpAdvances ==
  [][process = "running" /\ process' = "running" /\ dump # NoDump =>
       IF Endless(dump.start, dump.stop) THEN dump'.loop = "screen"
       ELSE dump' = NoDump \/ (0 <= DumpLeft' /\ DumpLeft' < DumpLeft)]_allVars

\* "mdump low high - dump memory from low to high" (shell.c:126): a line of
\* dumpsim shows the word at its 32-bit address.
MDumpReadsMemory ==
  [][In("file") /\ More /\ Written' # Written =>
       Last(Written').value = mem_read_32(mem, dump.address % WORD)]_allVars
=============================================================================
