------------------------------ MODULE MainProofs ------------------------------
(***************************************************************************)
(* Theorems about sessions, for every set of files, every input and every    *)
(* number of sessions.                                                       *)
(***************************************************************************)
EXTENDS Main, ShellProofs

\* While a process loads its files the machine is at rest: cleared, but for PC.
AtRest ==
  /\ CURRENT_STATE \in {Zeroed, Reset} /\ NEXT_STATE \in CPU_State
  /\ INSTRUCTION_COUNT = 0 /\ instr = NoInstruction /\ stage = "idle"
  /\ i = 0 /\ num_cycles = 0

Reader ==
  /\ ii \in Nat /\ ii % 4 = 0
  /\ prog => Head(argv) \in DOMAIN Files /\ ii <= 4 * Len(Contents)

LoaderInv ==
  /\ mem \in [Backed -> Byte]
  /\ Loading => AtRest /\ Reader

SessionInv ==
  /\ LoaderInv
  /\ script \in Seq(Vocabulary)
  /\ process = "running" => IInv

-----------------------------------------------------------------------------
LEMMA RestTypes ==
  /\ Zeroed \in CPU_State /\ Reset \in CPU_State
  /\ Zeroed.PC % 4 = 0 /\ Reset.PC % 4 = 0
  /\ \A s \in {Zeroed, Reset} : /\ s.FLAG_N = 0 /\ s.FLAG_Z = 0
                                /\ [s EXCEPT !.PC = TEXT.start] = Reset
<1>1. 0 \in Dword
  BY Widths DEF Dword
<1>2. TEXT.start \in Dword /\ TEXT.start % 4 = 0
  BY MemoryAssumption, Widths DEF TEXT, Dword
<1>3. Reset \in CPU_State
  BY <1>1, <1>2 DEF Reset, CPU_State, Flag
<1>4. /\ Zeroed = [PC |-> 0, REGS |-> Reset.REGS, FLAG_N |-> 0, FLAG_Z |-> 0]
      /\ Reset = [PC |-> TEXT.start, REGS |-> Reset.REGS, FLAG_N |-> 0, FLAG_Z |-> 0]
  BY DEF Zeroed, Reset
<1>5. Zeroed \in CPU_State
  BY <1>1, <1>3, <1>4 DEF CPU_State, Flag
<1>6. \A s \in {Zeroed, Reset} : [s EXCEPT !.PC = TEXT.start] = Reset
  <2> DEFINE R == Reset.REGS
  <2>1. \A x, y : [[PC |-> x, REGS |-> R, FLAG_N |-> 0, FLAG_Z |-> 0] EXCEPT !.PC = y]
                  = [PC |-> y, REGS |-> R, FLAG_N |-> 0, FLAG_Z |-> 0]
    OBVIOUS
  <2>2. QED  BY <1>4, <2>1
<1>7. QED  BY <1>2, <1>3, <1>4, <1>5, <1>6 DEF Reset

LEMMA ContentsType ==
  ASSUME Head(argv) \in DOMAIN Files
  PROVE  Contents \in Seq(Word)
BY LoaderAssumption DEF Contents

-----------------------------------------------------------------------------
\* int arithmetic.

LEMMA FourDividesWord == \E m \in Nat \ {0} : WORD = 4 * m
<1>1. PICK k \in Nat \ {0} : BYTE = 2 * k
  BY WordsAssumption
<1>2. HALF = 4 * (k * k) /\ k * k \in Nat \ {0}
  BY <1>1 DEF HALF
<1>3. \A h \in Nat \ {0} : (4 * h) * (4 * h) = 4 * (h * (4 * h)) /\ h * (4 * h) \in Nat \ {0}
  OBVIOUS
<1>4. QED  BY <1>2, <1>3 DEF WORD

\* The ints are the numbers from 4 * -h to 4 * h - 1, and Int32 keeps them.
LEMMA IntRange ==
  \E h \in Int : /\ h > 0 /\ CInt = (0 - (2 * h)) .. ((2 * h) - 1)
                 /\ WORD = 4 * h /\ WORD \div 2 = 2 * h
<1>1. PICK m \in Nat \ {0} : WORD = 4 * m
  BY FourDividesWord
<1>2. WORD \div 2 = 2 * m
  BY <1>1
<1>3. QED  BY <1>1, <1>2 DEF CInt

LEMMA Int32Type ==
  ASSUME NEW v \in Int
  PROVE  Int32(v) \in CInt /\ (v \in CInt => Int32(v) = v)
<1>1. PICK h \in Int : /\ h > 0 /\ CInt = (0 - (2 * h)) .. ((2 * h) - 1)
                       /\ WORD = 4 * h /\ WORD \div 2 = 2 * h
  BY IntRange
<1>2. v % WORD \in 0 .. ((4 * h) - 1)
  <2>1. WORD \in Nat \ {0}
    BY <1>1
  <2>2. QED  BY <1>1, <2>1, DivMod
<1>3. Int32(v) \in CInt
  BY <1>1, <1>2 DEF Int32
<1>4. ASSUME v \in CInt, v >= 0 PROVE v % WORD = v
  BY <1>1, <1>4
<1>5. ASSUME v \in CInt, v < 0 PROVE v % WORD = v + WORD
  BY <1>1, <1>5
<1>6. QED  BY <1>1, <1>3, <1>4, <1>5 DEF Int32

-----------------------------------------------------------------------------
\* The steps that move the machine are those of Shell.

LEMMA ScanType ==
  ASSUME NEW input \in Seq(Vocabulary), NEW c \in Conversions
  PROVE  /\ Scan(c, input).value \in Int
         /\ Scan(c, input).rest \in Seq(Vocabulary)
<1>1. CASE input = <<>>
  BY <1>1 DEF Scan
<1>2. CASE input # <<>>
  <2>1. Head(input) \in Vocabulary /\ Tail(input) \in Seq(Vocabulary)
    BY <1>2
  <2>2. Numeral[Head(input)][c] \in
          [matches : BOOLEAN, value : Int, left : Seq(Vocabulary)]
    BY <2>1, MainAssumption
  <2>3. Numeral[Head(input)][c].left \o Tail(input) \in Seq(Vocabulary)
    BY <2>1, <2>2
  <2>4. QED  BY <1>2, <2>2, <2>3 DEF Scan
<1>3. QED  BY <1>1, <1>2

LEMMA ScanTwoType ==
  ASSUME NEW input \in Seq(Vocabulary), NEW c1 \in Conversions, NEW c2 \in Conversions
  PROVE  /\ ScanTwo(c1, c2, input).first \in Int
         /\ ScanTwo(c1, c2, input).second \in Int
         /\ ScanTwo(c1, c2, input).rest \in Seq(Vocabulary)
<1>1. /\ Scan(c1, input).value \in Int
      /\ Scan(c1, input).rest \in Seq(Vocabulary)
  BY ScanType
<1>2. /\ Scan(c2, Scan(c1, input).rest).value \in Int
      /\ Scan(c2, Scan(c1, input).rest).rest \in Seq(Vocabulary)
  BY <1>1, ScanType
<1>3. QED  BY <1>1, <1>2 DEF ScanTwo

\* What is left of the input is still words.
LEMMA ScriptStep ==
  ASSUME script \in Seq(Vocabulary), MainNext
  PROVE  script' \in Seq(Vocabulary)
<1>1. ASSUME NEW invocation \in Invocations, Start(invocation)
      PROVE  script' \in Seq(Vocabulary)
  BY <1>1, MainAssumption DEF Start
<1>2. script # <<>> => Arguments \in Seq(Vocabulary)
  BY DEF Arguments
<1>3. ASSUME GoCommand \/ RDumpCommand \/ PrintingCommand \/ QuitCommand
      PROVE  script' \in Seq(Vocabulary)
  BY <1>2, <1>3 DEF GoCommand, RDumpCommand, PrintingCommand, QuitCommand, Types
<1>4. ASSUME RunCommand PROVE script' \in Seq(Vocabulary)
  <2>1. Arguments \in Seq(Vocabulary) /\ script' = Scan("d", Arguments).rest
    BY <1>2, <1>4 DEF RunCommand, Types
  <2>2. QED  BY <2>1, ScanType DEF Conversions
<1>5. ASSUME InputCommand PROVE script' \in Seq(Vocabulary)
  <2>1. Arguments \in Seq(Vocabulary) /\ script' = ScanTwo("i", "x", Arguments).rest
    BY <1>2, <1>5 DEF InputCommand, Types
  <2>2. QED  BY <2>1, ScanTwoType DEF Conversions
<1>6. ASSUME MDumpCommand PROVE script' \in Seq(Vocabulary)
  <2>1. Arguments \in Seq(Vocabulary) /\ script' = ScanTwo("i", "i", Arguments).rest
    BY <1>2, <1>6 DEF MDumpCommand, Types
  <2>2. QED  BY <2>1, ScanTwoType DEF Conversions
<1>7. ASSUME \/ Load \/ EndOfInput \/ ToScreen \/ TurnToFile \/ ToFile \/ EndOfDump
             \/ MachineStep \/ Fault \/ Interrupt
      PROVE  UNCHANGED script
  BY <1>7 DEF Load, EndOfInput, ToScreen, TurnToFile, ToFile, EndOfDump, MachineStep, Fault,
              Interrupt, Dies, OnlyDump, mainVars
<1>8. QED  BY <1>1, <1>3, <1>4, <1>5, <1>6, <1>7 DEF MainNext, ProcessStep

\* Every step of a running session is a step of Shell, or leaves the machine alone.
LEMMA RunningStep ==
  ASSUME process = "running", script \in Seq(Vocabulary), MainNext
  PROVE  [Next]_vars
<1>1. process # "loading" /\ Alive
  BY DEF Alive
<1>2. ASSUME NEW invocation \in Invocations, Start(invocation) PROVE FALSE
  BY <1>1, <1>2 DEF Start, StartProcess
<1>3. ~Load
  BY <1>1 DEF Load, LoaderStep, OpenProgram, CannotOpenProgram, LoadWord, EndOfProgram,
              Malformed, HandOver, CannotOpenDumpsim, Initialized, AtEnd, Loading
<1>4. ASSUME GoCommand PROVE [Next]_vars
  BY <1>4 DEF GoCommand, Refused, Next
<1>5. ASSUME RunCommand PROVE [Next]_vars
  <2>1. Arguments \in Seq(Vocabulary)
    BY <1>5 DEF RunCommand, Types, Arguments
  <2>2. Int32(Scan("d", Arguments).value) \in RunSizes
    BY <2>1, ScanType, Int32Type, MainAssumption DEF Conversions
  <2>3. QED  BY <1>5, <2>2 DEF RunCommand, Refused, Next, Forgets
<1>6. ASSUME InputCommand PROVE [Next]_vars
  <2>1. Arguments \in Seq(Vocabulary)
    BY <1>6 DEF InputCommand, Types, Arguments
  <2>2. Trunc(ScanTwo("i", "x", Arguments).second) \in InputValues
    BY <2>1, ScanTwoType, TruncType, MainAssumption DEF Conversions
  <2>3. QED  BY <1>6, <2>2 DEF InputCommand, Next, Forgets
<1>7. ASSUME MachineStep PROVE [Next]_vars
  BY <1>7 DEF MachineStep, Next
<1>8. ASSUME QuitCommand \/ EndOfInput PROVE [Next]_vars
  BY <1>8 DEF QuitCommand, EndOfInput, Next
<1>9. ASSUME \/ RDumpCommand \/ PrintingCommand \/ MDumpCommand \/ ToScreen \/ TurnToFile
             \/ ToFile \/ EndOfDump \/ Fault \/ Interrupt
      PROVE  UNCHANGED vars
  BY <1>9 DEF RDumpCommand, PrintingCommand, MDumpCommand, ToScreen, TurnToFile, ToFile,
              EndOfDump, Fault, Interrupt, Dies, OnlyDump
<1>10. QED  BY <1>2, <1>3, <1>4, <1>5, <1>6, <1>7, <1>8, <1>9 DEF MainNext, ProcessStep

-----------------------------------------------------------------------------
\* The steps of the loader.

LEMMA StartStep ==
  ASSUME NEW names, StartProcess(names)
  PROVE  LoaderInv' /\ process' # "running"
<1>1. PICK slack \in SlackBytes : mem' = Loaded(<<>>, slack)
  BY DEF StartProcess
<1>2. mem' \in [Backed -> Byte]
  <2>1. <<>> \in Seq(Word)
    OBVIOUS
  <2>2. QED  BY <1>1, <2>1, LoadedType
<1>3. AtRest'
  BY RestTypes DEF StartProcess, AtRest
<1>4. Reader'
  BY DEF StartProcess, Reader
<1>5. QED  BY <1>2, <1>3, <1>4 DEF LoaderInv, StartProcess

LEMMA LoadStep ==
  ASSUME LoaderInv, LoaderStep
  PROVE  LoaderInv' /\ (process' = "running" => IInv')
<1>1. Loading /\ AtRest /\ Reader /\ mem \in [Backed -> Byte]
  BY DEF LoaderInv, LoaderStep, OpenProgram, CannotOpenProgram, LoadWord, EndOfProgram,
         Malformed, HandOver, CannotOpenDumpsim, Initialized, AtEnd
<1> USE <1>1
<1>2. ASSUME OpenProgram PROVE LoaderInv' /\ process' # "running"
  <2>1. Head(argv)' \in DOMAIN Files
    BY <1>2 DEF OpenProgram
  <2>2. Len(Contents') \in Nat
    BY <2>1, ContentsType, LoaderAssumption DEF Contents
  <2>3. Reader'
    BY <1>2, <2>1, <2>2 DEF OpenProgram, Reader
  <2>4. QED  BY <1>2, <2>3 DEF OpenProgram, LoaderInv, Loading, AtRest, vars, simVars, shellVars
<1>3. ASSUME CannotOpenProgram \/ Malformed PROVE LoaderInv' /\ process' # "running"
  BY <1>3 DEF CannotOpenProgram, Malformed, Fails, LoaderInv, Loading, vars, simVars
<1>4. ASSUME LoadWord PROVE LoaderInv' /\ process' # "running"
  <2>1. Contents \in Seq(Word) /\ ii \in Nat /\ ii % 4 = 0 /\ ii < 4 * Len(Contents)
    BY <1>4, ContentsType DEF LoadWord, Reader
  <2>2. 1 + (ii \div 4) \in 1 .. Len(Contents)
    <3>1. Len(Contents) \in Nat
      BY <2>1
    <3>2. \A n, k \in Nat : k < 4 * n => 1 + (k \div 4) \in 1 .. n
      BY SMT
    <3>3. QED  BY <2>1, <3>1, <3>2
  <2>3. Contents[1 + (ii \div 4)] \in Int
    BY <2>1, <2>2, Widths DEF Word
  <2>4. TEXT.start + ii \in Int
    <3>1. TEXT.start \in Nat
      BY MemoryAssumption DEF TEXT
    <3>2. QED  BY <2>1, <3>1
  <2>5. mem' \in [Backed -> Byte]
    BY <1>4, <2>3, <2>4, WriteType DEF LoadWord
  <2>6. Contents' = Contents
    BY <1>4 DEF LoadWord, Contents
  <2>7. Reader'
    BY <1>4, <2>1, <2>6 DEF LoadWord, Reader
  <2>8. QED
    BY <1>4, <2>5, <2>7 DEF LoadWord, LoaderInv, Loading, AtRest, shellVars
<1>5. ASSUME EndOfProgram PROVE LoaderInv' /\ process' # "running"
  <2>1. CURRENT_STATE' = Reset
    BY <1>5, RestTypes DEF EndOfProgram, AtRest
  <2>2. Reader'
    BY <1>5 DEF EndOfProgram, AtEnd, Reader
  <2>3. QED
    BY <1>5, <2>1, <2>2 DEF EndOfProgram, LoaderInv, Loading, AtRest, shellVars
<1>6. ASSUME CannotOpenDumpsim PROVE LoaderInv' /\ process' # "running"
  BY <1>6 DEF CannotOpenDumpsim, Initialized, Fails, LoaderInv, Loading
<1>7. ASSUME HandOver PROVE LoaderInv' /\ IInv'
  <2>1. /\ CURRENT_STATE' \in {Zeroed, Reset} /\ NEXT_STATE' = CURRENT_STATE'
        /\ RUN_BIT' = 1 /\ INSTRUCTION_COUNT' = 0 /\ mem' \in [Backed -> Byte]
        /\ instr' = NoInstruction /\ stage' = "idle" /\ command' = "prompt"
        /\ i' = 0 /\ num_cycles' = 0 /\ process' = "running"
    BY <1>7 DEF HandOver, Initialized, Prompts, AtRest
  <2>2. 0 \in Word
    BY Widths DEF Word
  <2>3. TypeOK'
    BY <2>1, <2>2, RestTypes DEF TypeOK
  <2>4. DoubleBuffer' /\ PCAligned' /\ FlagsExclusive' /\ BetweenCycles'
    BY <2>1, RestTypes DEF DoubleBuffer, PCAligned, FlagsExclusive, BetweenCycles
  <2>5. QED  BY <2>1, <2>3, <2>4 DEF IInv, LoaderInv, Loading
<1>8. QED  BY <1>2, <1>3, <1>4, <1>5, <1>6, <1>7 DEF LoaderStep

LEMMA SessionStep ==
  ASSUME SessionInv, [MainNext]_allVars
  PROVE  SessionInv'
<1>1. CASE UNCHANGED allVars
  <2>1. [Next]_vars
    BY <1>1 DEF allVars
  <2>2. UNCHANGED <<vars, process, argv, prog, ii, script>>
    BY <1>1 DEF allVars, loaderVars, mainVars
  <2>3. LoaderInv'
    BY <2>2 DEF SessionInv, LoaderInv, Loading, AtRest, Reader, Contents, vars, simVars, shellVars
  <2>4. QED  BY <2>1, <2>2, <2>3, IInvStep DEF SessionInv
<1>2. ASSUME MainNext PROVE script' \in Seq(Vocabulary)
  BY <1>2, ScriptStep DEF SessionInv
<1>3. CASE MainNext /\ process = "running"
  <2>1. IInv'
    BY <1>3, RunningStep, IInvStep DEF SessionInv
  <2>2. process' # "loading"
    BY <1>3 DEF MainNext, ProcessStep, Start, StartProcess, Alive, Load, LoaderStep, OpenProgram,
      CannotOpenProgram, LoadWord, EndOfProgram, Malformed, HandOver, CannotOpenDumpsim,
      Initialized, AtEnd, Loading, GoCommand, RunCommand, InputCommand, RDumpCommand,
      PrintingCommand, QuitCommand, EndOfInput, MDumpCommand, ToScreen, TurnToFile, ToFile,
      EndOfDump, MachineStep, Fault, Interrupt, Dies, Exits, OnlyDump, loaderVars
  <2>3. mem' \in [Backed -> Byte]
    BY <2>1 DEF IInv, TypeOK
  <2>4. QED  BY <1>2, <1>3, <2>1, <2>2, <2>3 DEF SessionInv, LoaderInv, Loading
<1>4. CASE MainNext /\ process # "running"
  <2>1. ASSUME NEW invocation \in Invocations, Start(invocation) PROVE SessionInv'
    BY <1>2, <1>4, <2>1, StartStep DEF Start, SessionInv
  <2>2. ASSUME Load PROVE SessionInv'
    BY <1>2, <1>4, <2>2, LoadStep DEF Load, SessionInv
  <2>3. ASSUME Interrupt PROVE SessionInv'
    BY <1>2, <1>4, <2>3
       DEF Interrupt, Dies, SessionInv, LoaderInv, Loading, vars, simVars
  <2>4. QED
    BY <1>4, <2>1, <2>2, <2>3 DEF MainNext, ProcessStep, GoCommand, RunCommand, InputCommand,
      RDumpCommand, PrintingCommand, QuitCommand, EndOfInput, MDumpCommand, ToScreen, TurnToFile,
      ToFile, EndOfDump, MachineStep, Fault, Types, Reading, In
<1>5. QED  BY <1>1, <1>3, <1>4

LEMMA InitSession == MainInit => SessionInv
<1> SUFFICES ASSUME MainInit PROVE SessionInv
  OBVIOUS
<1>1. mem \in [Backed -> Byte]
  <2>1. <<>> \in Seq(Word)
    OBVIOUS
  <2>2. QED  BY <2>1, LoadedType DEF MainInit, LoaderInit
<1>2. QED  BY <1>1 DEF MainInit, LoaderInit, SessionInv, LoaderInv, Loading

\* Whatever is loaded and typed, in whatever session, the machine a session
\* commands is sound: all that is proved of Shell holds of every session.
THEOREM EverySessionSound == MainSpec => []SessionSound
<1>1. MainInit => SessionInv
  BY InitSession
<1>2. SessionInv => SessionSound
  BY DEF SessionInv, SessionSound, IInv
<1>3. QED  BY <1>1, <1>2, SessionStep, PTL DEF MainSpec

-----------------------------------------------------------------------------
\* What is left of the input ends with the words from a command on.  The words
\* before it are what unmeant lines left, at least none.
Ahead(input, words, p) == p + (Len(input) - Len(words))
Kept(input, words, p) ==
  /\ Ahead(input, words, p) >= 1
  /\ \A q \in p .. Len(words) : input[q + (Len(input) - Len(words))] = words[q]

LEMMA IntNamed ==
  ASSUME NEW v \in Int, NEW n \in CInt, (n - v) % WORD = 0
  PROVE  Int32(v) = n
<1>1. PICK h \in Int : /\ h > 0 /\ CInt = (0 - (2 * h)) .. ((2 * h) - 1)
                       /\ WORD = 4 * h /\ WORD \div 2 = 2 * h
  BY IntRange
<1>2. WORD \in Nat \ {0}
  BY <1>1
<1>3. PICK q \in Int : n - v = (WORD * q) + 0
  <2> DEFINE m == n - v
  <2>1. m \in Int /\ m % WORD = 0
    BY <1>1
  <2> HIDE DEF m
  <2>2. m = (WORD * (m \div WORD)) + 0 /\ m \div WORD \in Int
    BY <1>2, <2>1, DivMod
  <2>3. QED  BY <2>2 DEF m
<1>4. n = Int32(n)
  BY <1>1, Int32Type
<1>5. n % WORD = v % WORD
  <2>1. /\ v = (WORD * (v \div WORD)) + (v % WORD) /\ v \div WORD \in Int
        /\ v % WORD \in 0 .. (WORD - 1)
    BY <1>2, DivMod
  <2> DEFINE a == v \div WORD
             r == v % WORD
  <2>2. n = (WORD * (a + q)) + r /\ a + q \in Int
    <3>1. a \in Int /\ r \in Int /\ WORD \in Int /\ n \in Int
      BY <1>1, <1>2, <2>1
    <3>2. \A w, x, y \in Int : w * (x + y) = (w * x) + (w * y)
      OBVIOUS
    <3>3. WORD * (a + q) = (WORD * a) + (WORD * q)
      BY <3>1, <3>2
    <3>4. v = (WORD * a) + r
      BY <2>1
    <3>5. WORD * a \in Int /\ WORD * q \in Int
      BY <3>1
    <3> HIDE DEF a, r
    <3>6. QED  BY <1>3, <3>1, <3>3, <3>4, <3>5
  <2>3. r = n % WORD
    <3>1. r \in 0 .. (WORD - 1)
      BY <2>1
    <3> HIDE DEF a, r
    <3>2. QED  BY <1>1, <1>2, <2>2, <3>1, DivModUnique
  <2>4. QED  BY <2>3
<1>6. QED  BY <1>4, <1>5 DEF Int32

LEMMA KeptInput ==
  ASSUME NEW input \in Seq(Vocabulary), NEW words \in Seq(Vocabulary),
         NEW p \in DOMAIN words, Kept(input, words, p)
  PROVE  /\ input # <<>> /\ Head(input) \in Vocabulary /\ Tail(input) \in Seq(Vocabulary)
         /\ Ahead(input, words, p) \in Nat
         /\ Ahead(input, words, p) = 1 => Head(input) = words[p]
         /\ \A q \in DOMAIN words : q >= p => Kept(input, words, q)
<1>1. PICK m \in Nat, n \in Nat : m = Len(input) /\ n = Len(words)
  OBVIOUS
<1>2. p \in 1 .. n /\ p + (m - n) >= 1 /\ \A q \in p .. n : input[q + (m - n)] = words[q]
  BY <1>1 DEF Kept, Ahead
<1>3. m >= 1 /\ input # <<>>
  BY <1>1, <1>2
<1>4. p + (m - n) = 1 => Head(input) = words[p]
  BY <1>2, <1>3
<1>5. ASSUME NEW q \in 1 .. n, q >= p PROVE Kept(input, words, q)
  BY <1>1, <1>2, <1>5 DEF Kept, Ahead
<1>6. QED  BY <1>1, <1>2, <1>3, <1>4, <1>5 DEF Ahead

LEMMA TailKept ==
  ASSUME NEW input \in Seq(Vocabulary), NEW words \in Seq(Vocabulary),
         NEW p \in DOMAIN words, Kept(input, words, p), Ahead(input, words, p) >= 2
  PROVE  /\ Kept(Tail(input), words, p)
         /\ Ahead(Tail(input), words, p) = Ahead(input, words, p) - 1
<1>1. PICK m \in Nat, n \in Nat : m = Len(input) /\ n = Len(words)
  OBVIOUS
<1>2. p \in 1 .. n /\ p + (m - n) >= 2 /\ \A q \in p .. n : input[q + (m - n)] = words[q]
  BY <1>1 DEF Kept, Ahead
<1>3. input # <<>> /\ Len(Tail(input)) = m - 1
  BY <1>1, <1>2
<1>4. ASSUME NEW q \in p .. n PROVE Tail(input)[q + ((m - 1) - n)] = words[q]
  <2>1. /\ q + ((m - 1) - n) \in 1 .. (m - 1)
        /\ (q + ((m - 1) - n)) + 1 = q + (m - n)
    BY <1>2
  <2>2. \A k \in 1 .. (m - 1) : Tail(input)[k] = input[k + 1]
    BY <1>1, <1>3
  <2>3. QED  BY <1>2, <2>1, <2>2
<1>5. QED  BY <1>1, <1>2, <1>3, <1>4 DEF Kept, Ahead

LEMMA LaterKept ==
  ASSUME NEW input \in Seq(Vocabulary), NEW words \in Seq(Vocabulary),
         NEW left \in Seq(Vocabulary), NEW p \in DOMAIN words, Kept(input, words, p)
  PROVE  Kept(left \o input, words, p)
<1>1. PICK m \in Nat, n \in Nat, l \in Nat : m = Len(input) /\ n = Len(words) /\ l = Len(left)
  OBVIOUS
<1>2. p \in 1 .. n /\ p + (m - n) >= 1 /\ \A q \in p .. n : input[q + (m - n)] = words[q]
  BY <1>1 DEF Kept, Ahead
<1>3. Len(left \o input) = l + m
  BY <1>1
<1>4. ASSUME NEW q \in p .. n PROVE (left \o input)[q + ((l + m) - n)] = words[q]
  <2>1. /\ q + (m - n) \in 1 .. m
        /\ q + ((l + m) - n) = l + (q + (m - n))
    BY <1>2
  <2>2. \A k \in 1 .. m : (left \o input)[l + k] = input[k]
    BY <1>1
  <2>3. QED  BY <1>2, <2>1, <2>2
<1>5. QED  BY <1>1, <1>2, <1>3, <1>4 DEF Kept, Ahead

\* No conversion takes a command's word, nor what is behind it.
LEMMA ScanKeeps ==
  ASSUME NEW input \in Seq(Vocabulary), NEW words \in Seq(Vocabulary),
         NEW p \in DOMAIN words, Kind[words[p]] # "invalid", NEW conv \in Conversions,
         Kept(input, words, p)
  PROVE  Kept(Scan(conv, input).rest, words, p)
<1>1. input # <<>> /\ Head(input) \in Vocabulary /\ Tail(input) \in Seq(Vocabulary)
  BY KeptInput
<1> DEFINE left == Numeral[Head(input)][conv].left
<1>2. left \in Seq(Vocabulary)
  BY <1>1, MainAssumption
<1>3. Scan(conv, input).rest = left \o Tail(input)
  BY <1>1 DEF Scan
<1>4. CASE Ahead(input, words, p) = 1
  <2>1. Head(input) = words[p]
    BY <1>4, KeptInput
  <2>2. left = <<Head(input)>>
    BY <1>1, <2>1, InputAssumption
  <2>3. <<Head(input)>> \o Tail(input) = input
    BY <1>1
  <2>4. QED  BY <1>3, <2>2, <2>3
<1>5. CASE Ahead(input, words, p) # 1
  <2>1. Ahead(input, words, p) >= 2
    <3>1. Ahead(input, words, p) \in Nat /\ Ahead(input, words, p) >= 1
      BY KeptInput DEF Kept
    <3>2. QED  BY <1>5, <3>1
  <2>2. Kept(Tail(input), words, p)
    BY <2>1, TailKept
  <2>3. QED  BY <1>1, <1>2, <1>3, <2>2, LaterKept
<1>6. QED  BY <1>4, <1>5

LEMMA ScanTwoKeeps ==
  ASSUME NEW input \in Seq(Vocabulary), NEW words \in Seq(Vocabulary),
         NEW p \in DOMAIN words, Kind[words[p]] # "invalid",
         NEW c1 \in Conversions, NEW c2 \in Conversions, Kept(input, words, p)
  PROVE  Kept(ScanTwo(c1, c2, input).rest, words, p)
<1> DEFINE rest == Scan(c1, input).rest
<1>1. rest \in Seq(Vocabulary)
  BY ScanType
<1>2. Kept(rest, words, p)
  BY ScanKeeps
<1>3. Kept(Scan(c2, rest).rest, words, p)
  <2> HIDE DEF rest
  <2>1. QED  BY <1>1, <1>2, ScanKeeps
<1>4. ScanTwo(c1, c2, input).rest \in {rest, Scan(c2, rest).rest}
  BY DEF ScanTwo
<1>5. QED  BY <1>2, <1>3, <1>4

\* A numeral that is a word of its own is taken whole.
LEMMA ScanWhole ==
  ASSUME NEW input \in Seq(Vocabulary), input # <<>>, NEW conv \in Conversions,
         Numeral[Head(input)][conv].matches, Numeral[Head(input)][conv].left = <<>>
  PROVE  /\ Scan(conv, input).ok
         /\ Scan(conv, input).value = Numeral[Head(input)][conv].value
         /\ Scan(conv, input).rest = Tail(input)
<1>1. <<>> \o Tail(input) = Tail(input)
  OBVIOUS
<1>2. QED  BY <1>1 DEF Scan

\* Reading on from a command at the head of the input.
LEMMA ReadOn ==
  ASSUME NEW input \in Seq(Vocabulary), NEW words \in Seq(Vocabulary),
         NEW p \in DOMAIN words, Kept(input, words, p), Ahead(input, words, p) = 1
  PROVE  /\ \A q \in DOMAIN words : q > p => Kept(Tail(input), words, q)
         /\ p + 1 \in DOMAIN words =>
              /\ Kept(Tail(input), words, p + 1) /\ Ahead(Tail(input), words, p + 1) = 1
              /\ Tail(input) # <<>> /\ Head(Tail(input)) = words[p + 1]
<1>1. p \in Int /\ \A q \in DOMAIN words : q \in Int
  OBVIOUS
<1>2. \A q \in DOMAIN words : Ahead(input, words, q) = 1 + (q - p)
  <2> DEFINE d == Len(input) - Len(words)
  <2>1. d \in Int
    OBVIOUS
  <2> HIDE DEF d
  <2>2. p + d = 1 /\ \A q : Ahead(input, words, q) = q + d
    BY DEF Ahead, d
  <2>3. QED  BY <1>1, <2>1, <2>2
<1>3. ASSUME NEW q \in DOMAIN words, q > p
      PROVE  /\ Kept(Tail(input), words, q)
             /\ Ahead(Tail(input), words, q) = q - p
  <2>1. Kept(input, words, q)
    BY <1>1, <1>3, KeptInput
  <2>2. Ahead(input, words, q) >= 2 /\ Ahead(input, words, q) - 1 = q - p
    <3>1. q \in Int /\ p \in Int /\ Ahead(input, words, q) = 1 + (q - p)
      BY <1>1, <1>2
    <3>2. QED  BY <1>3, <3>1
  <2>3. QED  BY <2>1, <2>2, TailKept
<1>4. ASSUME p + 1 \in DOMAIN words
      PROVE  /\ Kept(Tail(input), words, p + 1) /\ Ahead(Tail(input), words, p + 1) = 1
             /\ Tail(input) # <<>> /\ Head(Tail(input)) = words[p + 1]
  <2>1. p + 1 > p /\ (p + 1) - p = 1
    BY <1>1
  <2>2. Kept(Tail(input), words, p + 1) /\ Ahead(Tail(input), words, p + 1) = 1
    BY <1>3, <1>4, <2>1
  <2>3. Tail(input) \in Seq(Vocabulary)
    BY KeptInput
  <2>4. QED  BY <1>4, <2>2, <2>3, KeptInput
<1>5. QED  BY <1>3, <1>4

\* Words of a vocabulary that are commands, and those that are numerals.
LEMMA NotNumeral ==
  ASSUME NEW words \in Seq(Vocabulary), NEW q \in DOMAIN words, NEW conv \in Conversions,
         Kind[words[q]] # "invalid"
  PROVE  ~Numeral[words[q]][conv].matches
BY InputAssumption

\* run and its argument at the head of the input: the command meant is the one
\* that is executed, and what is behind it stays.
LEMMA MeantRun ==
  ASSUME NEW input \in Seq(Vocabulary), NEW words \in Seq(Vocabulary), NEW c,
         NEW p \in DOMAIN words, Kept(input, words, p), Ahead(input, words, p) = 1,
         Says(words, p, c), Kind[words[p]] = "run"
  PROVE  LET a == Scan("d", Tail(input))
         IN  /\ a.ok /\ c = <<"run", Int32(a.value)>>
             /\ \A q \in DOMAIN words :
                  q > p /\ Kind[words[q]] # "invalid" => Kept(a.rest, words, q)
<1> DEFINE a == Scan("d", Tail(input))
           n == Numeral[words[p + 1]]["d"]
<1>1. /\ p + 1 <= Len(words) /\ n.matches /\ n.left = <<>>
      /\ c = <<"run", c[2]>> /\ c[2] \in CInt /\ (c[2] - n.value) % WORD = 0
  <2>1. Len(<<"d">>) = 1 /\ DOMAIN <<"d">> = {1} /\ <<"d">>[1] = "d"
    OBVIOUS
  <2>2. QED  BY <2>1 DEF Says
<1>2. p + 1 \in DOMAIN words /\ p \in Int /\ p + 1 > p
  BY <1>1
<1>3. /\ Tail(input) # <<>> /\ Head(Tail(input)) = words[p + 1]
      /\ Kept(Tail(input), words, p + 1) /\ Ahead(Tail(input), words, p + 1) = 1
  BY <1>2, ReadOn
<1>4. Tail(input) \in Seq(Vocabulary) /\ "d" \in Conversions
  BY KeptInput DEF Conversions
<1>5. a.ok /\ a.value = n.value /\ a.rest = Tail(Tail(input))
  <2>1. n = Numeral[Head(Tail(input))]["d"]
    BY <1>3
  <2> HIDE DEF n
  <2>2. QED  BY <1>1, <1>3, <1>4, <2>1, ScanWhole
<1>6. Int32(a.value) = c[2]
  <2>1. a.value \in Int
    BY <1>4, ScanType
  <2> HIDE DEF a, n
  <2>2. QED  BY <1>1, <1>5, <2>1, IntNamed
<1>7. ASSUME NEW q \in DOMAIN words, q > p, Kind[words[q]] # "invalid"
      PROVE  Kept(a.rest, words, q)
  <2>1. q # p + 1
    BY <1>1, <1>4, <1>7, NotNumeral
  <2>2. q > p + 1
    BY <1>2, <1>7, <2>1
  <2>3. Kept(Tail(Tail(input)), words, q)
    BY <1>2, <1>3, <1>4, <2>2, ReadOn
  <2>4. QED  BY <1>5, <2>3
<1>8. QED  BY <1>1, <1>5, <1>6, <1>7

\* The same of the commands that read two numerals.
LEMMA MeantTwo ==
  ASSUME NEW input \in Seq(Vocabulary), NEW words \in Seq(Vocabulary),
         NEW p \in DOMAIN words, Kept(input, words, p), Ahead(input, words, p) = 1,
         NEW c1 \in Conversions, NEW c2 \in Conversions, p + 2 <= Len(words),
         Numeral[words[p + 1]][c1].matches, Numeral[words[p + 1]][c1].left = <<>>,
         Numeral[words[p + 2]][c2].matches, Numeral[words[p + 2]][c2].left = <<>>
  PROVE  LET a == ScanTwo(c1, c2, Tail(input))
         IN  /\ a.ok /\ a.first = Numeral[words[p + 1]][c1].value
             /\ a.second = Numeral[words[p + 2]][c2].value
             /\ \A q \in DOMAIN words :
                  q > p /\ Kind[words[q]] # "invalid" => Kept(a.rest, words, q)
<1> DEFINE m == Numeral[words[p + 1]][c1]
           n == Numeral[words[p + 2]][c2]
           one == Tail(input)
           two == Tail(Tail(input))
<1>1. /\ p + 1 \in DOMAIN words /\ p + 2 \in DOMAIN words
      /\ p \in Int /\ (p + 1) + 1 = p + 2
  OBVIOUS
<1>2. one \in Seq(Vocabulary)
  BY KeptInput
<1>3. /\ one # <<>> /\ Head(one) = words[p + 1]
      /\ Kept(one, words, p + 1) /\ Ahead(one, words, p + 1) = 1
  BY <1>1, ReadOn
<1>4. two \in Seq(Vocabulary)
  BY <1>1, <1>2, <1>3, KeptInput
<1>5. /\ two # <<>> /\ Head(two) = words[p + 2]
      /\ Kept(two, words, p + 2) /\ Ahead(two, words, p + 2) = 1
  <2>1. (p + 1) + 1 \in DOMAIN words
    BY <1>1
  <2> HIDE DEF one
  <2>2. /\ Tail(one) # <<>> /\ Head(Tail(one)) = words[(p + 1) + 1]
        /\ Kept(Tail(one), words, (p + 1) + 1) /\ Ahead(Tail(one), words, (p + 1) + 1) = 1
    BY <1>1, <1>2, <1>3, <2>1, ReadOn
  <2>3. QED  BY <1>1, <2>2 DEF one
<1>6. /\ Scan(c1, one).ok /\ Scan(c1, one).value = m.value /\ Scan(c1, one).rest = two
  <2>1. m = Numeral[Head(one)][c1] /\ m.matches /\ m.left = <<>>
    BY <1>3
  <2>2. two = Tail(one)
    OBVIOUS
  <2> HIDE DEF m, one, two
  <2>3. QED  BY <1>2, <1>3, <2>1, <2>2, ScanWhole
<1>7. /\ Scan(c2, two).ok /\ Scan(c2, two).value = n.value /\ Scan(c2, two).rest = Tail(two)
  <2>1. n = Numeral[Head(two)][c2] /\ n.matches /\ n.left = <<>>
    BY <1>5
  <2> HIDE DEF n, two
  <2>2. QED  BY <1>4, <1>5, <2>1, ScanWhole
<1>8. /\ ScanTwo(c1, c2, one).ok /\ ScanTwo(c1, c2, one).first = m.value
      /\ ScanTwo(c1, c2, one).second = n.value /\ ScanTwo(c1, c2, one).rest = Tail(two)
  <2> HIDE DEF m, n, one, two
  <2>1. QED  BY <1>6, <1>7 DEF ScanTwo
<1>9. ASSUME NEW q \in DOMAIN words, q > p, Kind[words[q]] # "invalid"
      PROVE  Kept(Tail(two), words, q)
  <2>1. q # p + 1 /\ q # p + 2
    BY <1>9, NotNumeral
  <2>2. q > p + 2
    BY <1>1, <1>9, <2>1
  <2>3. QED  BY <1>1, <1>4, <1>5, <2>2, ReadOn
<1>10. QED  BY <1>8, <1>9

-----------------------------------------------------------------------------
\* The commands meant so far have been executed; the words from the next one on
\* are still to be read.
FirstMeant(k) == [j \in 1 .. k |-> meant[j]]
Pending(v, k) ==
  /\ v.means = meant
  /\ k < Len(v.at) => Kept(script, v.words, v.at[k + 1])
  /\ Within(FirstMeant(k), executed)

InputInv ==
  /\ \E S : executed \in Seq(S)
  /\ Alive => \E v \in Invocations : \E k \in 0 .. Len(v.at) : Pending(v, k)

LEMMA Appended ==
  ASSUME NEW s, \E S : s \in Seq(S), NEW c
  PROVE  Append(s, c) # <<>> /\ \E S : Append(s, c) \in Seq(S)
<1>1. PICK S : s \in Seq(S)
  OBVIOUS
<1>2. s \in Seq(S \union {c})
  BY <1>1
<1>3. Append(s, c) \in Seq(S \union {c}) /\ Append(s, c) # <<>>
  BY <1>2
<1>4. QED  BY <1>3

\* Executing a command keeps the part of the meant ones that was executed, and
\* adds the next one to it if that is the command.
LEMMA WithinAppend ==
  ASSUME NEW m, NEW t, \E S : t \in Seq(S), NEW c, NEW k \in Nat,
         Within([j \in 1 .. k |-> m[j]], t)
  PROVE  /\ Within([j \in 1 .. k |-> m[j]], Append(t, c))
         /\ c = m[k + 1] => Within([j \in 1 .. (k + 1) |-> m[j]], Append(t, c))
<1>1. PICK S : t \in Seq(S)
  OBVIOUS
<1>2. PICK n \in Nat : n = Len(t) /\ DOMAIN t = 1 .. n
  BY <1>1
<1>3. /\ DOMAIN Append(t, c) = 1 .. (n + 1) /\ Append(t, c)[n + 1] = c
      /\ \A l \in 1 .. n : Append(t, c)[l] = t[l]
  <2>1. t \in Seq(S \union {c})
    BY <1>1
  <2>2. QED  BY <1>2, <2>1
<1>4. PICK f \in [1 .. k -> 1 .. n] :
        \A j \in 1 .. k : m[j] = t[f[j]] /\ \A l \in 1 .. (j - 1) : f[l] < f[j]
  BY <1>2 DEF Within
<1>5. Within([j \in 1 .. k |-> m[j]], Append(t, c))
  <2>1. f \in [1 .. k -> 1 .. (n + 1)]
    BY <1>2, <1>4
  <2>2. \A j \in 1 .. k : m[j] = Append(t, c)[f[j]]
    BY <1>3, <1>4
  <2> DEFINE s == [j \in 1 .. k |-> m[j]]
  <2>3. DOMAIN s = 1 .. k /\ \A j \in 1 .. k : s[j] = m[j]
    OBVIOUS
  <2>4. \A j \in 1 .. k : \A l \in 1 .. (j - 1) : f[l] < f[j]
    BY <1>4
  <2> HIDE DEF s
  <2>5. /\ f \in [DOMAIN s -> DOMAIN Append(t, c)]
        /\ \A j \in DOMAIN s : s[j] = Append(t, c)[f[j]] /\ \A l \in 1 .. (j - 1) : f[l] < f[j]
    BY <1>3, <2>1, <2>2, <2>3, <2>4
  <2>6. Within(s, Append(t, c))
    BY <2>5, Zenon DEF Within
  <2>7. QED  BY <2>6 DEF s
<1>6. ASSUME c = m[k + 1]
      PROVE  Within([j \in 1 .. (k + 1) |-> m[j]], Append(t, c))
  <2> DEFINE g == [j \in 1 .. (k + 1) |-> IF j = k + 1 THEN n + 1 ELSE f[j]]
  <2>1. \A j \in 1 .. (k + 1) : j = k + 1 \/ j \in 1 .. k
    OBVIOUS
  <2>2. /\ g[k + 1] = n + 1 /\ \A j \in 1 .. k : g[j] = f[j] /\ f[j] \in 1 .. n
    <3>1. k + 1 \in 1 .. (k + 1) /\ \A j \in 1 .. k : j \in 1 .. (k + 1) /\ j # k + 1
      OBVIOUS
    <3>2. \A j \in 1 .. k : f[j] \in 1 .. n
      BY <1>4
    <3>3. QED  BY <3>1, <3>2
  <2>3. g \in [1 .. (k + 1) -> 1 .. (n + 1)]
    BY <1>2, <2>1, <2>2
  <2>4. \A j \in 1 .. (k + 1) : m[j] = Append(t, c)[g[j]]
    <3> HIDE DEF g
    <3>1. QED  BY <1>3, <1>4, <1>6, <2>1, <2>2
  <2>5. ASSUME NEW j \in 1 .. (k + 1), NEW l \in 1 .. (j - 1)
        PROVE  g[l] < g[j]
    <3>1. l \in 1 .. k
      OBVIOUS
    <3> HIDE DEF g
    <3>2. g[l] = f[l] /\ f[l] \in 1 .. n
      BY <2>2, <3>1
    <3>3. CASE j = k + 1
      BY <1>2, <2>2, <3>2, <3>3
    <3>4. CASE j \in 1 .. k
      BY <1>4, <2>2, <3>2, <3>4
    <3>5. QED  BY <2>1, <3>3, <3>4
  <2> DEFINE s == [j \in 1 .. (k + 1) |-> m[j]]
  <2>6. DOMAIN s = 1 .. (k + 1) /\ \A j \in 1 .. (k + 1) : s[j] = m[j]
    OBVIOUS
  <2> HIDE DEF g, s
  <2>7. /\ g \in [DOMAIN s -> DOMAIN Append(t, c)]
        /\ \A j \in DOMAIN s : s[j] = Append(t, c)[g[j]] /\ \A l \in 1 .. (j - 1) : g[l] < g[j]
    BY <1>3, <2>3, <2>4, <2>5, <2>6
  <2>8. Within(s, Append(t, c))
    BY <2>7, Zenon DEF Within
  <2>9. QED  BY <2>8 DEF s
<1>7. QED  BY <1>5, <1>6

LEMMA SaidKinds ==
  ASSUME NEW words, NEW p, NEW c, Says(words, p, c)
  PROVE  Kind[words[p]] \in {"go", "rdump", "run", "mdump", "input"}
<1>1. \/ Kind[words[p]] \in {"go", "rdump"} \/ Kind[words[p]] = "run"
      \/ Kind[words[p]] = "mdump" \/ Kind[words[p]] = "input"
  BY Zenon DEF Says
<1>2. QED  BY <1>1

LEMMA InvocationShape ==
  ASSUME NEW v \in Invocations
  PROVE  /\ v.words \in Seq(Vocabulary) /\ Len(v.at) \in Nat /\ DOMAIN v.means = 1 .. Len(v.at)
         /\ \A k \in 1 .. Len(v.at) :
              /\ v.at[k] \in DOMAIN v.words /\ Says(v.words, v.at[k], v.means[k])
              /\ Kind[v.words[v.at[k]]] \in {"go", "rdump", "run", "mdump", "input"}
              /\ \A j \in 1 .. (k - 1) : v.at[j] < v.at[k]
<1>1. v.words \in Seq(Vocabulary) /\ v.at \in Seq(DOMAIN v.words) /\ DOMAIN v.means = DOMAIN v.at
  BY MainAssumption, InputAssumption
<1>2. Len(v.at) \in Nat /\ DOMAIN v.at = 1 .. Len(v.at)
  BY <1>1
<1>3. \A k \in 1 .. Len(v.at) :
        /\ v.at[k] \in DOMAIN v.words /\ Says(v.words, v.at[k], v.means[k])
        /\ \A j \in 1 .. (k - 1) : v.at[j] < v.at[k]
  <2>1. \A k \in DOMAIN v.at : v.at[k] \in DOMAIN v.words
    BY <1>1
  <2>2. QED  BY <1>2, <2>1, InputAssumption
<1>4. QED  BY <1>1, <1>2, <1>3, SaidKinds

\* What reading a command does to the input: behind an unmeant command the
\* words from the next meant one on stay, and a meant one is executed and taken
\* off with its arguments, whatever follows.
Consumes ==
  \A words \in Seq(Vocabulary) : \A p \in DOMAIN words :
    /\ Kind[words[p]] # "invalid" /\ Kept(Arguments, words, p) => Kept(script', words, p)
    /\ \A c : Kept(script, words, p) /\ Ahead(script, words, p) = 1 /\ Says(words, p, c) =>
         /\ executed' = Append(executed, c)
         /\ \A q \in DOMAIN words :
              q > p /\ Kind[words[q]] # "invalid" => Kept(script', words, q)

LEMMA CommandRead ==
  ASSUME InputInv, script \in Seq(Vocabulary), Alive, UNCHANGED meant, Consumes,
         executed' = executed \/ \E c : executed' = Append(executed, c)
  PROVE  InputInv'
<1>1. PICK v \in Invocations : \E k \in 0 .. Len(v.at) : Pending(v, k)
  BY DEF InputInv
<1>2. PICK k \in 0 .. Len(v.at) : Pending(v, k)
  BY <1>1
<1> DEFINE words == v.words
           n == Len(v.at)
           p == v.at[k + 1]
<1>3. k \in Nat /\ n \in Nat /\ words \in Seq(Vocabulary)
  BY InvocationShape
<1>4. v.means = meant /\ Within([j \in 1 .. k |-> meant[j]], executed)
  BY <1>2 DEF Pending, FirstMeant
<1>5. \E S : executed' \in Seq(S)
  <2>1. CASE executed' = executed
    BY <2>1 DEF InputInv
  <2>2. CASE \E c : executed' = Append(executed, c)
    BY <2>2, Appended DEF InputInv
  <2>3. QED  BY <2>1, <2>2
<1>6. Within([j \in 1 .. k |-> meant'[j]], executed')
  <2>1. ASSUME NEW c, executed' = Append(executed, c)
        PROVE  Within([j \in 1 .. k |-> meant[j]], executed')
    BY <1>3, <1>4, <2>1, WithinAppend DEF InputInv
  <2>2. QED  BY <1>4, <2>1
<1>7. ASSUME k < n => Kept(script', words, p) PROVE Pending(v, k)'
  BY <1>4, <1>6, <1>7 DEF Pending, FirstMeant
<1>8. CASE k = n
  BY <1>2, <1>3, <1>5, <1>7, <1>8 DEF InputInv
<1>9. CASE k # n
  <2>1. k < n /\ k + 1 \in 1 .. n
    BY <1>3, <1>9
  <2>2. /\ p \in DOMAIN words /\ Says(words, p, meant[k + 1]) /\ Kind[words[p]] # "invalid"
        /\ Kept(script, words, p)
    BY <1>2, <1>4, <2>1, InvocationShape DEF Pending
  <2>3. CASE Ahead(script, words, p) = 1
    <3>1. /\ executed' = Append(executed, meant[k + 1])
          /\ \A q \in DOMAIN words :
               q > p /\ Kind[words[q]] # "invalid" => Kept(script', words, q)
      BY <1>3, <2>2, <2>3, Zenon DEF Consumes
    <3>2. Within([j \in 1 .. (k + 1) |-> meant'[j]], executed')
      <4>1. Within([j \in 1 .. (k + 1) |-> meant[j]], executed')
        BY <1>3, <1>4, <3>1, WithinAppend DEF InputInv
      <4>2. QED  BY <4>1
    <3>3. ASSUME k + 1 < n PROVE Kept(script', words, v.at[(k + 1) + 1])
      <4>1. (k + 1) + 1 \in 1 .. n /\ k + 1 \in 1 .. (((k + 1) + 1) - 1)
        BY <1>3, <3>3
      <4>2. /\ v.at[(k + 1) + 1] \in DOMAIN words /\ Kind[words[v.at[(k + 1) + 1]]] # "invalid"
            /\ p < v.at[(k + 1) + 1]
        BY <4>1, InvocationShape
      <4>3. v.at[(k + 1) + 1] > p
        BY <1>3, <2>2, <4>2
      <4>4. QED  BY <3>1, <4>2, <4>3
    <3>4. Pending(v, k + 1)'
      BY <1>4, <3>2, <3>3 DEF Pending, FirstMeant
    <3>5. k + 1 \in 0 .. n
      BY <1>3, <2>1
    <3>6. QED  BY <1>5, <3>4, <3>5 DEF InputInv
  <2>4. CASE Ahead(script, words, p) # 1
    <3>1. Ahead(script, words, p) >= 2
      <4>1. Ahead(script, words, p) \in Nat /\ Ahead(script, words, p) >= 1
        BY <1>3, <2>2, KeptInput DEF Kept
      <4>2. QED  BY <2>4, <4>1
    <3>2. Kept(Arguments, words, p)
      BY <1>3, <2>2, <3>1, TailKept DEF Arguments
    <3>3. Kept(script', words, p)
      BY <1>3, <2>2, <3>2 DEF Consumes
    <3>4. QED  BY <1>2, <1>5, <1>7, <3>3 DEF InputInv
  <2>5. QED  BY <2>3, <2>4
<1>10. QED  BY <1>8, <1>9

\* Each command that is read does so.
LEMMA CommandsEffect ==
  ASSUME \/ GoCommand \/ RunCommand \/ InputCommand \/ RDumpCommand \/ PrintingCommand
         \/ MDumpCommand
  PROVE  /\ Alive /\ UNCHANGED <<meant, process>>
         /\ executed' = executed \/ \E c : executed' = Append(executed, c)
BY DEF GoCommand, RunCommand, InputCommand, RDumpCommand, PrintingCommand, MDumpCommand,
  Executes, Forgets, vars, loaderVars, fixedVars, historyVars, Types, Reading, Alive

LEMMA HeadMeant ==
  ASSUME script \in Seq(Vocabulary), NEW words \in Seq(Vocabulary), NEW p \in DOMAIN words,
         Kept(script, words, p), Ahead(script, words, p) = 1
  PROVE  Kind[words[p]] = Kind[Head(script)]
BY KeptInput

LEMMA WholeCommands ==
  ASSUME script \in Seq(Vocabulary),
         \/ GoCommand \/ RDumpCommand \/ PrintingCommand
  PROVE  Consumes
<1>1. script' = Arguments
  BY DEF GoCommand, RDumpCommand, PrintingCommand
<1>2. ASSUME NEW words \in Seq(Vocabulary), NEW p \in DOMAIN words, NEW c,
             Kept(script, words, p), Ahead(script, words, p) = 1, Says(words, p, c)
      PROVE  executed' = Append(executed, c)
  <2>1. Kind[words[p]] = Kind[Head(script)]
    BY <1>2, HeadMeant
  <2>2. CASE GoCommand
    <3>1. Kind[words[p]] = "go"
      BY <2>1, <2>2 DEF GoCommand, Types
    <3>2. c = <<"go">>
      BY <1>2, <3>1 DEF Says
    <3>3. QED  BY <2>2, <3>2 DEF GoCommand, Executes
  <2>3. CASE RDumpCommand
    <3>1. Kind[words[p]] = "rdump"
      BY <2>1, <2>3 DEF RDumpCommand, Types
    <3>2. c = <<"rdump">>
      BY <1>2, <3>1 DEF Says
    <3>3. QED  BY <2>3, <3>2 DEF RDumpCommand, Executes
  <2>4. CASE PrintingCommand
    <3>1. Kind[words[p]] \in {"help", "invalid"}
      BY <2>1, <2>4 DEF PrintingCommand, Types
    <3>2. Kind[words[p]] \notin {"go", "rdump", "run", "mdump", "input"}
      BY <3>1
    <3>3. QED  BY <1>2, <3>2, SaidKinds
  <2>5. QED  BY <2>2, <2>3, <2>4
<1>3. ASSUME NEW words \in Seq(Vocabulary), NEW p \in DOMAIN words,
             Kept(script, words, p), Ahead(script, words, p) = 1,
             NEW q \in DOMAIN words, q > p
      PROVE  Kept(script', words, q)
  BY <1>1, <1>3, ReadOn DEF Arguments
<1>4. QED  BY <1>1, <1>2, <1>3 DEF Consumes

LEMMA RunConsumes ==
  ASSUME script \in Seq(Vocabulary), RunCommand
  PROVE  Consumes
<1> DEFINE a == Scan("d", Arguments)
<1>1. /\ script # <<>> /\ Kind[Head(script)] = "run" /\ script' = a.rest
      /\ a.ok => executed' = Append(executed, <<"run", Int32(a.value)>>)
  BY DEF RunCommand, Types, Executes
<1>2. Arguments \in Seq(Vocabulary) /\ "d" \in Conversions
  BY <1>1 DEF Arguments, Conversions
<1>3. ASSUME NEW words \in Seq(Vocabulary), NEW p \in DOMAIN words,
             Kind[words[p]] # "invalid", Kept(Arguments, words, p)
      PROVE  Kept(script', words, p)
  BY <1>1, <1>2, <1>3, ScanKeeps
<1>4. ASSUME NEW words \in Seq(Vocabulary), NEW p \in DOMAIN words, NEW c,
             Kept(script, words, p), Ahead(script, words, p) = 1, Says(words, p, c)
      PROVE  /\ executed' = Append(executed, c)
             /\ \A q \in DOMAIN words :
                  q > p /\ Kind[words[q]] # "invalid" => Kept(script', words, q)
  <2>1. Kind[words[p]] = "run"
    BY <1>1, <1>4, HeadMeant
  <2>2. /\ a.ok /\ c = <<"run", Int32(a.value)>>
        /\ \A q \in DOMAIN words :
             q > p /\ Kind[words[q]] # "invalid" => Kept(a.rest, words, q)
    BY <1>4, <2>1, MeantRun DEF Arguments
  <2>3. QED  BY <1>1, <2>2
<1>5. QED  BY <1>3, <1>4 DEF Consumes

LEMMA InputConsumes ==
  ASSUME script \in Seq(Vocabulary), InputCommand
  PROVE  Consumes
<1> DEFINE a == ScanTwo("i", "x", Arguments)
<1>1. /\ script # <<>> /\ Kind[Head(script)] = "input" /\ script' = a.rest
      /\ a.ok => executed' = Append(executed, <<"input", Int32(a.first), Trunc(a.second)>>)
  BY DEF InputCommand, Types, Executes
<1>2. Arguments \in Seq(Vocabulary) /\ "i" \in Conversions /\ "x" \in Conversions
  BY <1>1 DEF Arguments, Conversions
<1>3. ASSUME NEW words \in Seq(Vocabulary), NEW p \in DOMAIN words,
             Kind[words[p]] # "invalid", Kept(Arguments, words, p)
      PROVE  Kept(script', words, p)
  BY <1>1, <1>2, <1>3, ScanTwoKeeps
<1>4. ASSUME NEW words \in Seq(Vocabulary), NEW p \in DOMAIN words, NEW c,
             Kept(script, words, p), Ahead(script, words, p) = 1, Says(words, p, c)
      PROVE  /\ executed' = Append(executed, c)
             /\ \A q \in DOMAIN words :
                  q > p /\ Kind[words[q]] # "invalid" => Kept(script', words, q)
  <2>1. Kind[words[p]] = "input"
    BY <1>1, <1>4, HeadMeant
  <2> DEFINE m == Numeral[words[p + 1]]["i"]
             n == Numeral[words[p + 2]]["x"]
  <2>2. /\ p + 2 <= Len(words) /\ m.matches /\ m.left = <<>> /\ n.matches /\ n.left = <<>>
        /\ c = <<"input", c[2], Trunc(n.value)>> /\ c[2] \in CInt
        /\ (c[2] - m.value) % WORD = 0
    <3>1. /\ Len(<<"i", "x">>) = 2 /\ DOMAIN <<"i", "x">> = {1, 2}
          /\ <<"i", "x">>[1] = "i" /\ <<"i", "x">>[2] = "x"
      OBVIOUS
    <3>2. QED  BY <1>4, <2>1, <3>1 DEF Says
  <2>3. /\ a.ok /\ a.first = m.value /\ a.second = n.value
        /\ \A q \in DOMAIN words :
             q > p /\ Kind[words[q]] # "invalid" => Kept(a.rest, words, q)
    <3> DEFINE b == ScanTwo("i", "x", Tail(script))
    <3>1. /\ b.ok /\ b.first = m.value /\ b.second = n.value
          /\ \A q \in DOMAIN words :
               q > p /\ Kind[words[q]] # "invalid" => Kept(b.rest, words, q)
      <4>1. /\ Kept(script, words, p) /\ Ahead(script, words, p) = 1 /\ p + 2 <= Len(words)
            /\ m.matches /\ m.left = <<>> /\ n.matches /\ n.left = <<>>
        BY <1>4, <2>2
      <4>2. QED  BY <1>2, <4>1, MeantTwo
    <3>2. b = a
      BY DEF Arguments
    <3> HIDE DEF a, b, m, n
    <3>3. QED  BY <3>1, <3>2
  <2>4. Int32(a.first) = c[2]
    <3>1. a.first \in Int
      BY <1>2, ScanTwoType
    <3> HIDE DEF a, m, n
    <3>2. QED  BY <2>2, <2>3, <3>1, IntNamed
  <2>5. QED  BY <1>1, <2>2, <2>3, <2>4
<1>5. QED  BY <1>3, <1>4 DEF Consumes

LEMMA MDumpConsumes ==
  ASSUME script \in Seq(Vocabulary), MDumpCommand
  PROVE  Consumes
<1> DEFINE a == ScanTwo("i", "i", Arguments)
<1>1. /\ script # <<>> /\ Kind[Head(script)] = "mdump" /\ script' = a.rest
      /\ a.ok => executed' = Append(executed, <<"mdump", Int32(a.first), Int32(a.second)>>)
  BY DEF MDumpCommand, Types, Executes
<1>2. Arguments \in Seq(Vocabulary) /\ "i" \in Conversions
  BY <1>1 DEF Arguments, Conversions
<1>3. ASSUME NEW words \in Seq(Vocabulary), NEW p \in DOMAIN words,
             Kind[words[p]] # "invalid", Kept(Arguments, words, p)
      PROVE  Kept(script', words, p)
  BY <1>1, <1>2, <1>3, ScanTwoKeeps
<1>4. ASSUME NEW words \in Seq(Vocabulary), NEW p \in DOMAIN words, NEW c,
             Kept(script, words, p), Ahead(script, words, p) = 1, Says(words, p, c)
      PROVE  /\ executed' = Append(executed, c)
             /\ \A q \in DOMAIN words :
                  q > p /\ Kind[words[q]] # "invalid" => Kept(script', words, q)
  <2>1. Kind[words[p]] = "mdump"
    BY <1>1, <1>4, HeadMeant
  <2> DEFINE m == Numeral[words[p + 1]]["i"]
             n == Numeral[words[p + 2]]["i"]
  <2>2. /\ p + 2 <= Len(words) /\ m.matches /\ m.left = <<>> /\ n.matches /\ n.left = <<>>
        /\ c = <<"mdump", c[2], c[3]>> /\ c[2] \in CInt /\ c[3] \in CInt
        /\ (c[2] - m.value) % WORD = 0 /\ (c[3] - n.value) % WORD = 0
    <3>1. /\ Len(<<"i", "i">>) = 2 /\ DOMAIN <<"i", "i">> = {1, 2}
          /\ <<"i", "i">>[1] = "i" /\ <<"i", "i">>[2] = "i"
      OBVIOUS
    <3>2. QED  BY <1>4, <2>1, <3>1 DEF Says
  <2>3. /\ a.ok /\ a.first = m.value /\ a.second = n.value
        /\ \A q \in DOMAIN words :
             q > p /\ Kind[words[q]] # "invalid" => Kept(a.rest, words, q)
    <3> DEFINE b == ScanTwo("i", "i", Tail(script))
    <3>1. /\ b.ok /\ b.first = m.value /\ b.second = n.value
          /\ \A q \in DOMAIN words :
               q > p /\ Kind[words[q]] # "invalid" => Kept(b.rest, words, q)
      <4>1. /\ Kept(script, words, p) /\ Ahead(script, words, p) = 1 /\ p + 2 <= Len(words)
            /\ m.matches /\ m.left = <<>> /\ n.matches /\ n.left = <<>>
        BY <1>4, <2>2
      <4>2. QED  BY <1>2, <4>1, MeantTwo
    <3>2. b = a
      BY DEF Arguments
    <3> HIDE DEF a, b, m, n
    <3>3. QED  BY <3>1, <3>2
  <2>4. Int32(a.first) = c[2] /\ Int32(a.second) = c[3]
    <3>1. a.first \in Int /\ a.second \in Int
      BY <1>2, ScanTwoType
    <3> HIDE DEF a, m, n
    <3>2. QED  BY <2>2, <2>3, <3>1, IntNamed
  <2>5. QED  BY <1>1, <2>2, <2>3, <2>4
<1>5. QED  BY <1>3, <1>4 DEF Consumes

LEMMA StartReads ==
  ASSUME NEW invocation \in Invocations, Start(invocation)
  PROVE  InputInv'
<1> DEFINE words == invocation.words
           none == [j \in 1 .. 0 |-> meant'[j]]
<1>1. script' = words /\ meant' = invocation.means /\ executed' = <<>>
  BY DEF Start
<1>2. words \in Seq(Vocabulary) /\ Len(invocation.at) \in Nat
  BY InvocationShape
<1>3. ASSUME 0 < Len(invocation.at) PROVE Kept(words, words, invocation.at[1])
  <2>1. 1 \in 1 .. Len(invocation.at)
    BY <1>2, <1>3
  <2>2. invocation.at[1] \in DOMAIN words
    BY <2>1, InvocationShape
  <2>3. PICK n \in Nat : n = Len(words) /\ DOMAIN words = 1 .. n
    BY <1>2
  <2>4. n - n = 0 /\ \A p \in 1 .. n : p + 0 >= 1 /\ \A q \in p .. n : q + 0 = q
    OBVIOUS
  <2>5. QED  BY <2>2, <2>3, <2>4 DEF Kept, Ahead
<1>4. Within(none, executed')
  <2> DEFINE f == [j \in 1 .. 0 |-> 1]
  <2>1. DOMAIN none = 1 .. 0 /\ ~(\E j : j \in 1 .. 0)
    OBVIOUS
  <2>2. f \in [DOMAIN none -> DOMAIN executed']
    BY <2>1
  <2> HIDE DEF f, none
  <2>3. QED  BY <2>1, <2>2 DEF Within
<1>5. Pending(invocation, 0)'
  <2>1. 0 + 1 = 1
    OBVIOUS
  <2>2. QED  BY <1>1, <1>3, <1>4, <2>1 DEF Pending, FirstMeant
<1>6. 0 \in 0 .. Len(invocation.at)
  BY <1>2
<1>7. \E S : executed' \in Seq(S)
  <2>1. <<>> \in Seq({})
    OBVIOUS
  <2>2. QED  BY <1>1, <2>1
<1>8. QED  BY <1>5, <1>6, <1>7 DEF InputInv

LEMMA InputStep ==
  ASSUME SessionInv, InputInv, [MainNext]_allVars
  PROVE  InputInv'
<1>1. script \in Seq(Vocabulary)
  BY DEF SessionInv
<1>2. ASSUME UNCHANGED <<script, meant, executed>>, Alive' => Alive PROVE InputInv'
  BY <1>2 DEF InputInv, Pending, FirstMeant
<1>3. CASE UNCHANGED allVars
  BY <1>2, <1>3 DEF allVars, loaderVars, mainVars, historyVars, fixedVars, Alive
<1>4. ASSUME NEW invocation \in Invocations, Start(invocation) PROVE InputInv'
  BY <1>4, StartReads
<1>5. CASE \/ GoCommand \/ RunCommand \/ InputCommand \/ RDumpCommand \/ PrintingCommand
           \/ MDumpCommand
  <2>1. Consumes
    BY <1>1, <1>5, WholeCommands, RunConsumes, InputConsumes, MDumpConsumes
  <2>2. QED  BY <1>1, <1>5, <2>1, CommandsEffect, CommandRead
<1>6. CASE QuitCommand
  <2>1. ~Alive' /\ executed' = executed
    BY <1>6 DEF QuitCommand, Exits, Alive, historyVars
  <2>2. QED  BY <2>1 DEF InputInv
<1>7. CASE Load
  <2>1. Alive /\ UNCHANGED <<script, meant, executed>>
    BY <1>7 DEF Load, LoaderStep, OpenProgram, CannotOpenProgram, LoadWord, EndOfProgram,
      Malformed, HandOver, CannotOpenDumpsim, Initialized, AtEnd, Loading, Alive, fixedVars
  <2>2. QED  BY <1>2, <2>1
<1>8. CASE \/ EndOfInput \/ ToScreen \/ TurnToFile \/ ToFile \/ EndOfDump
           \/ MachineStep \/ Fault \/ Interrupt
  <2>1. UNCHANGED <<script, meant, executed>> /\ (Alive' => Alive)
    BY <1>8 DEF EndOfInput, ToScreen, TurnToFile, ToFile, EndOfDump, MachineStep, Fault,
      Interrupt, Dies, Exits, OnlyDump, Alive, Reading, In, loaderVars, mainVars, historyVars,
      fixedVars
  <2>2. QED  BY <1>2, <2>1
<1>9. QED
  BY <1>3, <1>4, <1>5, <1>6, <1>7, <1>8 DEF MainNext, ProcessStep

\* Once the input is used up, nothing meant is pending any more.
LEMMA AllExecuted ==
  ASSUME InputInv, Alive, script = <<>>
  PROVE  Within(meant, executed)
<1>0. PICK v \in Invocations : \E k \in 0 .. Len(v.at) : Pending(v, k)
  BY DEF InputInv
<1>1. PICK k \in 0 .. Len(v.at) : Pending(v, k)
  BY <1>0
<1>2. /\ v.words \in Seq(Vocabulary) /\ Len(v.at) \in Nat
      /\ k \in 0 .. Len(v.at) /\ DOMAIN meant = 1 .. Len(v.at)
  BY <1>1, InvocationShape DEF Pending
<1>3. ASSUME k < Len(v.at) PROVE FALSE
  <2>1. k + 1 \in 1 .. Len(v.at)
    BY <1>2, <1>3
  <2>2. v.at[k + 1] \in DOMAIN v.words /\ Kept(script, v.words, v.at[k + 1])
    BY <1>1, <1>3, <2>1, InvocationShape DEF Pending
  <2>3. script \in Seq(Vocabulary)
    OBVIOUS
  <2>4. QED  BY <1>2, <2>2, <2>3, KeptInput
<1>4. k = Len(v.at)
  BY <1>2, <1>3
<1>5. Within([j \in 1 .. k |-> meant[j]], executed)
  BY <1>1 DEF Pending, FirstMeant
<1> DEFINE s == [j \in 1 .. k |-> meant[j]]
<1>6. DOMAIN s = DOMAIN meant /\ \A j \in DOMAIN meant : s[j] = meant[j]
  BY <1>2, <1>4
<1>7. QED  BY <1>5, <1>6 DEF Within

\* Whatever is typed between the commands, and however the conversions split
\* it, every command meant is executed, with its arguments and in its order.
THEOREM InputResynchronises == MainSpec => []Resynchronises
<1>1. MainInit => SessionInv /\ InputInv
  <2>1. ASSUME MainInit PROVE InputInv
    <3>1. ~Alive /\ executed = <<>> /\ executed \in Seq({})
      BY <2>1 DEF MainInit, LoaderInit, Alive
    <3>2. QED  BY <3>1 DEF InputInv
  <2>2. QED  BY <2>1, InitSession
<1>2. SessionInv /\ InputInv => Resynchronises
  BY AllExecuted DEF Resynchronises, Alive
<1>3. QED  BY <1>1, <1>2, SessionStep, InputStep, PTL DEF MainSpec
=============================================================================
