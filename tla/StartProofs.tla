----------------------------- MODULE StartProofs ------------------------------
(***************************************************************************)
(* Which starts succeed: the loader takes the files of the command line in   *)
(* order, opens each of them once and closes none.  And what the prompt is   *)
(* given: the machine reset, with the files laid one over the other.         *)
(***************************************************************************)
EXTENDS DumpProofs, WellFoundedInduction

\* The files of the command line that have been loaded.
Taken == Len(given) - Len(argv)
Good(file) == file \in DOMAIN Files /\ Files[file].wellFormed

LoaderProgress ==
  /\ given # <<>> /\ Taken \in Nat
  /\ \A k \in 1 .. Len(argv) : argv[k] = given[Taken + k]
  /\ \A j \in 1 .. Taken : Good(given[j])
  /\ opened = Taken + (IF prog THEN 1 ELSE 0)
  /\ prog => argv # <<>> /\ argv[1] \in DOMAIN Files

StartTypes ==
  /\ process \in {"off", "loading", "running", "exited", "killed"}
  /\ given \in Seq(STRING) /\ argv \in Seq(STRING) /\ prog \in BOOLEAN
  /\ opened \in 0 .. OpenMax
  /\ ii \in Nat /\ ii % 4 = 0

StartInv ==
  /\ StartTypes
  /\ Loading => LoaderProgress /\ ~prompted
  /\ process = "running" => prompted
  /\ StartsRight

-----------------------------------------------------------------------------
LEMMA HeadOf ==
  ASSUME StartTypes, argv # <<>>
  PROVE  /\ Head(argv) = argv[1] /\ Len(argv) \in Nat \ {0} /\ 1 \in 1 .. Len(argv)
         /\ Tail(argv) \in Seq(STRING) /\ Len(Tail(argv)) = Len(argv) - 1
         /\ \A k \in 1 .. Len(Tail(argv)) : Tail(argv)[k] = argv[k + 1]
BY DEF StartTypes

\* A file that is left is one of the command line's.
LEMMA NextOf ==
  ASSUME StartTypes, LoaderProgress, argv # <<>>
  PROVE  /\ Head(argv) = given[Taken + 1] /\ Taken + 1 \in DOMAIN given
         /\ Len(given) = Taken + Len(argv)
<1>1. Head(argv) = argv[1] /\ Len(argv) \in Nat \ {0} /\ 1 \in 1 .. Len(argv)
  BY HeadOf
<1>2. Len(given) \in Nat /\ DOMAIN given = 1 .. Len(given) /\ Taken \in Nat
  BY DEF StartTypes, LoaderProgress
<1>3. Len(given) = Taken + Len(argv)
  BY <1>1, <1>2 DEF Taken
<1>4. QED  BY <1>1, <1>2, <1>3 DEF LoaderProgress

LEMMA OpenStep ==
  ASSUME StartInv, OpenProgram, prompted' = (process' = "running"), UNCHANGED given
  PROVE  StartInv'
<1>1. Loading /\ StartTypes /\ LoaderProgress /\ argv # <<>> /\ prog = FALSE
  BY DEF StartInv, OpenProgram, StartTypes
<1>2. /\ prog' = TRUE /\ ii' = 0 /\ opened' = opened + 1 /\ opened < OpenMax
      /\ UNCHANGED <<process, argv>> /\ process = "loading" /\ process' = "loading"
      /\ Head(argv) \in DOMAIN Files
  BY DEF OpenProgram, Loading
<1>3. Head(argv) = argv[1]
  BY <1>1, HeadOf
<1>4. LoaderProgress'
  <2>1. Taken' = Taken /\ opened' = Taken + 1 /\ Taken \in Nat
    BY <1>1, <1>2 DEF Taken, LoaderProgress
  <2>2. argv'[1] \in DOMAIN Files
    BY <1>2, <1>3
  <2>3. QED  BY <1>1, <1>2, <2>1, <2>2 DEF LoaderProgress
<1>5. StartTypes'
  <2>1. opened \in 0 .. OpenMax /\ OpenMax \in Nat
    BY <1>1, LoaderAssumption DEF StartTypes
  <2>2. opened' \in 0 .. OpenMax
    BY <1>2, <2>1
  <2>3. prog' \in BOOLEAN
    BY <1>2
  <2>4. QED  BY <1>1, <1>2, <2>2, <2>3 DEF StartTypes
<1>6. ~prompted'
  BY <1>2
<1>7. QED  BY <1>2, <1>4, <1>5, <1>6 DEF StartInv, Loading, StartsRight

LEMMA EndProgramStep ==
  ASSUME StartInv, EndOfProgram, prompted' = (process' = "running"), UNCHANGED given
  PROVE  StartInv'
<1>1. Loading /\ StartTypes /\ LoaderProgress /\ argv # <<>> /\ prog
  BY DEF StartInv, EndOfProgram, AtEnd, LoaderProgress
<1>2. /\ prog' = FALSE /\ UNCHANGED <<process, opened, ii>> /\ argv' = Tail(argv)
      /\ process = "loading" /\ process' = "loading"
      /\ Files[Head(argv)].wellFormed
  BY <1>1 DEF EndOfProgram, Loading
<1>3. /\ Head(argv) = argv[1] /\ Len(argv) \in Nat \ {0}
      /\ Len(argv') = Len(argv) - 1 /\ argv' \in Seq(STRING)
      /\ \A k \in 1 .. Len(argv') : argv'[k] = argv[k + 1]
  BY <1>1, <1>2, HeadOf
<1>4. Head(argv) = given[Taken + 1] /\ Taken \in Nat /\ opened = Taken + 1
  BY <1>1, NextOf DEF LoaderProgress
<1>5. Taken' = Taken + 1
  BY <1>1, <1>3 DEF Taken, StartTypes
<1>6. LoaderProgress'
  <2>1. Good(given[Taken + 1])
    BY <1>1, <1>2, <1>3, <1>4 DEF Good, LoaderProgress
  <2>2. \A j \in 1 .. Taken' : Good(given'[j])
    BY <1>1, <1>4, <1>5, <2>1 DEF LoaderProgress
  <2>3. \A k \in 1 .. Len(argv') : argv'[k] = given'[Taken' + k]
    <3>1. \A k \in 1 .. Len(argv') : k + 1 \in 1 .. Len(argv)
      BY <1>3
    <3>2. \A k \in 1 .. Len(argv') : argv'[k] = given[Taken + (k + 1)]
      BY <1>1, <1>3, <3>1 DEF LoaderProgress
    <3>3. QED  BY <1>4, <1>5, <3>2
  <2>4. QED  BY <1>1, <1>2, <1>4, <1>5, <2>2, <2>3 DEF LoaderProgress, Good
<1>7. StartTypes'
  BY <1>1, <1>2, <1>3 DEF StartTypes
<1>8. ~prompted'
  BY <1>2
<1>9. QED  BY <1>2, <1>6, <1>7, <1>8 DEF StartInv, Loading, StartsRight

\* A failure has its reason in the command line.
LEMMA FailStep ==
  ASSUME StartInv, CannotOpenProgram \/ Malformed \/ CannotOpenDumpsim,
         prompted' = (process' = "running"), UNCHANGED given
  PROVE  StartInv'
<1>1. Loading /\ StartTypes /\ LoaderProgress /\ process' = "exited"
      /\ UNCHANGED <<argv, prog, ii, opened, writable>>
  BY DEF StartInv, CannotOpenProgram, Malformed, CannotOpenDumpsim, Initialized, Fails, AtEnd
<1>2. OpenMax \in Nat /\ Taken \in Nat
  BY <1>1, LoaderAssumption DEF LoaderProgress
<1>3. ASSUME CannotOpenProgram PROVE ~Startable(given)
  <2>1. argv # <<>> /\ ~prog /\ (Head(argv) \notin DOMAIN Files \/ opened = OpenMax)
    BY <1>3 DEF CannotOpenProgram
  <2>2. /\ Head(argv) = given[Taken + 1] /\ Taken + 1 \in DOMAIN given
        /\ Len(given) = Taken + Len(argv) /\ Len(argv) \in Nat \ {0}
    BY <1>1, <2>1, NextOf, HeadOf
  <2>3. opened = Taken
    BY <1>1, <1>2, <2>1 DEF LoaderProgress
  <2>4. QED  BY <1>2, <2>1, <2>2, <2>3 DEF Startable
<1>4. ASSUME Malformed PROVE ~Startable(given)
  <2>1. argv # <<>> /\ ~Files[Head(argv)].wellFormed
    BY <1>1, <1>4 DEF Malformed, AtEnd, LoaderProgress
  <2>2. Head(argv) = given[Taken + 1] /\ Taken + 1 \in DOMAIN given
    BY <1>1, <2>1, NextOf
  <2>3. QED  BY <2>1, <2>2 DEF Startable
<1>5. ASSUME CannotOpenDumpsim, writable PROVE ~Startable(given)
  <2>1. argv = <<>> /\ opened = OpenMax
    BY <1>5 DEF CannotOpenDumpsim, Initialized
  <2>2. ~prog
    BY <1>1, <2>1 DEF LoaderProgress
  <2>3. Len(given) = OpenMax
    BY <1>1, <1>2, <2>1, <2>2 DEF LoaderProgress, Taken, StartTypes
  <2>4. QED  BY <1>2, <2>3 DEF Startable
<1>6. ~(Startable(given)' /\ writable') /\ ~prompted'
  BY <1>1, <1>3, <1>4, <1>5 DEF Startable
<1>7. StartTypes'
  BY <1>1 DEF StartTypes
<1>8. QED  BY <1>1, <1>6, <1>7 DEF StartInv, Loading, StartsRight

\* The prompt is reached with every file taken and a descriptor to spare.
LEMMA HandOverStep ==
  ASSUME StartInv, HandOver, prompted' = (process' = "running"), UNCHANGED given
  PROVE  StartInv'
<1>1. Loading /\ StartTypes /\ LoaderProgress /\ argv = <<>> /\ opened < OpenMax
      /\ process' = "running" /\ opened' = opened + 1 /\ writable
      /\ UNCHANGED <<argv, prog, ii, writable>>
  BY DEF StartInv, HandOver, Initialized, Prompts
<1>2. OpenMax \in Nat /\ ~prog
  BY <1>1, LoaderAssumption DEF LoaderProgress
<1>3. Taken = Len(given) /\ opened = Len(given) /\ Len(given) \in Nat
  BY <1>1, <1>2 DEF LoaderProgress, Taken, StartTypes
<1>4. Startable(given)
  <2>1. \A j \in DOMAIN given : Good(given[j])
    BY <1>1, <1>3 DEF LoaderProgress, StartTypes
  <2>2. given # <<>> /\ Len(given) < OpenMax
    BY <1>1, <1>3 DEF LoaderProgress
  <2>3. QED  BY <2>1, <2>2 DEF Startable, Good
<1>5. Startable(given)' /\ writable' /\ prompted'
  BY <1>1, <1>4 DEF Startable
<1>6. StartTypes'
  <2>1. opened \in 0 .. OpenMax
    BY <1>1 DEF StartTypes
  <2>2. opened' \in 0 .. OpenMax
    BY <1>1, <1>2, <2>1
  <2>3. QED  BY <1>1, <2>2 DEF StartTypes
<1>7. QED  BY <1>1, <1>5, <1>6 DEF StartInv, Loading, StartsRight

LEMMA LoadWordStep ==
  ASSUME StartInv, LoadWord, prompted' = (process' = "running"), UNCHANGED given
  PROVE  StartInv'
<1>1. /\ Loading /\ StartTypes /\ LoaderProgress /\ process = "loading"
      /\ ii' = ii + 4 /\ UNCHANGED <<process, argv, prog, opened>>
  BY DEF StartInv, LoadWord, Loading
<1>2. StartTypes' /\ LoaderProgress'
  BY <1>1 DEF StartTypes, LoaderProgress, Taken, Good
<1>3. ~prompted' /\ process' = "loading"
  BY <1>1
<1>4. QED  BY <1>2, <1>3 DEF StartInv, Loading, StartsRight

\* No step of a session that has started touches what its start was.
LEMMA StartedStep ==
  ASSUME StartInv, ProcessStep \/ Interrupt, ~Load
  PROVE  StartInv'
<1>1. /\ process' \in {"running", "exited", "killed"}
      /\ UNCHANGED <<given, prompted, argv, prog, ii, opened, writable>>
      /\ process' # "killed" => process = "running"
  BY DEF ProcessStep, GoCommand, RunCommand, InputCommand, RDumpCommand, PrintingCommand,
    QuitCommand, EndOfInput, MDumpCommand, ToScreen, TurnToFile, ToFile, EndOfDump, MachineStep,
    Fault, Interrupt, Dies, Exits, Types, Reading, In, OnlyDump, loaderVars, mainVars,
    historyVars, fixedVars
<1>2. StartTypes'
  BY <1>1 DEF StartInv, StartTypes
<1>3. StartsRight'
  BY <1>1 DEF StartInv, StartsRight, Startable
<1>4. QED  BY <1>1, <1>2, <1>3 DEF StartInv, Loading

LEMMA NewProcessStep ==
  ASSUME NEW invocation \in Invocations, Start(invocation)
  PROVE  StartInv'
<1>1. invocation.files \in Seq(STRING)
  BY MainAssumption
<1>2. /\ process' = IF invocation.files = <<>> THEN "exited" ELSE "loading"
      /\ argv' = invocation.files /\ given' = invocation.files
      /\ prog' = FALSE /\ ii' = 0 /\ opened' = 0 /\ prompted' = FALSE
  BY DEF Start, StartProcess
<1>3. StartTypes'
  <2>1. 0 \in 0 .. OpenMax
    BY LoaderAssumption
  <2>2. 0 \in Nat /\ 0 % 4 = 0
    OBVIOUS
  <2>3. process' \in {"off", "loading", "running", "exited", "killed"}
    BY <1>2
  <2>4. QED  BY <1>1, <1>2, <2>1, <2>2, <2>3, Zenon DEF StartTypes
<1>4. ASSUME process' = "loading" PROVE LoaderProgress'
  <2>1. given' # <<>> /\ argv' = given' /\ Taken' = 0
    BY <1>1, <1>2, <1>4 DEF Taken
  <2>2. QED  BY <1>1, <1>2, <2>1 DEF LoaderProgress
<1>5. process' = "exited" => ~Startable(given)'
  BY <1>2 DEF Startable
<1>6. QED  BY <1>2, <1>3, <1>4, <1>5 DEF StartInv, Loading, StartsRight

LEMMA StartInvStep ==
  ASSUME StartInv, [MainNext]_allVars
  PROVE  StartInv'
<1>1. CASE UNCHANGED allVars
  BY <1>1 DEF allVars, loaderVars, mainVars, historyVars, fixedVars, StartInv, StartTypes,
              Loading, LoaderProgress, Taken, Good, StartsRight, Startable
<1>2. CASE Load
  <2>1. LoaderStep /\ prompted' = (process' = "running") /\ UNCHANGED given
    BY <1>2 DEF Load, fixedVars
  <2>2. QED
    BY <2>1, OpenStep, EndProgramStep, FailStep, HandOverStep, LoadWordStep DEF LoaderStep
<1>3. CASE (ProcessStep \/ Interrupt) /\ ~Load
  BY <1>3, StartedStep
<1>4. CASE \E invocation \in Invocations : Start(invocation)
  BY <1>4, NewProcessStep
<1>5. QED  BY <1>1, <1>2, <1>3, <1>4 DEF MainNext

LEMMA StartInvariant == MainSpec => [](SessionInv /\ DumpInv /\ StartInv)
<1>1. MainInit => StartInv
  <2>1. ASSUME MainInit PROVE StartInv
    <3>1. /\ process = "off" /\ argv = <<>> /\ given = <<>> /\ prog = FALSE /\ ii = 0
          /\ opened = 0 /\ prompted = FALSE
      BY <2>1 DEF MainInit, LoaderInit
    <3>2. StartTypes
      <4>1. 0 \in 0 .. OpenMax /\ <<>> \in Seq(STRING) /\ 0 \in Nat /\ 0 % 4 = 0
        BY LoaderAssumption
      <4>2. QED  BY <3>1, <4>1, Zenon DEF StartTypes
    <3>3. QED  BY <3>1, <3>2 DEF StartInv, Loading, StartsRight
  <2>2. QED  BY <2>1
<1>2. QED  BY <1>1, StartInvStep, DumpsInvariant, PTL DEF MainSpec

\* The prompt is reached by just those command lines whose files can all be
\* opened and read, with a descriptor left for dumpsim, which may be written, in
\* every session.
THEOREM StartsAreRight == MainSpec => []StartsRight
<1>1. StartInv => StartsRight
  BY DEF StartInv
<1>2. QED  BY <1>1, StartInvariant, PTL

\* The variables of sessions keep their types: no address of a dump leaves the
\* ints, and no process has more files open than it may.
THEOREM SessionTypes == MainSpec => []MainTypeOK
<1>1. SessionInv /\ DumpInv /\ StartInv => MainTypeOK
  <2>1. DumpInv => dump \in Dump
    BY DEF DumpInv, DumpTypes
  <2>2. QED  BY <2>1 DEF SessionInv, LoaderInv, StartInv, StartTypes, MainTypeOK, Dump
<1>2. QED  BY <1>1, StartInvariant, PTL
-----------------------------------------------------------------------------
\* Sets of naturals.

\* A set of naturals that is not empty has a least element.
LEMMA Least ==
  ASSUME NEW T, T \subseteq Nat, T # {}
  PROVE  \E x \in T : \A y \in T : x <= y
<1> DEFINE R == OpToRel(<, Nat)
<1>1. IsWellFoundedOn(R, Nat)
  BY NatLessThanWellFounded
<1>2. \A x, y \in Nat : x < y => <<x, y>> \in R
  BY DEF OpToRel
<1> HIDE DEF R
<1>3. PICK x \in T : \A y \in T : ~(<<y, x>> \in R)
  BY <1>1, WFMin
<1>4. ASSUME NEW y \in T PROVE x <= y
  <2>1. x \in Nat /\ y \in Nat
    OBVIOUS
  <2>2. ~(y < x)
    BY <1>2, <1>3, <2>1
  <2>3. QED  BY <2>1, <2>2
<1>5. QED  BY <1>4

LEMMA Greatest ==
  ASSUME NEW T, T \subseteq Nat, T # {}, NEW B \in Nat, \A x \in T : x <= B
  PROVE  \E x \in T : \A y \in T : y <= x
<1> DEFINE U == {u \in Nat : \A y \in T : y <= u}
<1>1. B \in U
  OBVIOUS
<1>2. PICK u \in U : \A v \in U : u <= v
  BY <1>1, Least
<1>3. u \in T
  <2>1. CASE u = 0
    <3>1. PICK y \in T : TRUE
      OBVIOUS
    <3>2. y \in Nat /\ y <= u
      OBVIOUS
    <3>3. QED  BY <2>1, <3>2
  <2>2. CASE u # 0
    <3>1. u - 1 \notin U
      <4>1. u \in Nat /\ ~(u <= u - 1)
        OBVIOUS
      <4>2. QED  BY <1>2, <4>1
    <3>2. PICK y \in T : ~(y <= u - 1)
      BY <1>2, <2>2, <3>1
    <3>3. y \in Nat /\ y <= u
      BY <1>2, <3>2
    <3>4. QED  BY <1>2, <3>2, <3>3
  <2>3. QED  BY <2>1, <2>2
<1>4. QED  BY <1>2, <1>3

\* Finitely many naturals have a greatest.
LEMMA Bounded ==
  ASSUME NEW n \in Nat, NEW f, \A j \in 1 .. n : f[j] \in Nat
  PROVE  \E b \in Nat : \A j \in 1 .. n : f[j] <= b
<1> DEFINE T == {m \in Nat : m <= n /\ ~(\E b \in Nat : \A j \in 1 .. m : f[j] <= b)}
<1>1. ASSUME T # {} PROVE FALSE
  <2>1. PICK m \in T : \A k \in T : m <= k
    BY <1>1, Least
  <2>2. m # 0
    BY <2>1
  <2>3. m - 1 \in Nat /\ m - 1 \notin T /\ m \in 1 .. n
    <3>1. m \in Nat /\ m <= n
      OBVIOUS
    <3>2. m - 1 \in Nat /\ m \in 1 .. n /\ ~(m <= m - 1)
      BY <2>2, <3>1
    <3> HIDE DEF T
    <3>3. QED  BY <2>1, <3>2
  <2>4. PICK b \in Nat : \A j \in 1 .. (m - 1) : f[j] <= b
    BY <2>1, <2>3
  <2>5. PICK c \in Nat : c >= b /\ c >= f[m]
    <3>1. f[m] \in Nat
      BY <2>3
    <3>2. PICK d \in Nat : d = f[m]
      BY <3>1
    <3>3. b + d \in Nat /\ b + d >= b /\ b + d >= d
      OBVIOUS
    <3>4. QED  BY <3>2, <3>3
  <2>6. \A j \in 1 .. m : f[j] <= c
    <3>1. TAKE j \in 1 .. m
    <3>2. CASE j = m
      BY <2>5, <3>2
    <3>3. CASE j # m
      <4>1. j \in 1 .. (m - 1) /\ j \in 1 .. n
        BY <2>3, <3>3
      <4>2. f[j] \in Nat /\ f[j] <= b
        BY <2>4, <4>1
      <4>3. QED  BY <2>5, <4>2
    <3>4. QED  BY <3>2, <3>3
  <2>7. QED  BY <2>1, <2>5, <2>6
<1>2. n \notin T
  BY <1>1
<1>3. QED  BY <1>2

\* Max is what its name says.
LEMMA MaxOf ==
  ASSUME NEW T, T \subseteq Nat, T # {}, NEW B \in Nat, \A x \in T : x <= B
  PROVE  Max(T) \in T /\ \A y \in T : y <= Max(T)
<1>1. \E x \in T : \A y \in T : x >= y
  <2>1. PICK x \in T : \A y \in T : y <= x
    BY Greatest
  <2>2. \A y \in T : x >= y
    BY <2>1
  <2>3. QED  BY <2>2
<1>2. Max(T) \in T /\ \A y \in T : Max(T) >= y
  BY <1>1, Zenon DEF Max
<1>3. QED  BY <1>2

-----------------------------------------------------------------------------
\* What is in memory while the files are loaded.

WordAt(a) == 1 + ((a - TEXT.start) \div 4)
WordsOf(j) == Files[given[j]].words

\* File j has put its word k into memory.
Gives(j, k) ==
  \/ j \in 1 .. Taken /\ k <= Len(WordsOf(j))
  \/ prog /\ j = Taken + 1 /\ 4 * k <= ii

\* A byte of a word that has been given is the last giver's.
Image(slack) ==
  \A a \in Backed :
    /\ a \in Slack => mem[a] = slack
    /\ a \notin Slack /\ (a < TEXT.start \/ \A j \in DOMAIN given : ~Gives(j, WordAt(a)))
         => mem[a] = 0
    /\ a \notin Slack /\ a >= TEXT.start =>
         \A j \in DOMAIN given :
           Gives(j, WordAt(a)) /\ (\A l \in DOMAIN given : Gives(l, WordAt(a)) => l <= j)
             => mem[a] = ByteOf(WordsOf(j)[WordAt(a)], (a - TEXT.start) % 4)

OverlayInv ==
  /\ Loading => /\ \E slack \in SlackBytes : Image(slack)
                /\ Taken # 0 => CURRENT_STATE = Reset
                /\ executed = <<>>
  /\ \E S : executed \in Seq(S)
  /\ process = "running" /\ executed = <<>> => command = "prompt"
  /\ HandsOver

LEMMA ByteInWord ==
  ASSUME NEW a \in Backed, a >= TEXT.start
  PROVE  /\ WordAt(a) \in Nat \ {0} /\ (a - TEXT.start) % 4 \in 0 .. 3
         /\ a = (TEXT.start + (4 * (WordAt(a) - 1))) + ((a - TEXT.start) % 4)
<1>1. PICK s \in Nat : s = TEXT.start /\ a \in Int
  BY MemoryAssumption, BackedType DEF TEXT
<1>2. PICK n \in Nat : n = a - s
  BY <1>1
<1>3. PICK q \in Nat, r \in 0 .. 3 : q = n \div 4 /\ r = n % 4 /\ n = (4 * q) + r
  <2>1. n \div 4 \in Nat /\ n % 4 \in 0 .. 3 /\ n = (4 * (n \div 4)) + (n % 4)
    OBVIOUS
  <2>2. QED  BY <2>1
<1>4. WordAt(a) = 1 + q /\ (a - TEXT.start) % 4 = r
  BY <1>1, <1>2, <1>3 DEF WordAt
<1>5. a = (s + (4 * q)) + r /\ 1 + q \in Nat \ {0} /\ (1 + q) - 1 = q
  <2>1. a = s + n
    BY <1>1, <1>2
  <2>2. n = (4 * q) + r
    BY <1>3
  <2>3. QED  BY <2>1, <2>2
<1>6. QED  BY <1>1, <1>4, <1>5

\* The word of an offset lies in a region or beside all of them.
LEMMA WholeWords ==
  ASSUME NEW address \in Nat, address % 4 = 0, NEW a \in address .. (address + 3)
  PROVE  /\ Mapped(address) => a \notin Slack
         /\ a \in Backed \ Slack => Mapped(address)
<1>1. \A r \in 1 .. 3 : /\ MEM_REGIONS[r].start \in Nat /\ MEM_REGIONS[r].size \in Nat
                        /\ MEM_REGIONS[r].start % 4 = 0 /\ MEM_REGIONS[r].size % 4 = 0
  BY MemoryAssumption
<1>2. \A x, s, z \in Nat :
        x % 4 = 0 /\ s % 4 = 0 /\ z % 4 = 0 /\ a \in x .. (x + 3) =>
          (s <= x /\ x < s + z <=> s <= a /\ a <= (s + z) - 1)
  OBVIOUS
<1>3. \A r \in 1 .. 3 :
        /\ address >= MEM_REGIONS[r].start
        /\ address < MEM_REGIONS[r].start + MEM_REGIONS[r].size
        <=> a \in Covers(MEM_REGIONS[r])
  <2>1. TAKE r \in 1 .. 3
  <2>2. PICK s \in Nat, z \in Nat : /\ s = MEM_REGIONS[r].start /\ z = MEM_REGIONS[r].size
                                    /\ s % 4 = 0 /\ z % 4 = 0
    BY <1>1
  <2>3. s <= address /\ address < s + z <=> s <= a /\ a <= (s + z) - 1
    BY <1>2, <2>2
  <2>4. a \in Covers(MEM_REGIONS[r]) <=> s <= a /\ a <= (s + z) - 1
    BY <2>2 DEF Covers
  <2>5. QED  BY <2>2, <2>3, <2>4
<1>4. Mapped(address) <=> a \in Covers(TEXT) \union Covers(DATA) \union Covers(STACK)
  BY <1>3 DEF Mapped, TEXT, DATA, STACK
<1>5. QED  BY <1>4 DEF Slack

LEMMA WordPlaced ==
  ASSUME NEW m \in [Backed -> Byte], NEW q \in Nat, NEW v, NEW a \in Backed
  PROVE  /\ \/ a \in Slack \/ a < TEXT.start \/ WordAt(a) # q + 1
            => mem_write_32(m, TEXT.start + (4 * q), v)[a] = m[a]
         /\ a \notin Slack /\ a >= TEXT.start /\ WordAt(a) = q + 1
            => mem_write_32(m, TEXT.start + (4 * q), v)[a] = ByteOf(v, (a - TEXT.start) % 4)
<1>1. PICK s \in Nat : s = TEXT.start /\ s % 4 = 0
  BY MemoryAssumption DEF TEXT
<1>2. PICK address \in Nat : address = s + (4 * q)
  BY <1>1
<1>3. a \in Int /\ address % 4 = 0
  BY <1>1, <1>2, BackedType
<1>4. ASSUME a \in address .. (address + 3)
      PROVE  a >= s /\ WordAt(a) = q + 1 /\ a - address = (a - s) % 4
  <2>1. PICK d \in 0 .. 3 : a = (s + (4 * q)) + d
    BY <1>2, <1>3, <1>4
  <2>2. (a - s) \div 4 = q /\ (a - s) % 4 = d
    BY <1>3, <2>1
  <2>3. a >= s /\ a - address = d /\ 1 + q = q + 1
    BY <1>2, <2>1
  <2>4. WordAt(a) = 1 + q
    BY <1>1, <2>2 DEF WordAt
  <2>5. QED  BY <2>2, <2>3, <2>4
<1>5. ASSUME a >= s, WordAt(a) = q + 1
      PROVE  a \in address .. (address + 3)
  BY <1>1, <1>2, <1>3, <1>5, ByteInWord
<1>6. a \in address .. (address + 3) =>
        /\ Mapped(address) => a \notin Slack
        /\ a \notin Slack => Mapped(address)
  BY <1>3, WholeWords
<1>7. mem_write_32(m, address, v)[a] =
        IF Mapped(address) /\ a \in address .. (address + 3) THEN ByteOf(v, a - address) ELSE m[a]
  BY DEF mem_write_32
<1>8. QED  BY <1>1, <1>2, <1>4, <1>5, <1>6, <1>7

LEMMA SameImage ==
  ASSUME NEW slack, Image(slack), UNCHANGED <<mem, given>>,
         \A k \in Nat \ {0} : \A j \in DOMAIN given : Gives(j, k)' <=> Gives(j, k)
  PROVE  Image(slack)'
<1>1. ASSUME NEW a \in Backed, a < TEXT.start \/ \A j \in DOMAIN given : ~Gives(j, WordAt(a))'
      PROVE  a < TEXT.start \/ \A j \in DOMAIN given : ~Gives(j, WordAt(a))
  BY <1>1, ByteInWord, BackedType, MemoryAssumption DEF TEXT
<1>2. ASSUME NEW a \in Backed, a >= TEXT.start, NEW j \in DOMAIN given, Gives(j, WordAt(a))',
             \A l \in DOMAIN given : Gives(l, WordAt(a))' => l <= j
      PROVE  Gives(j, WordAt(a)) /\ \A l \in DOMAIN given : Gives(l, WordAt(a)) => l <= j
  BY <1>2, ByteInWord
<1>3. QED  BY <1>1, <1>2 DEF Image, WordsOf

\* A word read from a file is the last to be put where it goes.
LEMMA ImageLoad ==
  ASSUME NEW slack, Image(slack), mem \in [Backed -> Byte], StartTypes, LoaderProgress,
         LoadWord, UNCHANGED given
  PROVE  Image(slack)'
<1>1. PICK n \in Nat : n = Taken + 1
  BY DEF LoaderProgress
<1>2. /\ prog /\ prog' /\ ii' = ii + 4 /\ UNCHANGED argv
      /\ mem' = mem_write_32(mem, TEXT.start + ii, Contents[1 + (ii \div 4)])
  BY DEF LoadWord
<1>3. PICK q \in Nat : ii = 4 * q /\ ii \div 4 = q
  <2>1. \A x \in Nat : x % 4 = 0 => x = 4 * (x \div 4) /\ x \div 4 \in Nat
    OBVIOUS
  <2>2. QED  BY <2>1 DEF StartTypes
<1>4. Head(argv) = given[n] /\ n \in DOMAIN given
  BY <1>1, <1>2, NextOf DEF LoaderProgress
<1>5. mem' = mem_write_32(mem, TEXT.start + (4 * q), WordsOf(n)[q + 1])
  BY <1>2, <1>3, <1>4 DEF Contents, WordsOf
<1>6. Taken' = Taken /\ Taken \in Nat /\ DOMAIN given \subseteq Nat
  BY <1>2 DEF LoaderProgress, Taken, StartTypes
<1>7. \A k \in Nat \ {0} : k # q + 1 =>
        \A j \in DOMAIN given : Gives(j, k)' <=> Gives(j, k)
  <2>1. \A k \in Nat : k # q + 1 => (4 * k <= (4 * q) + 4 <=> 4 * k <= 4 * q)
    OBVIOUS
  <2>2. QED  BY <1>2, <1>3, <1>6, <2>1 DEF Gives, WordsOf
<1>8. Gives(n, q + 1)' /\ \A j \in DOMAIN given : Gives(j, q + 1)' => j <= n
  BY <1>1, <1>2, <1>3, <1>6 DEF Gives
<1>9. SUFFICES ASSUME NEW a \in Backed
      PROVE  /\ a \in Slack => mem'[a] = slack
             /\ a \notin Slack /\ (a < TEXT.start
                                   \/ \A j \in DOMAIN given : ~Gives(j, WordAt(a))')
                  => mem'[a] = 0
             /\ a \notin Slack /\ a >= TEXT.start =>
                  \A j \in DOMAIN given :
                    /\ Gives(j, WordAt(a))'
                    /\ \A l \in DOMAIN given : Gives(l, WordAt(a))' => l <= j
                    => mem'[a] = ByteOf(WordsOf(j)[WordAt(a)], (a - TEXT.start) % 4)
  BY DEF Image, WordsOf
<1>10. CASE a \in Slack \/ a < TEXT.start \/ WordAt(a) # q + 1
  <2>1. mem'[a] = mem[a]
    BY <1>5, <1>10, WordPlaced
  <2>2. a \in Slack => mem'[a] = slack
    BY <2>1 DEF Image
  <2>3. CASE a \notin Slack /\ a < TEXT.start
    <3>1. mem'[a] = 0 /\ ~(a >= TEXT.start)
      BY <2>1, <2>3, BackedType, MemoryAssumption DEF Image, TEXT
    <3>2. QED  BY <2>3, <3>1
  <2>4. CASE a \notin Slack /\ a >= TEXT.start
    <3>1. WordAt(a) \in Nat \ {0} /\ WordAt(a) # q + 1 /\ ~(a < TEXT.start)
      BY <1>10, <2>4, ByteInWord, BackedType, MemoryAssumption DEF TEXT
    <3>2. \A j \in DOMAIN given : Gives(j, WordAt(a))' <=> Gives(j, WordAt(a))
      BY <1>7, <3>1
    <3>3. QED  BY <2>1, <2>4, <3>1, <3>2 DEF Image
  <2>5. a < TEXT.start \/ a >= TEXT.start
    BY BackedType, MemoryAssumption DEF TEXT
  <2>6. QED  BY <2>2, <2>3, <2>4, <2>5
<1>11. CASE a \notin Slack /\ a >= TEXT.start /\ WordAt(a) = q + 1
  <2>1. mem'[a] = ByteOf(WordsOf(n)[WordAt(a)], (a - TEXT.start) % 4)
    BY <1>5, <1>11, WordPlaced
  <2>2. ~(a < TEXT.start) /\ ~\A j \in DOMAIN given : ~Gives(j, WordAt(a))'
    BY <1>4, <1>8, <1>11, BackedType, MemoryAssumption DEF TEXT
  <2>3. ASSUME NEW j \in DOMAIN given, Gives(j, WordAt(a))',
               \A l \in DOMAIN given : Gives(l, WordAt(a))' => l <= j
        PROVE  j = n
    BY <1>4, <1>6, <1>8, <1>11, <2>3
  <2>4. QED  BY <1>11, <2>1, <2>2, <2>3
<1>12. a \in Slack \/ a < TEXT.start \/ a >= TEXT.start
  BY BackedType, MemoryAssumption DEF TEXT
<1>13. QED  BY <1>10, <1>11, <1>12

\* Once every file is taken, memory is what their overlay would have left.
LEMMA Overlaid ==
  ASSUME NEW slack, Image(slack), mem \in [Backed -> Byte], StartTypes, Startable(given),
         ~prog, Taken = Len(given)
  PROVE  mem = Loaded(Overlay(given), slack)
<1> DEFINE Length(j) == Len(Files[given[j]].words)
           longest == Max({Length(j) : j \in DOMAIN given})
           Giver(k) == Max({j \in DOMAIN given : k <= Length(j)})
<1>1. PICK n \in Nat \ {0} : n = Len(given) /\ DOMAIN given = 1 .. n
  BY DEF Startable, StartTypes
<1>2. \A j \in 1 .. n : Length(j) \in Nat
  <2>1. \A j \in 1 .. n : Files[given[j]] \in [words : Seq(Word), wellFormed : BOOLEAN]
    BY <1>1, LoaderAssumption DEF Startable
  <2>2. QED  BY <2>1
<1>3. Overlay(given) = [k \in 1 .. longest |-> WordsOf(Giver(k))[k]]
  BY DEF Overlay, WordsOf
<1>4. /\ longest \in Nat /\ \A j \in 1 .. n : Length(j) <= longest
      /\ \E m \in 1 .. n : Length(m) = longest
  <2> DEFINE f == [j \in 1 .. n |-> Length(j)]
             T == {Length(j) : j \in DOMAIN given}
  <2> HIDE DEF Length
  <2>1. PICK b \in Nat : \A j \in 1 .. n : f[j] <= b
    <3>1. \A j \in 1 .. n : f[j] \in Nat
      BY <1>2
    <3> HIDE DEF f
    <3>2. QED  BY <3>1, Bounded
  <2>2. T \subseteq Nat /\ \A x \in T : x <= b
    BY <1>1, <1>2, <2>1
  <2>3. Length(1) \in T
    BY <1>1
  <2>4. \A j \in 1 .. n : Length(j) \in T
    BY <1>1
  <2> HIDE DEF T
  <2>5. Max(T) \in T /\ \A y \in T : y <= Max(T)
    BY <2>2, <2>3, MaxOf
  <2>6. QED  BY <1>1, <2>2, <2>4, <2>5 DEF T
<1>5. \A k \in 1 .. longest :
        /\ Giver(k) \in 1 .. n /\ k <= Length(Giver(k))
        /\ \A l \in 1 .. n : k <= Length(l) => l <= Giver(k)
  <2> HIDE DEF Length
  <2> HIDE DEF longest
  <2>1. TAKE k \in 1 .. longest
  <2> DEFINE T == {j \in DOMAIN given : k <= Length(j)}
  <2>2. T \subseteq Nat /\ T # {} /\ \A x \in T : x <= n
    BY <1>1, <1>2, <1>4
  <2> HIDE DEF T
  <2>3. Max(T) \in T /\ \A y \in T : y <= Max(T)
    BY <2>2, MaxOf
  <2>4. QED  BY <1>1, <2>3 DEF T
<1> HIDE DEF longest, Giver
<1>6. \A k \in Nat \ {0} : \A j \in 1 .. n : Gives(j, k) <=> k <= Length(j)
  BY <1>1 DEF Gives, WordsOf
<1> HIDE DEF Length
<1>7. Len(Overlay(given)) = longest
  BY <1>3, <1>4
<1>8. ASSUME NEW a \in Backed
      PROVE  mem[a] = Loaded(Overlay(given), slack)[a]
  <2>1. Loaded(Overlay(given), slack)[a] =
          CASE a \in Slack -> slack
            [] a \notin Slack /\ a >= TEXT.start /\ WordAt(a) <= longest ->
                 ByteOf(Overlay(given)[WordAt(a)], (a - TEXT.start) % 4)
            [] OTHER -> 0
    BY <1>7 DEF Loaded, WordAt
  <2>2. CASE a \in Slack
    BY <2>1, <2>2 DEF Image
  <2>3. CASE a \notin Slack /\ a >= TEXT.start /\ WordAt(a) <= longest
    <3>1. WordAt(a) \in 1 .. longest /\ WordAt(a) \in Nat \ {0}
      BY <1>4, <2>3, ByteInWord
    <3>2. PICK j \in 1 .. n : j = Giver(WordAt(a))
      BY <1>5, <3>1
    <3>3. Gives(j, WordAt(a)) /\ \A l \in DOMAIN given : Gives(l, WordAt(a)) => l <= j
      BY <1>1, <1>5, <1>6, <3>1, <3>2
    <3>4. mem[a] = ByteOf(WordsOf(j)[WordAt(a)], (a - TEXT.start) % 4)
      BY <1>1, <2>3, <3>3 DEF Image
    <3>5. Overlay(given)[WordAt(a)] = WordsOf(j)[WordAt(a)]
      BY <1>3, <3>1, <3>2
    <3>6. QED  BY <2>1, <2>3, <3>4, <3>5
  <2>4. CASE a \notin Slack /\ a >= TEXT.start /\ ~(WordAt(a) <= longest)
    <3>1. WordAt(a) \in Nat \ {0}
      BY <2>4, ByteInWord
    <3>2. \A j \in DOMAIN given : ~Gives(j, WordAt(a))
      BY <1>1, <1>2, <1>4, <1>6, <2>4, <3>1
    <3>3. mem[a] = 0
      BY <2>4, <3>2 DEF Image
    <3>4. QED  BY <2>1, <2>4, <3>3
  <2>5. CASE a \notin Slack /\ ~(a >= TEXT.start)
    <3>1. a \in Int /\ TEXT.start \in Int
      BY BackedType, MemoryAssumption DEF TEXT
    <3>2. a < TEXT.start
      BY <2>5, <3>1
    <3>3. mem[a] = 0
      BY <2>5, <3>2 DEF Image
    <3>4. QED  BY <2>1, <2>5, <3>3
  <2>6. QED  BY <2>2, <2>3, <2>4, <2>5
<1>9. Loaded(Overlay(given), slack) = [a \in Backed |-> Loaded(Overlay(given), slack)[a]]
  BY DEF Loaded
<1>10. QED  BY <1>8, <1>9

-----------------------------------------------------------------------------
\* The loader builds the image up file by file, and HandOver completes it.
LEMMA OverlayLoad ==
  ASSUME SessionInv, StartInv, OverlayInv, Load
  PROVE  OverlayInv'
<1>1. LoaderStep /\ UNCHANGED <<given, executed>>
  BY DEF Load, fixedVars
<1>2. Loading /\ LoaderProgress /\ StartTypes /\ AtRest /\ mem \in [Backed -> Byte]
  BY <1>1 DEF LoaderStep, OpenProgram, CannotOpenProgram, LoadWord, EndOfProgram, Malformed,
    HandOver, CannotOpenDumpsim, Initialized, AtEnd, StartInv, SessionInv, LoaderInv
<1>3. PICK slack \in SlackBytes : Image(slack)
  BY <1>2 DEF OverlayInv
<1>4. \E S : executed' \in Seq(S)
  BY <1>1 DEF OverlayInv
<1>5. ASSUME process' = "loading", Image(slack)', Taken' # 0 => CURRENT_STATE' = Reset
      PROVE  OverlayInv'
  BY <1>1, <1>2, <1>4, <1>5 DEF OverlayInv, Loading, HandsOver
<1>6. CASE OpenProgram
  <2>1. /\ ~prog /\ prog' /\ ii' = 0 /\ UNCHANGED <<process, argv, mem, CURRENT_STATE>>
    BY <1>2, <1>6 DEF OpenProgram, vars, simVars, StartTypes
  <2>2. Taken' = Taken
    BY <1>1, <2>1 DEF Taken
  <2>3. \A k \in Nat \ {0} : ~(4 * k <= 0)
    OBVIOUS
  <2>4. \A k \in Nat \ {0} : \A j \in DOMAIN given : Gives(j, k)' <=> Gives(j, k)
    BY <1>1, <2>1, <2>2, <2>3 DEF Gives, WordsOf
  <2>5. Image(slack)'
    BY <1>1, <1>3, <2>1, <2>4, SameImage
  <2>6. QED  BY <1>2, <1>5, <2>1, <2>2, <2>5 DEF OverlayInv, Loading
<1>7. CASE LoadWord
  <2>1. UNCHANGED <<process, argv, CURRENT_STATE>>
    BY <1>7 DEF LoadWord
  <2>2. Image(slack)'
    BY <1>1, <1>2, <1>3, <1>7, ImageLoad
  <2>3. QED  BY <1>1, <1>2, <1>5, <2>1, <2>2 DEF OverlayInv, Loading, Taken
<1>8. CASE EndOfProgram
  <2>1. /\ prog /\ ii = 4 * Len(Contents) /\ ~prog' /\ argv' = Tail(argv) /\ argv # <<>>
        /\ UNCHANGED <<process, mem>> /\ CURRENT_STATE' = [CURRENT_STATE EXCEPT !.PC = TEXT.start]
    BY <1>2, <1>8 DEF EndOfProgram, AtEnd, LoaderProgress
  <2>2. CURRENT_STATE' = Reset
    BY <1>2, <2>1, RestTypes DEF AtRest
  <2>3. PICK n \in Nat : n = Taken + 1 /\ Taken \in Nat
    BY <1>2 DEF LoaderProgress
  <2>4. Taken' = n /\ Head(argv) = given[n] /\ n \in DOMAIN given
    <3>1. Len(argv') = Len(argv) - 1 /\ Len(argv) \in Nat
      BY <1>2, <2>1, HeadOf
    <3>2. Taken' = Taken + 1
      BY <1>1, <1>2, <3>1 DEF Taken, StartTypes
    <3>3. QED  BY <1>2, <2>1, <2>3, <3>2, NextOf
  <2>5. Len(WordsOf(n)) \in Nat /\ ii = 4 * Len(WordsOf(n))
    <3>1. Head(argv) \in DOMAIN Files
      BY <1>2, <2>1, HeadOf DEF LoaderProgress
    <3>2. Len(Contents) \in Nat
      BY <3>1, ContentsType
    <3>3. Contents = WordsOf(n)
      BY <2>4 DEF Contents, WordsOf
    <3>4. QED  BY <2>1, <3>2, <3>3
  <2>6. \A k \in Nat \ {0} : 4 * k <= ii <=> k <= Len(WordsOf(n))
    BY <2>5
  <2>7. \A k \in Nat \ {0} : \A j \in DOMAIN given : Gives(j, k)' <=> Gives(j, k)
    <3>1. \A j \in DOMAIN given : j \in Nat /\ (j \in 1 .. n <=> j \in 1 .. Taken \/ j = n)
      BY <1>2, <2>3 DEF StartTypes
    <3>2. QED  BY <1>1, <2>1, <2>3, <2>4, <2>6, <3>1 DEF Gives, WordsOf
  <2>8. Image(slack)'
    BY <1>1, <1>3, <2>1, <2>7, SameImage
  <2>9. QED  BY <1>2, <1>5, <2>1, <2>2, <2>8 DEF Loading
<1>9. CASE CannotOpenProgram \/ Malformed \/ CannotOpenDumpsim
  <2>1. process' = "exited"
    BY <1>9 DEF CannotOpenProgram, Malformed, CannotOpenDumpsim, Fails
  <2>2. QED  BY <1>4, <2>1 DEF OverlayInv, Loading, HandsOver
<1>10. CASE HandOver
  <2>1. /\ argv = <<>> /\ process' = "running" /\ command' = "prompt" /\ RUN_BIT' = 1
        /\ NEXT_STATE' = CURRENT_STATE /\ UNCHANGED <<CURRENT_STATE, INSTRUCTION_COUNT, mem>>
    BY <1>10 DEF HandOver, Initialized, Prompts
  <2>2. Taken = Len(given) /\ ~prog /\ given # <<>>
    BY <1>2, <2>1 DEF Taken, LoaderProgress, StartTypes
  <2>3. StartInv'
    BY <1>1, <1>10, HandOverStep DEF Load
  <2>4. Startable(given)
    BY <1>1, <2>1, <2>3 DEF StartInv, StartsRight, Startable
  <2>5. mem' = Loaded(Overlay(given'), slack)
    BY <1>1, <1>2, <1>3, <2>1, <2>2, <2>4, Overlaid
  <2>6. CURRENT_STATE = Reset
    <3>1. Len(given) # 0
      BY <1>2, <2>2 DEF StartTypes
    <3>2. QED  BY <1>2, <2>2, <3>1 DEF OverlayInv
  <2>7. HandsOver'
    BY <1>2, <2>1, <2>5, <2>6 DEF HandsOver, AtRest
  <2>8. QED  BY <1>4, <2>1, <2>7 DEF OverlayInv, Loading
<1>11. QED  BY <1>1, <1>6, <1>7, <1>8, <1>9, <1>10 DEF LoaderStep

\* Nothing moves the machine before the first command has been executed.
LEMMA OverlayRunning ==
  ASSUME SessionInv, OverlayInv, ProcessStep \/ Interrupt, ~Load
  PROVE  OverlayInv'
<1>1. process' # "loading" /\ UNCHANGED given
  BY DEF ProcessStep, GoCommand, RunCommand, InputCommand, RDumpCommand, PrintingCommand,
    QuitCommand, EndOfInput, MDumpCommand, ToScreen, TurnToFile, ToFile, EndOfDump, MachineStep,
    Fault, Interrupt, Dies, Exits, Types, Reading, In, OnlyDump, loaderVars, mainVars,
    historyVars, fixedVars
<1>2. \/ \E c : executed' = Append(executed, c)
      \/ executed' = executed /\ (process' = "running" => process = "running"
                                   /\ UNCHANGED vars)
      \/ executed' = executed /\ MachineStep
  BY DEF ProcessStep, GoCommand, RunCommand, InputCommand, RDumpCommand, PrintingCommand,
    QuitCommand, EndOfInput, MDumpCommand, ToScreen, TurnToFile, ToFile, EndOfDump, MachineStep,
    Fault, Interrupt, Dies, Exits, Types, Reading, In, OnlyDump, loaderVars, mainVars,
    historyVars, fixedVars, Executes, Forgets
<1>3. CASE \E c : executed' = Append(executed, c)
  <2>1. executed' # <<>> /\ \E S : executed' \in Seq(S)
    BY <1>3, Appended DEF OverlayInv
  <2>2. QED  BY <1>1, <2>1 DEF OverlayInv, HandsOver, Loading
<1>4. CASE executed' = executed /\ (process' = "running" => process = "running" /\ UNCHANGED vars)
  <2>1. \E S : executed' \in Seq(S)
    BY <1>4 DEF OverlayInv
  <2>2. process' = "running" /\ executed' = <<>> => command' = "prompt"
    BY <1>4 DEF OverlayInv, vars, shellVars
  <2>3. HandsOver'
    BY <1>1, <1>4 DEF OverlayInv, HandsOver, vars, simVars
  <2>4. QED  BY <1>1, <2>1, <2>2, <2>3 DEF OverlayInv, Loading
<1>5. CASE executed' = executed /\ MachineStep
  <2>1. process = "running" /\ process' = "running" /\ Work /\ BetweenCycles
    BY <1>5 DEF MachineStep, loaderVars, SessionInv, IInv
  <2>2. ASSUME command = "prompt" PROVE FALSE
    <3>1. stage = "idle" /\ ~Continues
      BY <2>1, <2>2 DEF BetweenCycles, Continues
    <3>2. ~Execute
      BY <2>1, <3>1, HandlerEffect DEF SessionInv, IInv, Effect
    <3>3. QED  BY <2>1, <2>2, <3>1, <3>2 DEF Work, StartCycle, Process, EndCycle, Latch, Return
  <2>3. executed' # <<>>
    BY <1>5, <2>1, <2>2 DEF OverlayInv
  <2>4. \E S : executed' \in Seq(S)
    BY <1>5 DEF OverlayInv
  <2>5. QED  BY <1>1, <2>3, <2>4 DEF OverlayInv, HandsOver, Loading
<1>6. QED  BY <1>2, <1>3, <1>4, <1>5

LEMMA OverlayStart ==
  ASSUME NEW invocation \in Invocations, Start(invocation)
  PROVE  OverlayInv'
<1>1. PICK slack \in SlackBytes : mem' = Loaded(<<>>, slack)
  BY DEF Start, StartProcess
<1>2. /\ process' \in {"exited", "loading"} /\ argv' = given' /\ prog' = FALSE
      /\ executed' = <<>> /\ given' \in Seq(STRING)
  BY MainAssumption DEF Start, StartProcess
<1>3. Taken' = 0
  BY <1>2 DEF Taken
<1>4. Image(slack)'
  <2>1. \A j, k : ~Gives(j, k)'
    <3>1. 1 .. 0 = {}
      OBVIOUS
    <3>2. QED  BY <1>2, <1>3, <3>1 DEF Gives
  <2>2. ASSUME NEW a \in Backed
        PROVE  mem'[a] = IF a \in Slack THEN slack ELSE 0
    <3>1. ~(WordAt(a) <= 0) \/ ~(a >= TEXT.start)
      <4>1. ASSUME a >= TEXT.start PROVE ~(WordAt(a) <= 0)
        <5>1. WordAt(a) \in Nat \ {0}
          BY <4>1, ByteInWord
        <5>2. QED  BY <5>1
      <4>2. QED  BY <4>1
    <3>2. Len(<<>>) = 0
      OBVIOUS
    <3>3. QED  BY <1>1, <3>1, <3>2 DEF Loaded, WordAt
  <2>3. QED  BY <2>1, <2>2 DEF Image
<1>5. \E S : executed' \in Seq(S)
  <2>1. <<>> \in Seq({})
    OBVIOUS
  <2>2. QED  BY <1>2, <2>1
<1>6. QED  BY <1>2, <1>3, <1>4, <1>5 DEF OverlayInv, Loading, HandsOver

LEMMA OverlayStep ==
  ASSUME SessionInv, StartInv, OverlayInv, [MainNext]_allVars
  PROVE  OverlayInv'
<1>1. CASE UNCHANGED allVars
  BY <1>1 DEF allVars, vars, simVars, shellVars, loaderVars, mainVars, historyVars, fixedVars,
    OverlayInv, HandsOver, Loading, Image, Gives, WordsOf, Taken
<1>2. CASE Load
  BY <1>2, OverlayLoad
<1>3. CASE (ProcessStep \/ Interrupt) /\ ~Load
  BY <1>3, OverlayRunning
<1>4. CASE \E invocation \in Invocations : Start(invocation)
  BY <1>4, OverlayStart
<1>5. QED  BY <1>1, <1>2, <1>3, <1>4 DEF MainNext

LEMMA OverlayInvariant == MainSpec => [](SessionInv /\ StartInv /\ OverlayInv)
<1>1. MainInit => OverlayInv
  <2>1. ASSUME MainInit PROVE OverlayInv
    <3>1. process = "off" /\ executed = <<>>
      BY <2>1 DEF MainInit, LoaderInit
    <3>2. executed \in Seq({})
      BY <3>1
    <3>3. QED  BY <3>1, <3>2 DEF OverlayInv, Loading, HandsOver
  <2>2. QED  BY <2>1
<1>2. QED  BY <1>1, OverlayStep, StartInvariant, PTL DEF MainSpec

\* Until its first command every session is in the initial state of Shell for its
\* files' overlay, whatever the files, their number and their lengths are.
THEOREM FilesHandedOver == MainSpec => []HandsOver
<1>1. OverlayInv => HandsOver
  BY DEF OverlayInv
<1>2. QED  BY <1>1, OverlayInvariant, PTL

-----------------------------------------------------------------------------
\* A session is a behaviour of Shell: it starts where Shell does for the program
\* its files amount to, and takes steps of Shell or leaves its machine alone.
SessionsAreShells ==
  [][/\ process # "running" /\ process' = "running" /\ Overlay(given') \in Programs => Init'
     /\ process = "running" => [Next]_vars]_allVars

\* The state in which a session reaches its prompt.
LEMMA PromptState ==
  ASSUME SessionInv, StartInv, OverlayInv, OverlayInv', MainNext,
         process # "running", process' = "running"
  PROVE  /\ \E slack \in SlackBytes : mem' = Loaded(Overlay(given'), slack)
         /\ CURRENT_STATE' = Reset /\ NEXT_STATE' = Reset
         /\ RUN_BIT' = 1 /\ INSTRUCTION_COUNT' = 0
         /\ instr' = NoInstruction /\ stage' = "idle" /\ command' = "prompt"
         /\ i' = 0 /\ num_cycles' = 0
<1>1. Load /\ HandOver
  <2>1. ~(\E invocation \in Invocations : Start(invocation))
    BY DEF Start, StartProcess
  <2>2. Load
    BY <2>1 DEF MainNext, ProcessStep, GoCommand, RunCommand, InputCommand, RDumpCommand,
      PrintingCommand, QuitCommand, EndOfInput, MDumpCommand, ToScreen, TurnToFile, ToFile,
      EndOfDump, MachineStep, Fault, Interrupt, Dies, Types, Reading, In
  <2>3. QED
    BY <2>2 DEF Load, LoaderStep, OpenProgram, CannotOpenProgram, LoadWord, EndOfProgram,
      Malformed, CannotOpenDumpsim, Fails
<1>2. Loading /\ AtRest /\ executed' = executed
  BY <1>1 DEF HandOver, Initialized, SessionInv, LoaderInv, Load
<1>3. executed' = <<>>
  BY <1>2 DEF OverlayInv
<1>4. HandsOver'
  BY DEF OverlayInv
<1>5. /\ \E slack \in SlackBytes : mem' = Loaded(Overlay(given'), slack)
      /\ CURRENT_STATE' = Reset /\ NEXT_STATE' = Reset
      /\ RUN_BIT' = 1 /\ INSTRUCTION_COUNT' = 0
  BY <1>3, <1>4 DEF HandsOver
<1>6. /\ instr' = NoInstruction /\ stage' = "idle" /\ command' = "prompt"
      /\ i' = 0 /\ num_cycles' = 0
  BY <1>1, <1>2 DEF HandOver, Initialized, Prompts, AtRest
<1>7. QED  BY <1>5, <1>6

LEMMA PromptIsInit ==
  ASSUME SessionInv, StartInv, OverlayInv, OverlayInv', MainNext,
         process # "running", process' = "running", Overlay(given') \in Programs
  PROVE  Init'
BY PromptState DEF Init

\* What holds of every behaviour of Shell holds of every session.
THEOREM SessionsRefineShell == MainSpec => SessionsAreShells
<1>1. SessionInv /\ StartInv /\ OverlayInv /\ OverlayInv' /\ [MainNext]_allVars =>
        [/\ process # "running" /\ process' = "running" /\ Overlay(given') \in Programs => Init'
         /\ process = "running" => [Next]_vars]_allVars
  <2>1. ASSUME SessionInv, process = "running", MainNext PROVE [Next]_vars
    BY <2>1, RunningStep DEF SessionInv
  <2>2. QED  BY <2>1, PromptIsInit
<1>2. QED  BY <1>1, OverlayInvariant, PTL DEF MainSpec, SessionsAreShells
=============================================================================
