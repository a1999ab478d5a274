------------------------------ MODULE DumpProofs ------------------------------
(***************************************************************************)
(* What is in dumpsim: that mdump lists every word once, whatever its ints,   *)
(* and that the file belongs to the last session that reached its prompt.    *)
(***************************************************************************)
EXTENDS MainProofs

Line ==
  [kind : {"memory"}, start : Int, stop : Int]
    \union [kind : {"word"}, address : Int, value : Int]
    \union [kind : {"registers"}, count : Int, state : CPU_State]

-----------------------------------------------------------------------------
\* The ints.

\* The largest int that a dump from start can reach without wrapping.
LEMMA LastAddress ==
  ASSUME NEW start \in CInt, NEW address \in CInt, (address - start) % 4 = 0
  PROVE  /\ address <= MaxInt - ((MaxInt - start) % 4)
         /\ address # MaxInt - ((MaxInt - start) % 4) => address + 4 \in CInt
<1>1. PICK h \in Int : /\ h > 0 /\ CInt = (0 - (2 * h)) .. ((2 * h) - 1)
                       /\ WORD = 4 * h /\ WORD \div 2 = 2 * h
  BY IntRange
<1>2. MaxInt = (2 * h) - 1
  BY <1>1 DEF MaxInt
<1>3. PICK q \in Int : address = start + (4 * q)
  <2>1. start \in Int /\ address \in Int
    BY <1>1
  <2>2. QED  BY <2>1
<1>4. QED  BY <1>1, <1>2, <1>3

\* A dump that is not endless does not wrap while it goes on.
LEMMA NoWrap ==
  ASSUME NEW start \in CInt, NEW stop \in CInt, NEW address \in CInt,
         (address - start) % 4 = 0, address <= stop, ~Endless(start, stop)
  PROVE  Int32(address + 4) = address + 4 /\ address + 4 \in CInt
<1>1. CInt \subseteq Int /\ MaxInt \in Int
  BY IntRange DEF MaxInt
<1>2. CASE start <= stop
  <2>1. stop < MaxInt - ((MaxInt - start) % 4)
    BY <1>1, <1>2 DEF Endless
  <2>2. address + 4 \in CInt
    BY <1>1, <2>1, LastAddress
  <2>3. QED  BY <1>1, <2>2, Int32Type
<1>3. CASE ~(start <= stop)
  <2>1. start \in Int /\ stop \in Int /\ address \in Int /\ address < start
    BY <1>1, <1>3
  <2>2. address + 4 <= start
    BY <2>1
  <2>3. address + 4 \in CInt
    BY <2>1, <2>2, IntRange
  <2>4. QED  BY <1>1, <2>3, Int32Type
<1>4. QED  BY <1>2, <1>3

\* One that is endless stays at or below stop.
LEMMA StaysBelow ==
  ASSUME NEW start \in CInt, NEW stop \in CInt, NEW address \in CInt,
         (address - start) % 4 = 0, Endless(start, stop)
  PROVE  address <= stop
<1>1. CInt \subseteq Int /\ MaxInt \in Int
  BY IntRange DEF MaxInt
<1>2. QED  BY <1>1, LastAddress DEF Endless

LEMMA AdvanceAligned ==
  ASSUME NEW start \in CInt, NEW address \in CInt, (address - start) % 4 = 0
  PROVE  Int32(address + 4) \in CInt /\ (Int32(address + 4) - start) % 4 = 0
<1>1. PICK h \in Int : /\ h > 0 /\ CInt = (0 - (2 * h)) .. ((2 * h) - 1)
                       /\ WORD = 4 * h /\ WORD \div 2 = 2 * h
  BY IntRange
<1>2. start \in Int /\ address \in Int /\ address + 4 \in Int
  BY <1>1
<1>3. PICK q \in Int, w \in Int : address + 4 = (WORD * q) + w /\ w = (address + 4) % WORD
  <2>1. WORD \in Nat \ {0}
    BY <1>1
  <2>2. /\ (address + 4) \div WORD \in Int /\ (address + 4) % WORD \in Int
        /\ address + 4 = (WORD * ((address + 4) \div WORD)) + ((address + 4) % WORD)
    BY <1>2, <2>1, DivMod
  <2>3. QED  BY <2>2
<1>4. Int32(address + 4) = w \/ Int32(address + 4) = w - WORD
  BY <1>3 DEF Int32
<1>5. WORD * q = 4 * (h * q) /\ h * q \in Int
  BY <1>1
<1>6. Int32(address + 4) \in CInt
  BY <1>2, Int32Type
<1>7. PICK p \in Int : address = start + (4 * p)
  BY <1>2
<1>8. \/ Int32(address + 4) - start = 4 * ((p + 1) - (h * q))
      \/ Int32(address + 4) - start = 4 * (((p + 1) - (h * q)) - h)
  BY <1>1, <1>2, <1>3, <1>4, <1>5, <1>7, SMTT(40)
<1>9. \A x \in Int : (4 * x) % 4 = 0
  OBVIOUS
<1>10. QED  BY <1>5, <1>6, <1>7, <1>8, <1>9, <1>1

-----------------------------------------------------------------------------
\* Lines.

LEMMA PrintsAppends ==
  ASSUME disk \in Seq(Line), buffer \in Seq(Line), NEW line \in Line, Prints(line)
  PROVE  /\ disk' \in Seq(Line) /\ buffer' \in Seq(Line)
         /\ Written' = Append(Written, line)
<1>1. Written \in Seq(Line)
  BY DEF Written
<1>2. CASE buffer' = Append(buffer, line) /\ UNCHANGED disk
  <2>1. disk \o Append(buffer, line) = Append(disk \o buffer, line)
    OBVIOUS
  <2>2. QED  BY <1>2, <2>1 DEF Written
<1>3. CASE disk' = Append(Written, line) /\ buffer' = <<>>
  <2>1. disk' \in Seq(Line) /\ disk' \o <<>> = disk'
    BY <1>1, <1>3
  <2>2. QED  BY <1>3, <2>1 DEF Written
<1>4. QED  BY <1>2, <1>3 DEF Prints

Count(start, stop) == IF start <= stop THEN ((stop - start) \div 4) + 1 ELSE 0

\* A word of the listing is the one the file loop reads at its address.
LEMMA LineRead ==
  ASSUME NEW address \in CInt
  PROVE  (IF address < 0 THEN 0 ELSE mem_read_32(mem, address))
           = mem_read_32(mem, Trunc(address))
<1>1. PICK h \in Int : /\ h > 0 /\ CInt = (0 - (2 * h)) .. ((2 * h) - 1)
                       /\ WORD = 4 * h /\ WORD \div 2 = 2 * h
  BY IntRange
<1>2. DWORD \in Nat /\ WORD <= DWORD
  BY Widths
<1>3. ASSUME address >= 0 PROVE Trunc(address) = address
  BY <1>1, <1>2, <1>3 DEF Trunc
<1>4. ASSUME address < 0 PROVE mem_read_32(mem, Trunc(address)) = 0
  <2>1. Trunc(address) = address + DWORD
    BY <1>1, <1>2, <1>4 DEF Trunc
  <2>2. \A k \in 1 .. 3 : MEM_REGIONS[k].start \in Nat /\ MEM_REGIONS[k].size \in Nat
    BY MemoryAssumption
  <2>3. \A k \in 1 .. 3 : MEM_REGIONS[k].start + MEM_REGIONS[k].size <= address + DWORD
    <3>1. \A k \in 1 .. 3 : MEM_REGIONS[k].start + MEM_REGIONS[k].size <= DWORD - WORD
      BY MainAssumption
    <3>2. DWORD - WORD <= address + DWORD /\ address + DWORD \in Int /\ DWORD - WORD \in Int
      BY <1>1, <1>2
    <3>3. QED  BY <2>2, <3>1, <3>2
  <2>4. ~Mapped(address + DWORD)
    <3>1. address + DWORD \in Int
      BY <1>1, <1>2
    <3>2. QED  BY <2>2, <2>3, <3>1 DEF Mapped
  <2>5. QED  BY <2>1, <2>4 DEF mem_read_32
<1>5. QED  BY <1>1, <1>3, <1>4

LEMMA ListingLines ==
  ASSUME mem \in [Backed -> Byte], NEW start \in CInt, NEW stop \in CInt
  PROVE  /\ Count(start, stop) \in Nat
         /\ Promise(start, stop) \in Seq(Line)
         /\ Endless(start, stop) => Promise(start, stop) = <<>>
         /\ ~Endless(start, stop) =>
              /\ Len(Promise(start, stop)) = 1 + Count(start, stop)
              /\ Promise(start, stop)[1] = Heading(start, stop)
              /\ \A k \in 1 .. Count(start, stop) :
                   /\ start + (4 * (k - 1)) \in CInt
                   /\ Promise(start, stop)[k + 1] =
                        MemoryLine(start + (4 * (k - 1)),
                                   mem_read_32(mem, Trunc(start + (4 * (k - 1)))))
<1>1. PICK h \in Int : h > 0 /\ CInt = (0 - (2 * h)) .. ((2 * h) - 1)
  BY IntRange
<1>2. start \in Int /\ stop \in Int
  BY <1>1
<1>3. Count(start, stop) \in Nat
  BY <1>2 DEF Count
<1>4. ASSUME NEW k \in 1 .. Count(start, stop)
      PROVE  start + (4 * (k - 1)) \in CInt
  <2>1. start <= stop /\ k - 1 \in 0 .. ((stop - start) \div 4)
    BY <1>2, <1>4 DEF Count
  <2>2. start <= start + (4 * (k - 1)) /\ start + (4 * (k - 1)) <= stop
    BY <1>2, <2>1
  <2>3. QED  BY <1>1, <1>2, <2>1, <2>2
<1>5. \A k \in 1 .. Count(start, stop) :
        Listing(start, stop)[k] = MemoryLine(start + (4 * (k - 1)),
                                    mem_read_32(mem, Trunc(start + (4 * (k - 1)))))
  BY <1>4, LineRead DEF Listing, Count
<1>6. \A k \in 1 .. Count(start, stop) : Listing(start, stop)[k] \in Line
  <2>1. \A a \in CInt : Trunc(a) \in Int
    BY <1>1, TruncType, Widths DEF Dword
  <2>2. \A a \in CInt : mem_read_32(mem, Trunc(a)) \in Int
    BY <2>1, ReadType, Widths DEF Word
  <2>3. \A a \in CInt : MemoryLine(a, mem_read_32(mem, Trunc(a))) \in Line
    BY <1>1, <2>2 DEF MemoryLine, Line
  <2>4. QED  BY <1>4, <1>5, <2>3
<1>7. Listing(start, stop) \in Seq(Line) /\ Len(Listing(start, stop)) = Count(start, stop)
  <2>1. Listing(start, stop) \in [1 .. Count(start, stop) -> Line]
    BY <1>6 DEF Listing, Count
  <2>2. QED  BY <1>3, <2>1
<1>8. Heading(start, stop) \in Line
  BY <1>2 DEF Heading, Line
<1>9. CASE Endless(start, stop)
  BY <1>3, <1>9 DEF Promise
<1>10. CASE ~Endless(start, stop)
  <2>1. Promise(start, stop) = <<Heading(start, stop)>> \o Listing(start, stop)
    BY <1>10 DEF Promise
  <2>2. /\ Promise(start, stop) \in Seq(Line)
        /\ Len(Promise(start, stop)) = 1 + Count(start, stop)
        /\ Promise(start, stop)[1] = Heading(start, stop)
        /\ \A k \in 1 .. Count(start, stop) :
             Promise(start, stop)[k + 1] = Listing(start, stop)[k]
    BY <1>3, <1>7, <1>8, <2>1
  <2>3. QED  BY <1>3, <1>4, <1>5, <1>10, <2>2
<1>11. QED  BY <1>9, <1>10

-----------------------------------------------------------------------------
(***************************************************************************)
(* The invariant.  While mdump goes on, what is written is what is promised  *)
(* but for the lines of this dump that are still to come.                    *)
(***************************************************************************)
Dump == [loop : {"none", "screen", "file"}, address : CInt, start : CInt, stop : CInt]

Lines(n) == (n - dump.start) \div 4
Position == IF dump.loop = "file" THEN 1 + Lines(dump.address) ELSE 0

Partial ==
  LET P == Promise(dump.start, dump.stop)
      before == Len(promised) - Len(P)
  IN  /\ before \in Nat
      /\ \A k \in 1 .. Len(P) : promised[before + k] = P[k]
      /\ Len(Written) = before + Position
      /\ \A k \in 1 .. Len(Written) : Written[k] = promised[k]

Dumping ==
  /\ AtPrompt /\ (dump.address - dump.start) % 4 = 0
  /\ dump.loop = "file" => /\ ~Endless(dump.start, dump.stop)
                           /\ dump.start <= dump.address
                           /\ Lines(dump.address) <= Count(dump.start, dump.stop)
  /\ Partial

DumpTypes ==
  /\ disk \in Seq(Line) /\ buffer \in Seq(Line)
  /\ promised \in Seq(Line) /\ kept \in Seq(Line)
  /\ prompted \in BOOLEAN /\ dump \in Dump

DumpProgress ==
  /\ dump = NoDump => Written = promised
  /\ dump # NoDump => dump.loop # "none" /\ Dumping

DumpInv ==
  /\ DumpTypes
  /\ Loading => ~prompted /\ buffer = <<>> /\ promised = <<>> /\ dump = NoDump
  /\ process = "running" => prompted /\ DumpProgress
  /\ DumpFileRight

-----------------------------------------------------------------------------
LEMMA PrefixByElements ==
  ASSUME NEW s \in Seq(Line), NEW t \in Seq(Line), Len(s) <= Len(t),
         \A k \in 1 .. Len(s) : s[k] = t[k]
  PROVE  IsPrefix(s, t)
BY DEF IsPrefix

\* When a whole dump is written, everything promised is.
LEMMA SameByElements ==
  ASSUME NEW s \in Seq(Line), NEW t \in Seq(Line), Len(s) = Len(t),
         \A k \in 1 .. Len(s) : s[k] = t[k]
  PROVE  s = t
OBVIOUS

LEMMA WrittenPrefix ==
  ASSUME mem \in [Backed -> Byte], DumpTypes, DumpProgress
  PROVE  /\ Written \in Seq(Line)
         /\ Len(Written) <= Len(promised)
         /\ \A k \in 1 .. Len(Written) : Written[k] = promised[k]
<1>1. Written \in Seq(Line)
  BY DEF Written, DumpTypes
<1>2. CASE dump = NoDump
  BY <1>1, <1>2 DEF DumpProgress, DumpTypes
<1>3. CASE dump # NoDump
  <2>1. Dumping /\ Partial
    BY <1>3 DEF DumpProgress, Dumping
  <2>2. dump.start \in CInt /\ dump.stop \in CInt
    BY DEF DumpTypes, Dump
  <2>3. /\ Promise(dump.start, dump.stop) \in Seq(Line)
        /\ ~Endless(dump.start, dump.stop) =>
             Len(Promise(dump.start, dump.stop)) = 1 + Count(dump.start, dump.stop)
    BY <2>2, ListingLines
  <2>4. Position \in Int /\ Position <= Len(Promise(dump.start, dump.stop))
    <3>1. CASE dump.loop = "file"
      <4>1. /\ Lines(dump.address) <= Count(dump.start, dump.stop)
            /\ Count(dump.start, dump.stop) \in Nat
        BY <2>1, <2>2, <3>1, ListingLines DEF Dumping
      <4>2. dump.address \in Int /\ dump.start \in Int
        BY IntRange DEF DumpTypes, Dump
      <4>3. Lines(dump.address) \in Int
        BY <4>2 DEF Lines
      <4>4. QED  BY <2>1, <2>3, <3>1, <4>1, <4>3 DEF Position, Dumping
    <3>2. CASE dump.loop # "file"
      BY <2>3, <3>2 DEF Position
    <3>3. QED  BY <3>1, <3>2
  <2>5. Len(promised) \in Nat /\ Len(Promise(dump.start, dump.stop)) \in Nat
    BY <2>3 DEF DumpTypes
  <2>6. Len(Written) = (Len(promised) - Len(Promise(dump.start, dump.stop))) + Position
    BY <2>1 DEF Partial
  <2>7. Len(Written) <= Len(promised)
    BY <2>4, <2>5, <2>6
  <2>8. QED  BY <1>1, <2>1, <2>7 DEF Partial
<1>4. QED  BY <1>2, <1>3

\* So is what the stream's file holds of it, whatever becomes of the buffer.
LEMMA DiskPrefix ==
  ASSUME mem \in [Backed -> Byte], DumpTypes, DumpProgress
  PROVE  IsPrefix(disk, promised)
<1>1. disk \in Seq(Line) /\ promised \in Seq(Line) /\ buffer \in Seq(Line)
  BY DEF DumpTypes
<1>2. Len(disk) <= Len(Written) /\ \A k \in 1 .. Len(disk) : Written[k] = disk[k]
  BY <1>1 DEF Written
<1>3. /\ Len(Written) \in Nat /\ Len(Written) <= Len(promised)
      /\ \A k \in 1 .. Len(Written) : Written[k] = promised[k]
  BY WrittenPrefix
<1>4. Len(disk) <= Len(promised) /\ \A k \in 1 .. Len(disk) : disk[k] = promised[k]
  BY <1>1, <1>2, <1>3
<1>5. QED  BY <1>1, <1>4, PrefixByElements

-----------------------------------------------------------------------------
\* The steps of a dump.

LEMMA NoDumpType == NoDump \in Dump /\ NoDump.loop = "none"
<1>1. 0 \in CInt
  BY IntRange
<1>2. QED  BY <1>1 DEF NoDump, Dump

\* mdump begins: its lines are promised, none is written.
LEMMA BeginStep ==
  ASSUME mem \in [Backed -> Byte], DumpTypes, dump = NoDump, Written = promised, AtPrompt,
         NEW start \in CInt, NEW stop \in CInt,
         dump' = [loop |-> "screen", address |-> start, start |-> start, stop |-> stop],
         promised' = promised \o Promise(start, stop),
         UNCHANGED <<mem, command, disk, buffer>>
  PROVE  promised' \in Seq(Line) /\ dump' \in Dump /\ DumpProgress'
<1>1. Promise(start, stop) \in Seq(Line)
  BY ListingLines
<1>2. promised \in Seq(Line)
  BY DEF DumpTypes
<1>3. promised' \in Seq(Line) /\ Written' = promised
  BY <1>1, <1>2 DEF Written
<1>4. dump' \in Dump /\ dump' # NoDump /\ dump'.loop = "screen"
      /\ dump'.start = start /\ dump'.stop = stop /\ dump'.address = start
  BY NoDumpType DEF Dump
<1>5. Promise(start, stop)' = Promise(start, stop)
  BY DEF Promise, Endless, Listing, Heading, MemoryLine, mem_read_32, Mapped
<1>6. Partial'
  <2>1. Len(promised') - Len(Promise(start, stop)) = Len(promised)
    BY <1>1, <1>2
  <2>2. \A k \in 1 .. Len(Promise(start, stop)) :
          promised'[Len(promised) + k] = Promise(start, stop)[k]
    BY <1>1, <1>2
  <2>3. \A k \in 1 .. Len(promised) : promised[k] = promised'[k]
    BY <1>1, <1>2
  <2>4. Position' = 0
    BY <1>4 DEF Position
  <2>5. Promise(dump.start, dump.stop)' = Promise(start, stop)
    BY <1>4, <1>5
  <2>6. QED  BY <1>2, <1>3, <2>1, <2>2, <2>3, <2>4, <2>5 DEF Partial
<1>7. (start - start) % 4 = 0
  BY IntRange
<1>8. QED  BY <1>3, <1>4, <1>6, <1>7 DEF DumpProgress, Dumping, AtPrompt

\* What a step of the loops leaves alone.
SameDump ==
  /\ dump'.start = dump.start /\ dump'.stop = dump.stop
  /\ UNCHANGED <<mem, command, promised>>

LEMMA SamePromise ==
  ASSUME SameDump
  PROVE  Promise(dump.start, dump.stop)' = Promise(dump.start, dump.stop)
BY DEF SameDump, Promise, Endless, Listing, Heading, MemoryLine, mem_read_32, Mapped

LEMMA ScreenStep ==
  ASSUME DumpTypes, DumpProgress, ToScreen
  PROVE  dump' \in Dump /\ DumpProgress'
<1>1. dump # NoDump /\ dump.loop = "screen" /\ Dumping
  BY NoDumpType DEF ToScreen, In, DumpProgress
<1>2. dump \in Dump /\ dump.start \in CInt /\ dump.address \in CInt
  BY DEF DumpTypes, Dump
<1>3. Int32(dump.address + 4) \in CInt /\ (Int32(dump.address + 4) - dump.start) % 4 = 0
  BY <1>1, <1>2, AdvanceAligned DEF Dumping
<1>4. /\ dump' \in Dump /\ dump'.loop = "screen" /\ dump' # NoDump /\ SameDump
      /\ dump'.address = Int32(dump.address + 4)
  BY <1>1, <1>2, <1>3, NoDumpType
     DEF ToScreen, Advance, OnlyDump, Dump, SameDump, vars, simVars, shellVars, historyVars
<1>5. Written' = Written /\ Position' = 0 /\ Position = 0
  BY <1>1, <1>4 DEF ToScreen, Written, Position
<1>6. Partial'
  BY <1>1, <1>4, <1>5, SamePromise DEF Dumping, Partial, SameDump
<1>7. QED  BY <1>1, <1>3, <1>4, <1>6 DEF DumpProgress, Dumping, AtPrompt, SameDump

\* One more line of the dump is written.
LEMMA OneMore ==
  ASSUME mem \in [Backed -> Byte], DumpTypes, Partial, SameDump,
         dump.start \in CInt, dump.stop \in CInt,
         ~Endless(dump.start, dump.stop),
         Position \in Nat, Position < Len(Promise(dump.start, dump.stop)),
         Position' = Position + 1,
         Written' = Append(Written, Promise(dump.start, dump.stop)[Position + 1])
  PROVE  Partial'
<1> DEFINE P == Promise(dump.start, dump.stop)
           before == Len(promised) - Len(P)
<1>1. P \in Seq(Line) /\ Written \in Seq(Line) /\ promised \in Seq(Line)
  BY ListingLines, SMTT(40) DEF DumpTypes, Written
<1>2. /\ before \in Nat /\ Len(Written) = before + Position
      /\ \A k \in 1 .. Len(P) : promised[before + k] = P[k]
      /\ \A k \in 1 .. Len(Written) : Written[k] = promised[k]
  BY DEF Partial
<1>3. P' = P /\ promised' = promised /\ before' = before
  BY SamePromise DEF SameDump
<1> HIDE DEF P, before
<1>4. P[Position + 1] = promised[before + Position + 1]
  BY <1>1, <1>2 DEF P
<1>5. /\ Len(Written') = before + Position + 1
      /\ \A k \in 1 .. Len(Written') : Written'[k] = promised[k]
  <2>1. Len(Written') = Len(Written) + 1
    BY <1>1 DEF P
  <2>2. Len(Written') = before + Position + 1 /\ Len(Written) = before + Position
    BY <1>2, <2>1
  <2>3. Written'[Len(Written) + 1] = P[Position + 1]
    BY <1>1 DEF P
  <2>4. \A k \in 1 .. Len(Written) : Written'[k] = Written[k]
    BY <1>1 DEF P
  <2>5. \A k \in 1 .. Len(Written') : k \in 1 .. Len(Written) \/ k = before + Position + 1
    BY <1>2, <2>2
  <2>6. QED  BY <1>2, <1>4, <2>2, <2>3, <2>4, <2>5
<1>6. QED  BY <1>1, <1>2, <1>3, <1>5, SMTT(40) DEF Partial, P, before

LEMMA TurnStep ==
  ASSUME mem \in [Backed -> Byte], DumpTypes, DumpProgress, TurnToFile
  PROVE  DumpTypes' /\ DumpProgress'
<1>1. dump # NoDump /\ dump.loop = "screen" /\ Dumping /\ Partial
  BY NoDumpType DEF TurnToFile, In, DumpProgress, Dumping
<1>2. /\ dump \in Dump /\ dump.start \in CInt /\ dump.stop \in CInt /\ dump.address \in CInt
      /\ dump.start \in Int /\ dump.stop \in Int /\ dump.address \in Int
  BY IntRange DEF DumpTypes, Dump
<1>3. ~Endless(dump.start, dump.stop)
  <2>1. ~(dump.address <= dump.stop)
    BY DEF TurnToFile, More
  <2>2. QED  BY <1>1, <1>2, <2>1, StaysBelow DEF Dumping
<1>4. /\ dump' \in Dump /\ dump'.loop = "file" /\ dump' # NoDump /\ SameDump
      /\ dump'.address = dump.start /\ kept' = kept /\ prompted' = prompted
  BY <1>1, <1>2, NoDumpType
     DEF TurnToFile, OnlyDump, Dump, SameDump, vars, simVars, shellVars, historyVars, fixedVars
<1>5. /\ Len(Promise(dump.start, dump.stop)) = 1 + Count(dump.start, dump.stop)
      /\ Promise(dump.start, dump.stop)[1] = Heading(dump.start, dump.stop)
      /\ Count(dump.start, dump.stop) \in Nat
  BY <1>2, <1>3, ListingLines
<1>6. /\ disk' \in Seq(Line) /\ buffer' \in Seq(Line)
      /\ Written' = Append(Written, Heading(dump.start, dump.stop))
  <2>1. Heading(dump.start, dump.stop) \in Line
    BY <1>2 DEF Heading, Line
  <2>2. QED  BY <2>1, PrintsAppends DEF TurnToFile, DumpTypes
<1>7. Lines(dump.start) = 0 /\ (dump.start - dump.start) % 4 = 0
  BY <1>2 DEF Lines
<1>8. Lines(dump.address)' = 0 /\ Position = 0 /\ Position' = 1
  BY <1>1, <1>4, <1>7 DEF Lines, Position, SameDump
<1>9. Partial'
  BY <1>1, <1>2, <1>3, <1>4, <1>5, <1>6, <1>8, OneMore
<1>10. Dumping'
  <2>1. Lines(dump.address)' <= Count(dump.start, dump.stop)'
    BY <1>4, <1>5, <1>8 DEF SameDump, Count
  <2>2. ~Endless(dump.start, dump.stop)'
    BY <1>3, <1>4 DEF SameDump, Endless
  <2>3. (dump'.address - dump'.start) % 4 = 0 /\ dump'.start <= dump'.address
    <3>1. dump'.start = dump.start /\ dump'.address = dump.start
      BY <1>4 DEF SameDump
    <3>2. QED  BY <1>2, <1>7, <3>1
  <2>4. QED  BY <1>1, <1>4, <1>9, <2>1, <2>2, <2>3 DEF Dumping, AtPrompt, SameDump
<1>11. QED  BY <1>4, <1>6, <1>10 DEF DumpTypes, DumpProgress, SameDump

LEMMA FileStep ==
  ASSUME mem \in [Backed -> Byte], DumpTypes, DumpProgress, ToFile
  PROVE  DumpTypes' /\ DumpProgress'
<1>1. /\ dump # NoDump /\ dump.loop = "file" /\ Dumping /\ Partial
      /\ ~Endless(dump.start, dump.stop)
      /\ dump.start <= dump.address /\ dump.address <= dump.stop
      /\ (dump.address - dump.start) % 4 = 0
  BY NoDumpType DEF ToFile, In, More, DumpProgress, Dumping
<1>2. /\ dump \in Dump /\ dump.start \in CInt /\ dump.stop \in CInt /\ dump.address \in CInt
      /\ dump.start \in Int /\ dump.stop \in Int /\ dump.address \in Int
  BY IntRange DEF DumpTypes, Dump
<1>3. Int32(dump.address + 4) = dump.address + 4 /\ dump.address + 4 \in CInt
  BY <1>1, <1>2, NoWrap
<1>4. /\ dump' \in Dump /\ dump'.loop = "file" /\ dump' # NoDump /\ SameDump
      /\ dump'.address = dump.address + 4 /\ kept' = kept /\ prompted' = prompted
  BY <1>1, <1>2, <1>3, NoDumpType
     DEF ToFile, Advance, OnlyDump, Dump, SameDump, vars, simVars, shellVars, historyVars,
         fixedVars
<1> DEFINE n == Lines(dump.address)
<1>5. /\ n \in Nat /\ n < Count(dump.start, dump.stop)
      /\ dump.address = dump.start + (4 * ((n + 1) - 1))
      /\ Count(dump.start, dump.stop) \in Nat
      /\ ((dump.address + 4) - dump.start) % 4 = 0
      /\ ((dump.address + 4) - dump.start) \div 4 = n + 1
  <2>1. /\ dump.start \in Int /\ dump.stop \in Int /\ dump.address \in Int
        /\ dump.start <= dump.stop
    BY <1>1, <1>2
  <2>2. PICK q \in Int : dump.address = dump.start + (4 * q)
    BY <1>1, <2>1
  <2>3. q >= 0 /\ n = q
    BY <1>1, <2>1, <2>2 DEF Lines
  <2>4. Count(dump.start, dump.stop) = ((dump.stop - dump.start) \div 4) + 1
    BY <2>1 DEF Count
  <2>5. QED  BY <1>1, <2>1, <2>2, <2>3, <2>4
<1>6. /\ Len(Promise(dump.start, dump.stop)) = 1 + Count(dump.start, dump.stop)
      /\ Promise(dump.start, dump.stop) \in Seq(Line)
      /\ Promise(dump.start, dump.stop)[(n + 1) + 1] =
           MemoryLine(dump.address, mem_read_32(mem, Trunc(dump.address)))
  <2>1. n + 1 \in 1 .. Count(dump.start, dump.stop)
    BY <1>5
  <2>2. /\ Len(Promise(dump.start, dump.stop)) = 1 + Count(dump.start, dump.stop)
        /\ Promise(dump.start, dump.stop) \in Seq(Line)
        /\ Promise(dump.start, dump.stop)[(n + 1) + 1] =
             MemoryLine(dump.start + (4 * ((n + 1) - 1)),
                        mem_read_32(mem, Trunc(dump.start + (4 * ((n + 1) - 1)))))
    BY <1>1, <1>2, <2>1, ListingLines
  <2>3. QED  BY <1>5, <2>2
<1> DEFINE line == Promise(dump.start, dump.stop)[Position + 1]
<1>7. Position = n + 1 /\ line = MemoryLine(dump.address, mem_read_32(mem, Trunc(dump.address)))
  BY <1>1, <1>5, <1>6 DEF Position
<1>8. line \in Line
  BY <1>5, <1>6, <1>7, SMTT(40)
<1>9. disk' \in Seq(Line) /\ buffer' \in Seq(Line) /\ Written' = Append(Written, line)
  BY <1>7, <1>8, PrintsAppends DEF ToFile, DumpTypes
<1>10. Lines(dump.address)' = n + 1 /\ Position' = Position + 1
  BY <1>4, <1>5, <1>7 DEF Lines, Position, SameDump
<1>11. Partial'
  <2>1. Position \in Nat /\ Position < Len(Promise(dump.start, dump.stop))
    BY <1>5, <1>6, <1>7, SMTT(40)
  <2>2. QED  BY <1>1, <1>2, <1>4, <1>9, <1>10, <2>1, OneMore
<1>12. Dumping'
  <2>1. Lines(dump.address)' <= Count(dump.start, dump.stop)'
    BY <1>4, <1>5, <1>10 DEF SameDump, Count
  <2>2. ~Endless(dump.start, dump.stop)'
    BY <1>1, <1>4 DEF SameDump, Endless
  <2>3. (dump'.address - dump'.start) % 4 = 0 /\ dump'.start <= dump'.address
    <3>1. dump'.start = dump.start /\ dump'.address = dump.address + 4
      BY <1>4 DEF SameDump
    <3>2. QED  BY <1>1, <1>2, <1>5, <3>1
  <2>4. QED  BY <1>1, <1>4, <1>11, <2>1, <2>2, <2>3 DEF Dumping, AtPrompt, SameDump
<1>13. QED  BY <1>4, <1>9, <1>12 DEF DumpTypes, DumpProgress, SameDump

\* The loop to dumpsim ends with every line written.
LEMMA EndStep ==
  ASSUME mem \in [Backed -> Byte], DumpTypes, DumpProgress, EndOfDump
  PROVE  DumpTypes' /\ DumpProgress'
<1>1. /\ dump # NoDump /\ dump.loop = "file" /\ Dumping /\ Partial
      /\ ~Endless(dump.start, dump.stop)
      /\ dump.start <= dump.address /\ ~(dump.address <= dump.stop)
      /\ (dump.address - dump.start) % 4 = 0
      /\ Lines(dump.address) <= Count(dump.start, dump.stop)
  BY NoDumpType DEF EndOfDump, In, More, DumpProgress, Dumping
<1>2. /\ dump.start \in Int /\ dump.stop \in Int /\ dump.address \in Int
      /\ dump.start \in CInt /\ dump.stop \in CInt
  BY IntRange DEF DumpTypes, Dump
<1>3. Lines(dump.address) = Count(dump.start, dump.stop)
  <2>1. PICK q \in Int : dump.address = dump.start + (4 * q)
    BY <1>1, <1>2
  <2>2. q >= 0 /\ Lines(dump.address) = q
    BY <1>1, <1>2, <2>1 DEF Lines
  <2>3. Count(dump.start, dump.stop) <= q
    BY <1>1, <1>2, <2>1, <2>2 DEF Count
  <2>4. Count(dump.start, dump.stop) \in Int
    BY <1>2 DEF Count
  <2>5. QED  BY <1>1, <2>2, <2>3, <2>4
<1>4. Position = Len(Promise(dump.start, dump.stop)) /\ Position \in Nat
  BY <1>1, <1>2, <1>3, ListingLines DEF Position
<1>5. /\ Written \in Seq(Line) /\ promised \in Seq(Line)
      /\ Len(Written) = Len(promised)
  BY <1>1, <1>4 DEF Partial, DumpTypes, Written
<1>6. Written = promised
  BY <1>1, <1>5, SameByElements DEF Partial
<1>7. dump' = NoDump /\ UNCHANGED <<disk, buffer, promised, prompted, kept>>
  BY DEF EndOfDump, OnlyDump, historyVars, fixedVars
<1>8. QED  BY <1>6, <1>7, NoDumpType DEF DumpTypes, DumpProgress, Written

-----------------------------------------------------------------------------
\* The other steps.

\* Steps that neither dump nor end the process.
LEMMA QuietStep ==
  ASSUME DumpInv, process = "running", dump = NoDump,
         UNCHANGED <<process, dump, disk, buffer, promised, prompted, kept>>
  PROVE  DumpInv'
<1>1. DumpTypes' /\ Written' = promised'
  BY DEF DumpInv, DumpTypes, DumpProgress, Written
<1>2. DumpProgress'
  BY <1>1 DEF DumpProgress
<1>3. QED  BY <1>1, <1>2 DEF DumpInv, Loading, DumpFileRight

LEMMA CommandStep ==
  ASSUME SessionInv, DumpInv,
         \/ GoCommand \/ RunCommand \/ InputCommand \/ RDumpCommand \/ PrintingCommand
         \/ QuitCommand \/ EndOfInput \/ MDumpCommand
  PROVE  DumpInv'
<1>1. /\ process = "running" /\ dump = NoDump /\ AtPrompt /\ prompted
      /\ Written = promised /\ DumpTypes /\ DumpProgress
  BY DEF GoCommand, RunCommand, InputCommand, RDumpCommand, PrintingCommand, QuitCommand,
         EndOfInput, MDumpCommand, Types, Reading, DumpInv, DumpProgress
<1>2. /\ mem \in [Backed -> Byte] /\ CURRENT_STATE \in CPU_State /\ INSTRUCTION_COUNT \in Int
      /\ script \in Seq(Vocabulary)
  BY <1>1, Widths DEF SessionInv, IInv, TypeOK, Word
<1>3. ASSUME GoCommand \/ RunCommand \/ InputCommand \/ PrintingCommand PROVE DumpInv'
  BY <1>1, <1>3, QuietStep
     DEF GoCommand, RunCommand, InputCommand, PrintingCommand, loaderVars, historyVars, fixedVars
<1>4. ASSUME RDumpCommand PROVE DumpInv'
  <2>1. Registers \in Line
    BY <1>2 DEF Registers, Line
  <2>2. disk' \in Seq(Line) /\ buffer' \in Seq(Line) /\ Written' = Append(Written, Registers)
    BY <1>1, <1>4, <2>1, PrintsAppends DEF RDumpCommand, DumpTypes
  <2>3. /\ promised' = Append(promised, Registers)
        /\ UNCHANGED <<process, dump, prompted, kept>>
    BY <1>4 DEF RDumpCommand, fixedVars
  <2>4. DumpTypes' /\ DumpProgress'
    BY <1>1, <2>1, <2>2, <2>3 DEF DumpTypes, DumpProgress
  <2>5. QED  BY <1>1, <2>3, <2>4 DEF DumpInv, Loading, DumpFileRight
<1>5. ASSUME QuitCommand \/ EndOfInput PROVE DumpInv'
  <2>1. /\ process' = "exited" /\ disk' = Written /\ buffer' = <<>>
        /\ UNCHANGED <<dump, promised, prompted, kept>>
    BY <1>5 DEF QuitCommand, EndOfInput, Exits, mainVars, historyVars, fixedVars
  <2>2. Written \in Seq(Line)
    BY <1>1 DEF Written, DumpTypes
  <2>3. DumpTypes'
    BY <1>1, <2>1, <2>2 DEF DumpTypes
  <2>4. QED  BY <1>1, <2>1, <2>3 DEF DumpInv, Loading, DumpFileRight
<1>6. ASSUME MDumpCommand PROVE DumpInv'
  <2> DEFINE a == ScanTwo("i", "i", Arguments)
             start == Int32(a.first)
             stop == Int32(a.second)
  <2>1. /\ UNCHANGED <<process, mem, command, disk, buffer, prompted, kept>>
        /\ \/ /\ dump' = [loop |-> "screen", address |-> start, start |-> start, stop |-> stop]
              /\ promised' = promised \o Promise(start, stop)
           \/ UNCHANGED <<dump, promised>>
    BY <1>6 DEF MDumpCommand, vars, simVars, shellVars, loaderVars, fixedVars
  <2>2. start \in CInt /\ stop \in CInt
    <3>1. Arguments \in Seq(Vocabulary)
      BY <1>2, <1>6 DEF MDumpCommand, Types, Arguments
    <3>2. a.first \in Int /\ a.second \in Int
      BY <3>1, ScanTwoType DEF Conversions
    <3>3. QED  BY <3>2, Int32Type
  <2> HIDE DEF start, stop
  <2>3. CASE /\ dump' = [loop |-> "screen", address |-> start, start |-> start, stop |-> stop]
             /\ promised' = promised \o Promise(start, stop)
    <3>1. promised' \in Seq(Line) /\ dump' \in Dump /\ DumpProgress'
      BY <1>1, <1>2, <2>1, <2>2, <2>3, BeginStep
    <3>2. DumpTypes'
      BY <1>1, <2>1, <3>1 DEF DumpTypes
    <3>3. QED  BY <1>1, <2>1, <3>1, <3>2 DEF DumpInv, Loading, DumpFileRight
  <2>4. CASE UNCHANGED <<dump, promised>>
    BY <1>1, <2>1, <2>4, QuietStep
  <2>5. QED  BY <2>1, <2>3, <2>4
<1>7. QED  BY <1>3, <1>4, <1>5, <1>6

\* The machine works only when no dump does.
LEMMA WorkWithoutDump ==
  ASSUME SessionInv, DumpInv, MachineStep
  PROVE  dump = NoDump
<1>1. process = "running" /\ BetweenCycles /\ DumpProgress
  BY DEF MachineStep, SessionInv, IInv, DumpInv
<1> SUFFICES ASSUME AtPrompt PROVE FALSE
  BY <1>1 DEF DumpProgress, Dumping
<1>2. stage = "idle" /\ command = "prompt"
  BY <1>1 DEF AtPrompt, BetweenCycles
<1>3. ~Continues
  BY <1>2 DEF Continues
<1>4. ~Execute
  BY <1>1, <1>2, HandlerEffect DEF SessionInv, MachineStep, IInv, Effect
<1>5. QED
  BY <1>2, <1>3, <1>4 DEF MachineStep, Work, StartCycle, Process, EndCycle, Latch, Return

LEMMA MachineRests ==
  ASSUME SessionInv, DumpInv, MachineStep
  PROVE  DumpInv'
<1>1. process = "running" /\ dump = NoDump
  BY WorkWithoutDump DEF MachineStep
<1>2. QED
  BY <1>1, QuietStep DEF MachineStep, loaderVars, mainVars, historyVars, fixedVars

LEMMA LoadDumpStep ==
  ASSUME DumpInv, Load
  PROVE  DumpInv'
<1>1. Loading
  BY DEF Load, LoaderStep, OpenProgram, CannotOpenProgram, LoadWord, EndOfProgram, Malformed,
         HandOver, CannotOpenDumpsim, Initialized, AtEnd
<1>2. /\ ~prompted /\ buffer = <<>> /\ promised = <<>> /\ dump = NoDump
      /\ disk = kept /\ DumpTypes /\ process = "loading"
  BY <1>1 DEF DumpInv, DumpFileRight, Loading
<1>3. /\ buffer' = buffer /\ prompted' = (process' = "running")
      /\ UNCHANGED <<promised, dump, kept>>
  BY DEF Load, LoaderStep, OpenProgram, CannotOpenProgram, LoadWord, EndOfProgram, Malformed,
         HandOver, Prompts, CannotOpenDumpsim, Fails, fixedVars
<1>4. \/ process' \in {"loading", "exited"} /\ disk' = disk
      \/ process' = "running" /\ disk' = <<>>
  BY <1>2 DEF Load, LoaderStep, OpenProgram, CannotOpenProgram, LoadWord, EndOfProgram, Malformed,
         HandOver, Prompts, CannotOpenDumpsim, Fails
<1>5. DumpTypes'
  <2>1. prompted' \in BOOLEAN
    BY <1>3
  <2>2. disk' \in Seq(Line) /\ buffer' \in Seq(Line)
    BY <1>2, <1>3, <1>4 DEF DumpTypes
  <2>3. promised' \in Seq(Line) /\ kept' \in Seq(Line) /\ dump' \in Dump
    BY <1>2, <1>3 DEF DumpTypes
  <2>4. QED  BY <2>1, <2>2, <2>3, Zenon DEF DumpTypes
<1>6. CASE process' \in {"loading", "exited"} /\ disk' = disk
  BY <1>2, <1>3, <1>5, <1>6 DEF DumpInv, Loading, DumpFileRight
<1>7. CASE process' = "running" /\ disk' = <<>>
  <2>1. Written' = <<>>
    BY <1>2, <1>3, <1>7 DEF Written
  <2>2. DumpProgress'
    BY <1>2, <1>3, <2>1 DEF DumpProgress
  <2>3. QED  BY <1>3, <1>5, <1>7, <2>2 DEF DumpInv, Loading, DumpFileRight
<1>8. QED  BY <1>4, <1>6, <1>7

LEMMA StartDumpStep ==
  ASSUME DumpInv, NEW invocation, Start(invocation)
  PROVE  DumpInv'
<1>1. /\ process' \in {"exited", "loading"} /\ buffer' = <<>> /\ disk' = disk
      /\ dump' = NoDump /\ kept' = disk /\ prompted' = FALSE /\ promised' = <<>>
  BY DEF Start, StartProcess
<1>2. DumpTypes'
  <2>1. <<>> \in Seq(Line) /\ disk \in Seq(Line)
    BY DEF DumpInv, DumpTypes
  <2>2. QED  BY <1>1, <2>1, NoDumpType, Zenon DEF DumpTypes
<1>3. QED  BY <1>1, <1>2 DEF DumpInv, Loading, DumpFileRight

\* Whenever the process is killed, what reached the file is the first of the dumps.
LEMMA KilledStep ==
  ASSUME SessionInv, DumpInv, Fault \/ Interrupt
  PROVE  DumpInv'
<1>1. /\ process \in {"loading", "running"} /\ process' = "killed" /\ buffer' = <<>>
      /\ UNCHANGED <<disk, dump, promised, prompted, kept>>
  BY DEF Fault, Interrupt, Alive, Dies, mainVars, historyVars, fixedVars
<1>2. DumpTypes'
  BY <1>1 DEF DumpInv, DumpTypes
<1>3. CASE process = "loading"
  BY <1>1, <1>2, <1>3 DEF DumpInv, Loading, DumpFileRight
<1>4. CASE process = "running"
  <2>1. mem \in [Backed -> Byte] /\ DumpTypes /\ DumpProgress /\ prompted
    BY <1>4 DEF SessionInv, LoaderInv, DumpInv
  <2>2. IsPrefix(disk, promised)'
    BY <1>1, <2>1, DiskPrefix
  <2>3. QED  BY <1>1, <1>2, <2>1, <2>2 DEF DumpInv, Loading, DumpFileRight
<1>5. QED  BY <1>1, <1>3, <1>4

LEMMA LoopStep ==
  ASSUME SessionInv, DumpInv, ToScreen \/ TurnToFile \/ ToFile \/ EndOfDump
  PROVE  DumpInv'
<1>1. process = "running" /\ UNCHANGED <<process, prompted, kept, promised>>
  BY DEF ToScreen, TurnToFile, ToFile, EndOfDump, In, OnlyDump, historyVars, fixedVars
<1>2. mem \in [Backed -> Byte] /\ DumpTypes /\ DumpProgress /\ prompted
  BY <1>1 DEF SessionInv, LoaderInv, DumpInv
<1>3. DumpTypes' /\ DumpProgress'
  <2>1. ASSUME ToScreen PROVE DumpTypes' /\ DumpProgress'
    <3>1. dump' \in Dump /\ DumpProgress'
      BY <1>2, <2>1, ScreenStep
    <3>2. QED  BY <1>1, <1>2, <2>1, <3>1 DEF DumpTypes, ToScreen
  <2>2. QED  BY <1>2, <2>1, TurnStep, FileStep, EndStep
<1>4. QED  BY <1>1, <1>2, <1>3 DEF DumpInv, Loading, DumpFileRight

LEMMA DumpStep ==
  ASSUME SessionInv, DumpInv, [MainNext]_allVars
  PROVE  DumpInv'
<1>1. CASE UNCHANGED allVars
  <2>1. UNCHANGED <<mem, command, process, disk, buffer, dump, promised, prompted, kept>>
    BY <1>1 DEF allVars, vars, simVars, shellVars, loaderVars, mainVars, historyVars, fixedVars
  <2>2. Partial' = Partial
    BY <2>1 DEF Partial, Position, Lines, Written, Promise, Endless, Listing, Heading, MemoryLine,
      mem_read_32, Mapped
  <2>3. DumpProgress' = DumpProgress
    BY <2>1, <2>2 DEF DumpProgress, Dumping, AtPrompt, Lines, Count, Endless, Written
  <2>4. QED  BY <2>1, <2>3 DEF DumpInv, DumpTypes, Loading, DumpFileRight
<1>2. CASE MainNext
  BY <1>2, CommandStep, MachineRests, LoadDumpStep, StartDumpStep, KilledStep, LoopStep
     DEF MainNext, ProcessStep
<1>3. QED  BY <1>1, <1>2

LEMMA DumpsInvariant == MainSpec => [](SessionInv /\ DumpInv)
<1>1. MainInit => DumpInv
  <2>1. ASSUME MainInit PROVE DumpInv
    <3>1. /\ process = "off" /\ disk = <<>> /\ buffer = <<>> /\ dump = NoDump
          /\ kept = <<>> /\ prompted = FALSE /\ promised = <<>>
      BY <2>1 DEF MainInit, LoaderInit
    <3>2. DumpTypes
      <4>1. <<>> \in Seq(Line)
        OBVIOUS
      <4>2. QED  BY <3>1, <4>1, NoDumpType, Zenon DEF DumpTypes
    <3>3. QED  BY <3>1, <3>2 DEF DumpInv, Loading, DumpFileRight
  <2>2. QED  BY <2>1
<1>2. MainInit => SessionInv
  BY InitSession
<1>3. QED  BY <1>1, <1>2, SessionStep, DumpStep, PTL DEF MainSpec

\* dumpsim belongs to the last session that reached its prompt: complete when
\* the process exited, its first lines when it was killed, whatever was loaded
\* and typed, and untouched by a session whose start fails.
THEOREM DumpFileBelongs == MainSpec => []DumpFileRight
<1>1. DumpInv => DumpFileRight
  BY DEF DumpInv
<1>2. QED  BY <1>1, DumpsInvariant, PTL

\* mdump and rdump write what they promise, every word from low to high once and
\* in order, for all ints low and high and all regions of memory; an endless
\* mdump writes nothing.
THEOREM EveryDumpComplete == MainSpec => []DumpsComplete
<1>1. SessionInv /\ DumpInv => DumpsComplete
  <2> SUFFICES ASSUME SessionInv, DumpInv, process = "running"
               PROVE  IF dump = NoDump THEN Written = promised ELSE IsPrefix(Written, promised)
    BY DEF DumpsComplete
  <2>1. mem \in [Backed -> Byte] /\ DumpTypes /\ DumpProgress
    BY DEF SessionInv, LoaderInv, DumpInv
  <2>2. IsPrefix(Written, promised)
    <3>1. promised \in Seq(Line)
      BY <2>1 DEF DumpTypes
    <3>2. QED  BY <2>1, <3>1, WrittenPrefix, PrefixByElements
  <2>3. QED  BY <2>1, <2>2 DEF DumpProgress
<1>2. QED  BY <1>1, DumpsInvariant, PTL

-----------------------------------------------------------------------------
\* The progress of the two loops.

LEMMA LinesFromType ==
  ASSUME dump.stop \in Int, NEW address \in Int
  PROVE  LinesFrom(address) \in Nat
BY DEF LinesFrom

LEMMA OneLineLess ==
  ASSUME dump.stop \in Int, NEW address \in Int, address <= dump.stop
  PROVE  LinesFrom(address + 4) < LinesFrom(address)
<1>1. PICK m \in Nat : m = dump.stop - address
  OBVIOUS
<1>2. m \div 4 \in Nat /\ (m - 4) \div 4 = (m \div 4) - 1
  BY <1>1
<1>3. dump.stop - (address + 4) = m - 4
  BY <1>1
<1>4. LinesFrom(address) = 1 + (m \div 4)
  BY <1>1 DEF LinesFrom
<1>5. LinesFrom(address + 4) \in {0, 1 + ((m - 4) \div 4)}
  BY <1>3 DEF LinesFrom
<1>6. QED  BY <1>2, <1>4, <1>5

LEMMA DumpMoves ==
  ASSUME DumpTypes, DumpProgress, dump # NoDump,
         ToScreen \/ TurnToFile \/ ToFile \/ EndOfDump
  PROVE  IF Endless(dump.start, dump.stop) THEN dump'.loop = "screen"
         ELSE dump' = NoDump \/ (0 <= DumpLeft' /\ DumpLeft' < DumpLeft)
<1>1. Dumping /\ dump.loop \in {"screen", "file"} /\ (dump.address - dump.start) % 4 = 0
  BY DEF DumpProgress, Dumping, DumpTypes, Dump
<1>2. /\ dump \in Dump /\ dump.start \in CInt /\ dump.stop \in CInt /\ dump.address \in CInt
      /\ dump.start \in Int /\ dump.stop \in Int /\ dump.address \in Int
  BY IntRange DEF DumpTypes, Dump
<1>3. ASSUME ToScreen \/ ToFile, ~Endless(dump.start, dump.stop)
      PROVE  0 <= DumpLeft' /\ DumpLeft' < DumpLeft
  <2>1. dump.address <= dump.stop
    BY <1>3 DEF ToScreen, ToFile, More
  <2>2. Int32(dump.address + 4) = dump.address + 4
    BY <1>1, <1>2, <1>3, <2>1, NoWrap
  <2>3. dump' = [dump EXCEPT !.address = dump.address + 4]
    BY <1>3, <2>2 DEF ToScreen, ToFile, Advance
  <2>4. /\ dump'.loop = dump.loop /\ dump'.start = dump.start /\ dump'.stop = dump.stop
        /\ dump'.address = dump.address + 4
    BY <1>2, <2>3 DEF Dump
  <2>5. /\ LinesFrom(dump.address)' = LinesFrom(dump.address + 4)
        /\ LinesFrom(dump.start)' = LinesFrom(dump.start)
    BY <2>4 DEF LinesFrom
  <2>6. /\ LinesFrom(dump.address + 4) \in Nat /\ LinesFrom(dump.address) \in Nat
        /\ LinesFrom(dump.start) \in Nat
        /\ LinesFrom(dump.address + 4) < LinesFrom(dump.address)
    BY <1>2, <2>1, LinesFromType, OneLineLess
  <2>7. DumpLeft' = IF dump.loop = "screen"
                    THEN LinesFrom(dump.address + 4) + LinesFrom(dump.start) + 2
                    ELSE LinesFrom(dump.address + 4) + 1
    BY <2>4, <2>5, Zenon DEF DumpLeft
  <2>8. QED  BY <2>6, <2>7 DEF DumpLeft
<1>4. ASSUME ToScreen PROVE dump'.loop = "screen"
  BY <1>2, <1>4 DEF ToScreen, In, Advance, Dump
<1>5. ASSUME ToFile \/ EndOfDump PROVE ~Endless(dump.start, dump.stop)
  BY <1>1, <1>5 DEF ToFile, EndOfDump, In, Dumping
<1>6. ASSUME TurnToFile
      PROVE  /\ ~Endless(dump.start, dump.stop)
             /\ 0 <= DumpLeft' /\ DumpLeft' < DumpLeft
  <2>1. dump.loop = "screen" /\ ~(dump.address <= dump.stop)
    BY <1>6 DEF TurnToFile, In, More
  <2>2. /\ dump'.loop = "file" /\ dump'.start = dump.start /\ dump'.stop = dump.stop
        /\ dump'.address = dump.start
    BY <1>2, <1>6 DEF TurnToFile, Dump
  <2>3. DumpLeft' = LinesFrom(dump.start) + 1
    BY <2>2 DEF DumpLeft, LinesFrom
  <2>4. DumpLeft = 0 + LinesFrom(dump.start) + 2
    BY <2>1 DEF DumpLeft, LinesFrom
  <2>5. LinesFrom(dump.start) \in Nat
    BY <1>2, LinesFromType
  <2>6. ~Endless(dump.start, dump.stop)
    BY <1>1, <1>2, <2>1, StaysBelow
  <2>7. QED  BY <2>3, <2>4, <2>5, <2>6
<1>7. ASSUME EndOfDump PROVE dump' = NoDump
  BY <1>7 DEF EndOfDump
<1>8. QED  BY <1>3, <1>4, <1>5, <1>6, <1>7

\* mdump ends unless it reaches the largest ints, and then never does: for all
\* ints low and high each step of its loops leaves fewer lines to go, or the
\* first loop goes on.
THEOREM DumpsAdvance == MainSpec => DumpAdvances
<1>1. ASSUME SessionInv, DumpInv, MainNext, process = "running", process' = "running",
             dump # NoDump
      PROVE  IF Endless(dump.start, dump.stop) THEN dump'.loop = "screen"
             ELSE dump' = NoDump \/ (0 <= DumpLeft' /\ DumpLeft' < DumpLeft)
  <2>1. DumpTypes /\ DumpProgress
    BY <1>1 DEF DumpInv
  <2>2. ~MachineStep
    BY <1>1, WorkWithoutDump
  <2>3. ToScreen \/ TurnToFile \/ ToFile \/ EndOfDump
    BY <1>1, <2>2 DEF MainNext, ProcessStep, Start, StartProcess, Alive, Load, LoaderStep,
      OpenProgram, CannotOpenProgram, LoadWord, EndOfProgram, Malformed, HandOver,
      CannotOpenDumpsim, Initialized, AtEnd, Loading, GoCommand, RunCommand, InputCommand,
      RDumpCommand, PrintingCommand, QuitCommand, EndOfInput, MDumpCommand, Types, Reading,
      Fault, Interrupt, Dies
  <2>4. QED  BY <1>1, <2>1, <2>3, DumpMoves
<1>2. SessionInv /\ DumpInv /\ [MainNext]_allVars =>
        [process = "running" /\ process' = "running" /\ dump # NoDump =>
           IF Endless(dump.start, dump.stop) THEN dump'.loop = "screen"
           ELSE dump' = NoDump \/ (0 <= DumpLeft' /\ DumpLeft' < DumpLeft)]_allVars
  BY <1>1
<1>3. QED  BY <1>2, DumpsInvariant, PTL DEF MainSpec, DumpAdvances
=============================================================================
