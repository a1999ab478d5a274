-------------------------------- MODULE Memory -------------------------------
(***************************************************************************)
(* Main memory of shell.c: three byte arrays and the two accessors of sim.c. *)
(* A region's array is three bytes longer than the region (init_memory), so  *)
(* that an access at its last bytes stays inside the array.  A byte is named *)
(* by its simulated address: offset + start.                                 *)
(***************************************************************************)
EXTENDS Words

CONSTANT MEM_REGIONS  \* <<text, data, stack>>, each [start, size]

TEXT  == MEM_REGIONS[1]
DATA  == MEM_REGIONS[2]
STACK == MEM_REGIONS[3]

\* The addresses of a region, and those its array backs.
Covers(region) == region.start .. (region.start + region.size - 1)
Backs(region)  == region.start .. (region.start + region.size + 2)

\* The addresses the range test of the accessors lets through.
Mapped(address) ==
  \E i \in 1 .. 3 :
    /\ address >= MEM_REGIONS[i].start
    /\ address < MEM_REGIONS[i].start + MEM_REGIONS[i].size

Backed == Backs(TEXT) \union Backs(DATA) \union Backs(STACK)
Slack  == Backed \ (Covers(TEXT) \union Covers(DATA) \union Covers(STACK))

ASSUME MemoryAssumption ==
  /\ MEM_REGIONS \in [1 .. 3 -> [start : Nat, size : Nat \ {0}]]
  /\ \A i \in 1 .. 3 : MEM_REGIONS[i].start % 4 = 0 /\ MEM_REGIONS[i].size % 4 = 0
  /\ \A i, j \in 1 .. 3 : i # j => Backs(MEM_REGIONS[i]) \cap Backs(MEM_REGIONS[j]) = {}
  /\ TEXT.start < DWORD

mem_read_32(m, address) ==
  IF Mapped(address)
  THEN (m[address] + (BYTE * m[address + 1]))
         + (HALF * (m[address + 2] + (BYTE * m[address + 3])))
  ELSE 0

mem_write_32(m, address, value) ==
  IF Mapped(address)
  THEN [a \in Backed |->
          IF a \in address .. (address + 3) THEN ByteOf(value, a - address) ELSE m[a]]
  ELSE m
=============================================================================
