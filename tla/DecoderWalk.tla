----------------------------- MODULE DecoderWalk -----------------------------
(***************************************************************************)
(* Every opcode through the decoder, against the documented encodings.  A    *)
(* state is a bytecode; the walk visits all values of its top 11 bits, on    *)
(* which alone the table search depends, for each of the low parts given.    *)
(***************************************************************************)
EXTENDS Decoder, Armv8

CONSTANTS
  LowParts,    \* the values of the other 21 bits
  Stacks       \* what the record may hold before it is decoded

ASSUME LowPartsAssumption == LowParts # {} /\ \A l \in LowParts : l \in Nat /\ l < 2097152
ASSUME StacksAssumption == Stacks \subseteq Leftover

VARIABLE b

Init == \E l \in LowParts : b = [hi |-> 0, lo |-> l]
Next == b.hi < 2047 /\ b' = [b EXCEPT !.hi = @ + 1]
Spec == Init /\ [][Next]_b

\* The record decoded over a stack that no comparison knows and that is zero
\* elsewhere, and the handler its name selects: "unset" where no row is found.
Blank == [name |-> "unset", type |-> "unset", rd |-> 0, rn |-> 0, rm |-> 0, rt |-> 0,
          shamt |-> 0, alu_immediate |-> 0, dt_address |-> 0, br_address |-> 0,
          cond_br_address |-> 0, mov_immediate |-> 0]
decoded == decode_instruction(b, Blank)
name    == decoded.name

-----------------------------------------------------------------------------
\* A far branch whose top 11 bits are the opcode of an 8-bit row, which the
\* first search finds; and shifts, told apart by bit 21 instead of imms.
StolenBranch == Op(b) = "B" /\ b.hi \in {\b10110001, \b10110100, \b10110101}
StolenShift  == \/ Op(b) = "LSL" /\ immr(b) < 32
                \/ Op(b) = "LSR" /\ immr(b) >= 32

\* Outside those two windows each documented encoding reaches its own handler,
\* although rows of 6, 8, 10 and 11 bits are searched together in every round;
\* nothing reaches the two rows that have no handler.
DocumentedDecoded ==
  /\ Op(b) # "undocumented" /\ ~StolenBranch /\ ~StolenShift => name = HandlerOf(Op(b))
  /\ name \notin {"SUB_immediate", "AND_immediate"}

\* The offsets and immediates the handlers build are the manual's, of the right
\* sign, for every instruction but B and CBNZ.
OperandsDecoded ==
  name = HandlerOf(Op(b)) =>
    /\ name \in {"STUR", "STURB", "STURH", "LDUR", "LDURB", "LDURH"} =>
         SignExtended(decoded.dt_address, Bit8, SignBit(decoded.dt_address, Bit8)) = imm9(b)
    /\ name \in {"BCOND", "CBZ"} =>
         SignExtended(decoded.cond_br_address, Bit18, SignBit(decoded.cond_br_address, Bit18))
           = imm19(b)
    /\ name \in {"ADDS_immediate", "SUBS_immediate", "ADD_immediate"} =>
         decoded.alu_immediate = imm12(b)
    /\ name = "MOVZ" => decoded.mov_immediate = imm16(b)
    /\ name = "LSL_immediate" => 64 - decoded.rm = 63 - imms(b)
    /\ name = "LSR_immediate" => decoded.rm = immr(b)

\* The words the table gives a null name, on which the simulator faults, are
\* exactly those whose top 6 bits are zero, but for one opcode: the empty memory
\* a program without HLT runs into, and no documented instruction.
NullOnlyWhenEmpty ==
  /\ name = "NULL" <=> b.hi < 32 /\ b.hi # \b000101
  /\ name = "NULL" => Op(b) = "undocumented"

\* Where a row is found, name and type come from it, and the type extracts every
\* field the handler uses: nothing depends on what the stack held, except in
\* CBNZ.  Where none is, the stack decides which handler runs and on what
\* (sim.c:135); no documented instruction is left to it.
ReadsSetFields ==
  \A s, t \in Stacks :
    LET one == decode_instruction(b, s)  other == decode_instruction(b, t)
    IN  \/ FirstMatch(b) = NoRow /\ Op(b) = "undocumented"
        \/ /\ FirstMatch(b) # NoRow
           /\ one.name = other.name
           /\ \A f \in Uses(one.name) :
                one[f] = other[f] \/ (one.name = "CBNZ" /\ f = "br_address")

\* Where a row is found, handlers index the register file within its 32 entries,
\* whatever the stack held.  ADD(Extended Register) is the exception: with bit 21
\* set its second operand lies beyond, among the 32 entries that would follow.
RegisterNumbers ==
  FirstMatch(b) # NoRow =>
    \A s \in Stacks :
      LET d == decode_instruction(b, s)
      IN  \A f \in Indexes(d.name) :
            \/ d[f] < 32
            \/ /\ f = "rm" /\ d.name = "ADD_extended_register" /\ b.hi = \b10001011001
               /\ d[f] < 64

-----------------------------------------------------------------------------
\* What the documents say of the decoder and it does not do.

\* lsl and lsr shift by any amount (page 11).
ShiftsDecoded == Op(b) \in {"LSL", "LSR"} => name = HandlerOf(Op(b))

\* An instruction is decoded from its bytecode alone; said for CBNZ, whose
\* label may lie on either side (page 13).
CBNZFromBytecode ==
  name = "CBNZ" =>
    SignExtended(decoded.cond_br_address, Bit18, SignBit(decoded.br_address, Bit18)) = imm19(b)

=============================================================================
