------------------------------ MODULE DecoderMC ------------------------------
(* All 2048 top parts; low parts that reach both ends of every field; stacks      *)
(* that hold nothing, large numbers, and records decoded before.                *)
EXTENDS DecoderWalk

Low(bits16up, bits10up, bits5up, bits0up) ==
  (bits16up * 65536) + (bits10up * 1024) + (bits5up * 32) + bits0up

MCLowParts ==
  {Low(m, s, nd[1], nd[2]) : m \in {0, 15, 31}, s \in {0, 31, 63},
                             nd \in {<<0, 0>>, <<31, 31>>, <<0, 12>>, <<31, 1>>}}
    \union {Low(m, m - 1, 2, 3) : m \in 1 .. 31} \union {Low(m, m + 31, 2, 3) : m \in 0 .. 31}

Holding(n, t, v) ==
  [f \in DOMAIN Blank |-> CASE f = "name" -> n [] f = "type" -> t [] OTHER -> v]
MCStacks == {Blank, Holding("unset", "unset", Bit18), Holding("STURB", "D", 7),
             Holding("ADDS_immediate", "unset", 100), Holding("NULL", "empty", 31)}
=============================================================================
