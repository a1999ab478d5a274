------------------------------- MODULE ShellMC -------------------------------
(* The shell and the simulator on the programs of MCParams. *)
EXTENDS Shell, MCParams

Everything == {Assembled(p) : p \in AllPrograms}

\* Every path of these ends in HLT, as long as input between two runs does not
\* point a store at the text: the values of X1 are chosen so.
Halting == {Assembled(p) : p \in {Bytes, Halves, Conditions, Zero, LoopCond, Arithmetic,
                                  Stack, Wide, Misread}}
orr_s == {Assembled(NoHalt)}

MCRunSizes == {-1, 3}
=============================================================================
