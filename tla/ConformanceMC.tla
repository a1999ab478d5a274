---------------------------- MODULE ConformanceMC ----------------------------
(* Conformance on the programs of MCParams. *)
EXTENDS Conformance, MCParams

AllButSpin == {Assembled(p) : p \in AllPrograms \ {Spin}}
OnlyArithmetic == {Assembled(Arithmetic)}
OnlyHalves     == {Assembled(Halves)}
OnlyStack      == {Assembled(Stack)}

MCRunSizes == {3}
=============================================================================
