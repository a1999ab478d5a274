-------------------------- MODULE SessionConformance --------------------------
(***************************************************************************)
(* Sessions against the machine of ISA: whatever is loaded and typed, what a *)
(* session does to its machine is what the assignment describes.             *)
(***************************************************************************)
EXTENDS Main, Conformance

-----------------------------------------------------------------------------
(***************************************************************************)
(* Properties.                                                             *)
(***************************************************************************)

\* Each session reaches its prompt in the initial state described, whatever
\* ended the session before, and moves its machine as described, apart from the
\* deviations of Conformance: no command, dump, mistyped line or end of a
\* session comes between two of its cycles or gets lost (shell.c:283-331, 377-392).
SessionsConform ==
  [][/\ process # "running" /\ process' = "running" => Described!Init'
     /\ process = "running" => Described!Next \/ UNCHANGED Described!vars]_allVars
=============================================================================
