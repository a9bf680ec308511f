--------------------------- MODULE MCRegisterFile ---------------------------
(* The register file of ARM64 (MCOutput has the one of x86_64).  Every     *)
(* word starts with a value of its own; the masks are on both sides of     *)
(* every boundary.                                                         *)
EXTENDS RegisterFile

MCEnvStart == [i \in 0 .. Words |-> i]
MCCallerStart == [i \in 0 .. Words |-> 100 + i]

MCNamedArm64 == 0 .. 33
MCMasksArm64 == {{}, {0, 1}, {3, 30}, {32, 33}, {34}, {35}}

=============================================================================
