--------------------------- MODULE MCSwitchArm64 ---------------------------
(* A small instance of SwitchArm64: every register of the host and of the  *)
(* environment starts with a value of its own.  X4 starts with a value of  *)
(* more than 16 bits.  A client may set X2, and tries X3 and SP.           *)
(* The user's code may leave SP above the stack, which execute refuses.    *)
(* Two programs have the same size.                                        *)
EXTENDS SwitchArm64

CONSTANTS p1, p2, p3

MCWord == {0}
MCSettings == {<<2, 44>>, <<3, 44>>, <<SP, 52>>}
MCHostMem == 1 .. 38
MCHostSP == 36
MCEnvMem == 46 .. 56
MCStackLow == 44
MCStackTop == 54
MCCodeBase == 1000
MCCodeSize == 60
MCProgram == {p1, p2, p3}
MCSizeOf == [p \in MCProgram |-> IF p = p3 THEN 8 ELSE 4]
MCMaxWrites == 2

MCHostStart == [i \in CpuReg |-> IF i = SP THEN HostSP ELSE 100 + i]
MCEnvStart ==
  [i \in EnvReg |->
     CASE i = 4 -> 65740 [] i = SP -> StackTop [] i = PC -> CodeBase
       [] OTHER -> 200 + i]
MCMemStart == [a \in HostMem \cup EnvMem |-> 300 + a]

(* An allocation that survives the moves, and one for each way not to.     *)
Allocation(a, b, c) == [regs |-> a, code |-> b, slot |-> c]
MCOperands ==
  {Allocation(1, 2, 30), Allocation(1, 0, 2), Allocation(1, 2, 0),
   Allocation(0, 2, 1)}

=============================================================================
