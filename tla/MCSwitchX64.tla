---------------------------- MODULE MCSwitchX64 ----------------------------
(* A small instance of SwitchX64: every register of the host and of the    *)
(* environment starts with a value of its own, so that any two that are    *)
(* exchanged are told apart.                                               *)
EXTENDS SwitchX64, FiniteSets

MCWord == {0}
MCSettings == {<<rax, 0>>, <<rsp, 47>>, <<rip, 1000>>, <<rip, 1002>>}
MCHostSP == 31
MCHostMem == 1 .. 33
MCEnvMem == 41 .. 50
MCStackLow == 44
MCStackTop == 51
MCCodeBase == 1000
MCCodeSize == 40
MCCodeSizes == {3, 14}
MCMaxWrites == 2

MCHostStart == [i \in CpuReg |-> IF i = rsp THEN HostSP ELSE 100 + i]
MCEnvStart ==
  [i \in EnvReg |->
     CASE i = rsp -> StackTop [] i = rip -> CodeBase [] OTHER -> 200 + i]
MCMemStart == [a \in HostMem \cup EnvMem |-> 300 + a]

=============================================================================
