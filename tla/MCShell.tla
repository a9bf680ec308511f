------------------------------ MODULE MCShell ------------------------------
(* One general register besides SP and IP, and one value of SP that        *)
(* execute refuses.  In the ARM64 build the mask is right for the first    *)
(* registers of the struct only, which do not include SP and PC.           *)
EXTENDS Shell, TLC

CONSTANTS e1, e2, b1, b2

MCEngine == {e1, e2}
MCBuffer == {b1, b2}
MCArchitecture == {"X86", "ARM64"}
MCOpcodeSizes == {0, 3, 5}

MCReg == 0 .. 2
MCIP == 2
MCSP == 1
MCDialect == [t \in MCArchitecture |-> IF t = "X86" THEN "INTEL" ELSE "NONE"]
MCWatched == [t \in MCArchitecture |-> IF t = "X86" THEN MCReg ELSE {0}]
MCValue == {0, 70, 80}
MCOnStack == {70, 80}
MCCodeBase == 100
MCEnvStart == (0 :> 0) @@ (1 :> 80) @@ (2 :> 100)

=============================================================================
