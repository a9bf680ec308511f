------------------------ MODULE MCKeystoneAssembler ------------------------
(* Two architectures of which one is supported, two engines and two        *)
(* buffers.                                                                *)
EXTENDS KeystoneAssembler

CONSTANTS e1, e2, b1, b2

MCEngine == {e1, e2}
MCBuffer == {b1, b2}
MCArchitecture == {"X86", "PPC"}
MCSupported == {"X86"}
MCOpcodeSizes == {0, 3}

=============================================================================
