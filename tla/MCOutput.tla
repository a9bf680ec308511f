------------------------------ MODULE MCOutput ------------------------------
(* The registers of x86_64 and masks on both sides of every boundary of    *)
(* their struct; no two registers hold the same bytes, and the bytes have  *)
(* every kind of digit.  Encodings are around one and two lines long.      *)
EXTENDS Output

MCNamed == 0 .. 17
MCMasks == {{}, {0, 7}, {7}, {3, 15}, {16, 17}, {22, 23}, {24}, {0, 31}}
MCEnvStart == [r \in 0 .. Words |-> r]
MCCallerStart == [r \in 0 .. Words |-> 100 + r]
MCBytes == [v \in 0 .. 124 |-> [k \in 1 .. 8 |-> (v * 71 + k * 37) % 256]]
Dump(n) == [k \in 1 .. n |-> (k * 37 + n) % 256]
MCOpcodes == {Dump(n) : n \in {2, 15, 16, 17, 33}}

=============================================================================
