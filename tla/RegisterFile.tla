---------------------------- MODULE RegisterFile ----------------------------
(***************************************************************************)
(* get_common_registers and set_common_registers: the words a bit mask     *)
(* names are copied between the executor's common_registers_t and the      *)
(* caller's.  Each struct is followed by a word of another object; a mask  *)
(* is the set of its one bits.                                             *)
(***************************************************************************)
EXTENDS Integers, FiniteSets

CONSTANTS
  COMMON_REGISTERS_LENGTH,
  Words,       \* words in common_registers_t
  Named,       \* registers that common_registers_bit_mask_t names
  GetWidth,    \* width of the 1 that get_common_registers shifts
  SetWidth,    \* width of the 1 that set_common_registers shifts
  Masks,       \* masks a caller passes
  EnvStart,    \* what m_environment_registers and the next word hold
  CallerStart  \* what the caller's struct and the next word hold

ASSUME RegisterAssumption ==
  /\ COMMON_REGISTERS_LENGTH \in Nat /\ Words \in Nat
  /\ COMMON_REGISTERS_LENGTH <= Words
  /\ Named \subseteq 0 .. (Words - 1)
  /\ GetWidth \in {32, 64} /\ SetWidth \in {32, 64}
  /\ Masks \subseteq SUBSET (0 .. 63)
  /\ EnvStart \in [0 .. Words -> Int] /\ CallerStart \in [0 .. Words -> Int]

VARIABLES
  env,    \* m_environment_registers, the word behind it at index Words
  caller, \* the caller's registers, likewise
  result  \* what the last call returned

vars == <<env, caller, result>>

Init == env = EnvStart /\ caller = CallerStart /\ result = TRUE

-----------------------------------------------------------------------------
(* Mutant: one position too high.                                          *)
Limit_Next(width) == {COMMON_REGISTERS_LENGTH + 2}

(* The position of the one bit of 1 << (COMMON_REGISTERS_LENGTH + 1), or   *)
(* NoBit where the value is 0.  A shift that is too long for the type is   *)
(* undefined: compilers fold it to 0, processors shift by the remainder.   *)
NoBit == -1
Limit(width) ==
  LET n == COMMON_REGISTERS_LENGTH + 1
  IN IF n < width THEN {n} ELSE {NoBit, n % width}

(* The mask's value is at least that of the shift.                         *)
OutOfRange(mask, bit) == bit = NoBit \/ \E b \in mask : b >= bit

(* Mutants: the index advances only with the one bits; the rest is lost.   *)
Copied_Packed(from, to, mask) ==
  [i \in 0 .. Words |->
     IF i \in mask THEN from[Cardinality({j \in mask : j < i})] ELSE to[i]]
Copied_Only(from, to, mask) == [i \in mask |-> from[i]]

(* The loop over the mask's bits, none of which is above Words.            *)
Copied(from, to, mask) ==
  [i \in 0 .. Words |-> IF i \in mask THEN from[i] ELSE to[i]]

get_common_registers(mask) ==
  \E bit \in Limit(GetWidth) :
    /\ result' = ~OutOfRange(mask, bit)
    /\ caller' = IF result' THEN Copied(env, caller, mask) ELSE caller
    /\ UNCHANGED env

set_common_registers(mask) ==
  \E bit \in Limit(SetWidth) :
    /\ result' = ~OutOfRange(mask, bit)
    /\ env' = IF result' THEN Copied(caller, env, mask) ELSE env
    /\ UNCHANGED caller

Next ==
  \E mask \in Masks :
    get_common_registers(mask) \/ set_common_registers(mask)

Spec == Init /\ [][Next]_vars

-----------------------------------------------------------------------------
(* Every variable has its type.                                            *)
TypeOK ==
  /\ env \in [0 .. Words -> Int] /\ caller \in [0 .. Words -> Int]
  /\ result \in BOOLEAN

(* However often registers are read and written, with whatever masks, no   *)
(* value turns up in a register it did not start in.                       *)
EachToItsOwn ==
  \A i \in Named :
    env[i] \in {EnvStart[i], CallerStart[i]}
    /\ caller[i] \in {EnvStart[i], CallerStart[i]}

(* The check for array access out of range: neither call writes the word   *)
(* behind either struct.                                                   *)
NeighboursKept ==
  [][env'[Words] = env[Words] /\ caller'[Words] = caller[Words]]_vars

(* The interface's promise: a mask of registers that have a name says      *)
(* which of them are written, so the call accepts it.                      *)
SetAcceptsNamed ==
  [][\A m \in Masks :
       set_common_registers(m) /\ m \subseteq Named => result']_vars

=============================================================================
