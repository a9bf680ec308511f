---------------------------- MODULE OutputProofs ----------------------------
(***************************************************************************)
(* Theorems about the access to the registers and about the loop that      *)
(* prints them, for structs, names and masks of any size.                  *)
(*                                                                         *)
(* That registers are not mixed up holds for every instance.  That both    *)
(* calls and the loop of print_registers stay inside the structs needs     *)
(* BoundFits, which the x86_64 executor meets and the one for ARM64 does   *)
(* not.                                                                    *)
(***************************************************************************)
EXTENDS Output, TLAPS

(* The shifts do not overflow, and the bit they set is none of the         *)
(* struct's.                                                               *)
BoundFits ==
  /\ COMMON_REGISTERS_LENGTH + 1 <= Words
  /\ COMMON_REGISTERS_LENGTH + 1 < GetWidth
  /\ COMMON_REGISTERS_LENGTH + 1 < SetWidth

(* What the loop of print_registers keeps: the bits left of the mask are   *)
(* those of registers from index on, and index is 0 outside of it.         *)
Looping ==
  /\ mask \subseteq Nat /\ index \in Nat
  /\ \A b \in mask : b + index < Words
  /\ pc = "main" => index = 0
  /\ pc = "print_in_hex" /\ ~reversed => index = 0

-----------------------------------------------------------------------------
(* A copy takes every word from one of the two structs.                    *)
LEMMA CopiedWord ==
  ASSUME NEW from, NEW to, NEW m, NEW k \in 0 .. Words
  PROVE  Copied(from, to, m)[k] \in {from[k], to[k]}
  BY DEF Copied

LEMMA CopiedTyped ==
  ASSUME NEW from \in [0 .. Words -> Int], NEW to \in [0 .. Words -> Int], NEW m
  PROVE  Copied(from, to, m) \in [0 .. Words -> Int]
  BY DEF Copied

(* What either call may do to the two structs.                             *)
LEMMA Calls ==
  ASSUME Next
  PROVE  /\ result' \in BOOLEAN
         /\ \/ env' = env /\ caller' = caller
            \/ \E m \in Masks : env' = env /\ caller' = Copied(env, caller, m)
            \/ \E m \in Masks : caller' = caller /\ env' = Copied(caller, env, m)
  BY DEF Next, get_common_registers, set_common_registers

(* Printing changes neither struct.                                        *)
LEMMA OnlyCalls ==
  ASSUME TypeOK, [PrintNext]_printvars
  PROVE  \/ env' = env /\ caller' = caller /\ result' \in BOOLEAN
         \/ Next /\ UNCHANGED <<pc, hex, registers>>
  BY DEF TypeOK, PrintNext, printvars, vars, print_opcodes, print_registers,
         print_byte, end_hex, print_register, next_register, end_registers,
         access_registers

(* A mask that is not refused has no bit outside the struct.               *)
LEMMA AcceptedFits ==
  ASSUME BoundFits, NEW width \in {GetWidth, SetWidth}, NEW m \in Masks,
         NEW bit \in Limit(width), ~OutOfRange(m, bit)
  PROVE  m \subseteq Nat /\ \A b \in m : b < Words
  <1>1. COMMON_REGISTERS_LENGTH \in Nat /\ Words \in Nat /\ m \subseteq 0 .. 63
        /\ GetWidth \in Nat /\ SetWidth \in Nat
    BY RegisterAssumption
  <1>2. COMMON_REGISTERS_LENGTH + 1 < width
    BY DEF BoundFits
  <1>3. bit = COMMON_REGISTERS_LENGTH + 1
    BY <1>2 DEF Limit
  <1>4. \A b \in m : ~(b >= bit)
    BY DEF OutOfRange
  <1> QED BY <1>1, <1>3, <1>4 DEF BoundFits

-----------------------------------------------------------------------------
LEMMA TypeInit == PrintInit => TypeOK
  BY RegisterAssumption DEF PrintInit, Init, TypeOK

LEMMA TypeStep == TypeOK /\ [PrintNext]_printvars => TypeOK'
  <1> SUFFICES ASSUME TypeOK, [PrintNext]_printvars PROVE TypeOK'
    OBVIOUS
  <1>1. CASE env' = env /\ caller' = caller /\ result' \in BOOLEAN
    BY <1>1 DEF TypeOK
  <1>2. CASE Next
    BY <1>2, Calls, CopiedTyped DEF TypeOK
  <1> QED BY <1>1, <1>2, OnlyCalls

(* Every variable of the two structs keeps its type.                       *)
THEOREM RegistersTypeCorrect == PrintSpec => []TypeOK
  BY TypeInit, TypeStep, PTL DEF PrintSpec

LEMMA OwnInit == PrintInit => EachToItsOwn
  BY DEF PrintInit, Init, EachToItsOwn

LEMMA OwnStep == TypeOK /\ EachToItsOwn /\ [PrintNext]_printvars => EachToItsOwn'
  <1> SUFFICES ASSUME TypeOK, EachToItsOwn, [PrintNext]_printvars, NEW k \in Named
               PROVE  /\ env'[k] \in {EnvStart[k], CallerStart[k]}
                      /\ caller'[k] \in {EnvStart[k], CallerStart[k]}
    BY DEF EachToItsOwn
  <1>1. /\ env[k] \in {EnvStart[k], CallerStart[k]}
        /\ caller[k] \in {EnvStart[k], CallerStart[k]}
    BY DEF EachToItsOwn
  <1>2. k \in 0 .. Words
    BY RegisterAssumption
  <1>3. CASE env' = env /\ caller' = caller
    BY <1>1, <1>3
  <1>4. CASE Next
    <2>1. env'[k] \in {env[k], caller[k]} /\ caller'[k] \in {env[k], caller[k]}
      BY <1>2, <1>4, Calls, CopiedWord
    <2> QED BY <1>1, <2>1
  <1> QED BY <1>3, <1>4, OnlyCalls

(* However registers are read, written and printed, no value turns up in a *)
(* register it did not start in.                                           *)
THEOREM RegistersStayApart == PrintSpec => []EachToItsOwn
  BY OwnInit, OwnStep, RegistersTypeCorrect, PTL DEF PrintSpec

-----------------------------------------------------------------------------
(* A call copies the word behind the struct only if its mask names it.     *)
LEMMA NeighbourStep ==
  BoundFits /\ TypeOK /\ [PrintNext]_printvars =>
    env'[Words] = env[Words] /\ caller'[Words] = caller[Words]
  <1> SUFFICES ASSUME BoundFits, TypeOK, [PrintNext]_printvars
               PROVE  env'[Words] = env[Words] /\ caller'[Words] = caller[Words]
    OBVIOUS
  <1>1. Words \in 0 .. Words
    BY RegisterAssumption
  <1>2. ASSUME NEW from, NEW to, NEW m \in Masks,
               NEW width \in {GetWidth, SetWidth}, NEW bit \in Limit(width),
               ~OutOfRange(m, bit)
        PROVE  Copied(from, to, m)[Words] = to[Words]
    <2>1. \A b \in m : b \in Nat /\ b < Words
      BY <1>2, AcceptedFits
    <2>2. Words \notin m
      BY <2>1, RegisterAssumption
    <2> QED BY <1>1, <2>2 DEF Copied
  <1>3. CASE env' = env /\ caller' = caller
    BY <1>3
  <1>4. ASSUME NEW m \in Masks, get_common_registers(m)
        PROVE  env'[Words] = env[Words] /\ caller'[Words] = caller[Words]
    BY <1>2, <1>4 DEF get_common_registers
  <1>5. ASSUME NEW m \in Masks, set_common_registers(m)
        PROVE  env'[Words] = env[Words] /\ caller'[Words] = caller[Words]
    BY <1>2, <1>5 DEF set_common_registers
  <1> QED BY <1>3, <1>4, <1>5, OnlyCalls DEF Next

(* Where the bound fits the struct, no call writes the word behind it.     *)
THEOREM NeighboursAreKept ==
  ASSUME BoundFits
  PROVE  PrintSpec => NeighboursKept
  <1>1. TypeOK /\ [PrintNext]_printvars =>
          [env'[Words] = env[Words] /\ caller'[Words] = caller[Words]]_vars
    BY NeighbourStep
  <1> QED
    BY <1>1, RegistersTypeCorrect, PTL DEF PrintSpec, NeighboursKept

(* The registers that have a name are all below the bound.                 *)
NamesFit ==
  /\ Named \subseteq 0 .. COMMON_REGISTERS_LENGTH
  /\ COMMON_REGISTERS_LENGTH + 1 < SetWidth

(* Where they are, set_common_registers writes any of them, as on x86_64;  *)
(* the ARM64 executor's shift is too long for the type, and it refuses.    *)
THEOREM NamedAreAccepted ==
  ASSUME NamesFit
  PROVE  Spec => SetAcceptsNamed
  <1>1. ASSUME NEW m \in Masks, set_common_registers(m), m \subseteq Named
        PROVE  result'
    <2>1. COMMON_REGISTERS_LENGTH \in Nat /\ SetWidth \in Nat
      BY RegisterAssumption
    <2>2. PICK bit \in Limit(SetWidth) : result' = ~OutOfRange(m, bit)
      BY <1>1 DEF set_common_registers
    <2>3. bit = COMMON_REGISTERS_LENGTH + 1
      BY <2>1, <2>2 DEF Limit, NamesFit
    <2>4. \A b \in m : b \in 0 .. COMMON_REGISTERS_LENGTH
      BY <1>1 DEF NamesFit
    <2>5. ~OutOfRange(m, bit)
      BY <2>1, <2>3, <2>4 DEF OutOfRange, NoBit
    <2> QED BY <2>2, <2>5
  <1>2. [Next]_vars =>
          [\A m \in Masks :
             set_common_registers(m) /\ m \subseteq Named => result']_vars
    BY <1>1
  <1> QED BY <1>2, PTL DEF Spec, SetAcceptsNamed

-----------------------------------------------------------------------------
LEMMA LoopingInit == PrintInit => Looping
  BY DEF PrintInit, Looping

LEMMA LoopingStep == BoundFits /\ Looping /\ [PrintNext]_printvars => Looping'
  <1> SUFFICES ASSUME BoundFits, Looping, [PrintNext]_printvars PROVE Looping'
    OBVIOUS
  <1> USE DEF Looping
  <1>1. CASE UNCHANGED printvars
    BY <1>1 DEF printvars, registers, hex
  <1>2. ASSUME NEW a \in Opcodes, print_opcodes(a) PROVE Looping'
    BY <1>2 DEF print_opcodes, registers
  <1>3. ASSUME NEW m \in Masks, print_registers(m) PROVE Looping'
    <2>1. PICK bit \in Limit(GetWidth) : result' = ~OutOfRange(m, bit)
      BY <1>3 DEF print_registers
    <2>2. mask' = {} \/ (mask' = m /\ ~OutOfRange(m, bit))
      BY <1>3, <2>1 DEF print_registers
    <2>3. mask' \subseteq Nat /\ \A b \in mask' : b < Words
      BY <2>2, AcceptedFits
    <2> QED BY <1>3, <2>3 DEF print_registers, hex
  <1>4. CASE print_byte \/ print_register \/ access_registers
    BY <1>4 DEF print_byte, print_register, print_in_hex, access_registers, registers, hex
  <1>5. CASE end_hex
    BY <1>5 DEF end_hex
  <1>6. CASE next_register
    <2>1. mask' = {b - 1 : b \in mask \ {0}} /\ index' = index + 1
          /\ pc' = "registers"
      BY <1>6 DEF next_register
    <2>2. ASSUME NEW c \in mask' PROVE c \in Nat /\ c + index' < Words
      <3>1. PICK b \in mask \ {0} : c = b - 1
        BY <2>1
      <3>2. b \in Nat /\ b # 0 /\ b + index < Words /\ index \in Nat
        BY <3>1
      <3> QED BY <2>1, <3>1, <3>2, RegisterAssumption
    <2> QED BY <2>1, <2>2
  <1>7. CASE end_registers
    BY <1>7 DEF end_registers, hex
  <1> QED
    BY <1>1, <1>2, <1>3, <1>4, <1>5, <1>6, <1>7 DEF PrintNext

(* Where the bound fits the struct, print_registers reads inside it,       *)
(* although its loop has no check of its own.                              *)
THEOREM PrintingStaysInside ==
  ASSUME BoundFits
  PROVE  PrintSpec => []PrintsInside
  <1>1. Looping => PrintsInside
    <2> SUFFICES ASSUME Looping, 0 \in mask PROVE index < Words
      BY DEF PrintsInside
    <2>1. 0 + index < Words /\ index \in Nat
      BY DEF Looping
    <2> QED BY <2>1
  <1>2. Looping /\ [PrintNext]_printvars => Looping'
    BY LoopingStep
  <1> QED BY <1>1, <1>2, LoopingInit, PTL DEF PrintSpec

=============================================================================
