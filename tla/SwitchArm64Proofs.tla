------------------------- MODULE SwitchArm64Proofs -------------------------
(***************************************************************************)
(* The AArch64 context switch proved correct for every stack, code block,  *)
(* register content and choice of operand registers that the assumptions   *)
(* of SwitchArm64 allow, and for any number of user instructions.          *)
(*                                                                         *)
(* The inductive invariant says where every value of the two register      *)
(* files is at every label: in a register, in the struct, or in which word *)
(* of which stack.                                                         *)
(***************************************************************************)
EXTENDS SwitchArm64, TLAPS

USE DEF flags, SP, PC, CpuReg, EnvReg, StructPtr, ResumeAddress, AfterCall,
        SlotPtr

(* The two pairs start_operation pushes.                                   *)
CallSaved ==
  /\ mem[HostSP - 2] = host[0] /\ mem[HostSP - 1] = host[1]
  /\ mem[HostSP - 4] = host[2] /\ mem[HostSP - 3] = host[30]

(* The fifteen pairs that execute_asm pushes below them.                   *)
PairSaved(k) ==
  /\ mem[HostSP - 4 - 2 * k] = host[2 * k + 2]
  /\ mem[HostSP - 3 - 2 * k] = host[2 * k + 3]
HostSaved ==
  /\ CallSaved
  /\ \A k \in 1 .. 13 : PairSaved(k)
  /\ mem[HostSP - 32] = AfterCall /\ mem[HostSP - 31] = host[flags]
  /\ mem[HostSP - 34] = StructPtr /\ mem[HostSP - 33] = host[3]

(* The two pairs the exit instructions push.                               *)
ExitSaved ==
  /\ mem[left[SP] - 2] = left[0] /\ mem[left[SP] - 1] = left[1]
  /\ mem[left[SP] - 4] = left[PC] /\ mem[left[SP] - 3] = left[flags]

(* What holds at each label.                                               *)
AtHost == pc = "host" => cpu[SP] = HostSP
AtExecuteAsm == pc = "execute_asm" =>
  /\ CallSaved
  /\ \A i \in 3 .. 31 : i # 30 => cpu[i] = host[i]
  /\ cpu[30] = AfterCall /\ cpu[SP] = HostSP - 4
  /\ env = given /\ stub.resume = ResumeAddress
AtPreExecute == pc = "pre_execute" =>
  /\ HostSaved
  /\ env = given /\ Usable(given[SP])
  /\ stub = [stack |-> HostSP - 34, resume |-> ResumeAddress]
  /\ \A i \in CpuReg : i \notin {29, 30, SP} => cpu[i] = given[i]
  /\ cpu[SP] = given[SP] - 2 /\ cpu[30] = CodeBase
  /\ mem[given[SP] - 2] = given[29] /\ mem[given[SP] - 1] = given[30]
AtUser == pc = "user" =>
  /\ HostSaved
  /\ stub = [stack |-> HostSP - 34, resume |-> ResumeAddress]
  /\ Usable(cpu[SP]) /\ cached # NoProgram
AtRestore == pc = "restore_execution" =>
  /\ HostSaved /\ ExitSaved
  /\ cpu[0] = HostSP - 34 /\ cpu[SP] = left[SP] - 4
  /\ \A i \in 2 .. 30 : cpu[i] = left[i]
  /\ Usable(left[SP])
AtSwitch == pc = "switch_stacks" =>
  /\ HostSaved /\ env = left
  /\ cpu[0] = HostSP - 32 /\ cpu[3] = host[3]
AtAfterCall == pc = "after_call" =>
  /\ CallSaved /\ env = left
  /\ \A i \in 3 .. 31 : i # 30 => cpu[i] = host[i]
  /\ cpu[SP] = HostSP - 4
AtExecuted == pc = "executed" => env = left /\ cpu = host

(* The labels at which the user's code has left its registers.             *)
HasLeft ==
  pc \in {"restore_execution", "switch_stacks", "after_call", "executed"}

History ==
  /\ pc # "host" => /\ host[SP] = HostSP /\ program # NoProgram
                    /\ \A i \in 0 .. 3 : shadow[i] = given[i]
  /\ HasLeft =>
       left[PC] = CodeBase + PreExecuteSize + SizeOf[program] + 4

IInv ==
  /\ TypeOK /\ History
  /\ AtHost /\ AtExecuteAsm /\ AtPreExecute /\ AtUser /\ AtRestore
  /\ AtSwitch /\ AtAfterCall /\ AtExecuted

-----------------------------------------------------------------------------
(* The words below HostSP, and the room below a usable stack pointer of    *)
(* the environment, are addresses; the two stacks are apart.               *)
LEMMA Addresses ==
  /\ \A a \in Address : a \in Int
  /\ \A k \in 1 .. 34 : HostSP - k \in HostMem
  /\ \A sp \in Int : Usable(sp) => \A k \in 1 .. 6 : sp - k \in EnvMem
  /\ HostMem \subseteq Address /\ EnvMem \subseteq Address
  /\ \A a \in HostMem, b \in EnvMem : a # b
  /\ HostSP \in Int /\ CodeBase \in Int
  BY MemAssumption, CodeAssumption DEF Usable, Address

(* What the three arguments of Stored are.                                 *)
Storing(m, sp, s) ==
  m \in [Address -> Int] /\ sp \in Int /\ s \in Seq(Int \X Int)

(* The k-th pair of s, when stored from sp on downwards, lies at a and     *)
(* a + 1.                                                                  *)
PairAt(sp, s, k, a) ==
  /\ k \in 1 .. Len(s) /\ a = sp - 2 * k
  /\ a \in Address /\ a + 1 \in Address

(* The pairs fit in the 34 words below HostSP, or in the six words below   *)
(* the usable stack pointer top.                                           *)
HostRoom(sp, s) == HostSP - 34 <= sp - 2 * Len(s) /\ sp <= HostSP
EnvRoom(top, sp, s) ==
  top \in Int /\ Usable(top) /\ top - 6 <= sp - 2 * Len(s) /\ sp <= top

(* Words that such pairs do not reach.                                     *)
HostSpares(sp, a) == a \in Address /\ (a \in EnvMem \/ a >= sp)
EnvSpares(sp, a) == a \in Address /\ (a \in HostMem \/ a >= sp)

LEMMA StoringTypes ==
  ASSUME NEW m, NEW sp, NEW s, Storing(m, sp, s)
  PROVE  sp \in Int /\ Len(s) \in Nat /\ DOMAIN m = Address
  <1>1. m \in [Address -> Int] /\ sp \in Int /\ s \in Seq(Int \X Int)
    BY DEF Storing
  <1>2. Len(s) \in Nat
    BY <1>1
  <1>. QED
    BY <1>1, <1>2

(* Stored is well typed.                                                   *)
LEMMA StoredType ==
  ASSUME NEW m, NEW sp, NEW s, Storing(m, sp, s)
  PROVE  Stored(m, sp, s) \in [Address -> Int]
  <1>1. /\ m \in [Address -> Int] /\ sp \in Int /\ Len(s) \in Nat
        /\ \A k \in 1 .. Len(s) : s[k][1] \in Int /\ s[k][2] \in Int
    BY DEF Storing
  <1>2. ASSUME NEW a \in Address, sp - 2 * Len(s) <= a, a < sp
        PROVE  s[(sp - a + 1) \div 2][1 + ((sp - a) % 2)] \in Int
    <2>1. a \in Int
      BY Addresses
    <2>2. (sp - a + 1) \div 2 \in 1 .. Len(s)
      BY ONLY <1>1, <1>2, <2>1
    <2>3. (sp - a) % 2 \in {0, 1}
      BY ONLY <1>1, <2>1
    <2>. QED
      BY ONLY <1>1, <2>2, <2>3
  <1>. QED
    BY <1>1, <1>2 DEF Stored

(* The k-th pair stored lies 2k words below the old stack pointer, its     *)
(* first register at the lower address.                                    *)
LEMMA StoredPair ==
  ASSUME NEW m, NEW sp, NEW s, NEW k, NEW a,
         Storing(m, sp, s), PairAt(sp, s, k, a)
  PROVE  Stored(m, sp, s)[a] = s[k][1] /\ Stored(m, sp, s)[a + 1] = s[k][2]
  <1>1. /\ Len(s) \in Nat /\ k \in 1 .. Len(s) /\ a = sp - 2 * k /\ sp \in Int
        /\ a \in Address /\ a + 1 \in Address /\ DOMAIN m = Address
    BY DEF PairAt, Storing
  <1>2. /\ (sp - a + 1) \div 2 = k /\ 1 + ((sp - a) % 2) = 1
        /\ sp - 2 * Len(s) <= a /\ a < sp
    BY ONLY <1>1
  <1>3. /\ (sp - (a + 1) + 1) \div 2 = k /\ 1 + ((sp - (a + 1)) % 2) = 2
        /\ sp - 2 * Len(s) <= a + 1 /\ a + 1 < sp
    BY ONLY <1>1
  <1>4. Stored(m, sp, s)[a] = s[k][1]
    BY ONLY <1>1, <1>2 DEF Stored
  <1>5. Stored(m, sp, s)[a + 1] = s[k][2]
    BY ONLY <1>1, <1>3 DEF Stored
  <1>. QED
    BY <1>4, <1>5

(* A word outside the stored range is unchanged.                           *)
LEMMA StoredElsewhere ==
  ASSUME NEW m, NEW sp, NEW s, NEW a \in Address, Storing(m, sp, s),
         a >= sp \/ a < sp - 2 * Len(s)
  PROVE  Stored(m, sp, s)[a] = m[a]
  <1>0. a \in Int
    BY Addresses
  <1>1. a \in Int /\ sp \in Int /\ Len(s) \in Nat /\ DOMAIN m = Address
    BY <1>0, StoringTypes
  <1>2. ~(sp - 2 * Len(s) <= a /\ a < sp)
    BY <1>1
  <1>. QED
    BY <1>1, <1>2 DEF Stored

(* What is stored in the 34 words below HostSP changes no word of the      *)
(* other stack, and none at or above the stack pointer.                    *)
LEMMA HostStore ==
  ASSUME NEW m, NEW sp, NEW s, NEW a,
         Storing(m, sp, s), HostRoom(sp, s), HostSpares(sp, a)
  PROVE  Stored(m, sp, s)[a] = m[a]
  <1>1. /\ a \in Address /\ (a \in EnvMem \/ a >= sp)
        /\ HostSP - 34 <= sp - 2 * Len(s) /\ sp <= HostSP
    BY DEF HostSpares, HostRoom
  <1>2. a \in Int /\ HostSP \in Int /\ sp \in Int /\ Len(s) \in Nat
    <2>1. a \in Int /\ HostSP \in Int
      BY <1>1, Addresses
    <2>. QED
      BY <2>1, StoringTypes
  <1>3. CASE a \in EnvMem
    <2>1. \A k \in 1 .. 34 : a # HostSP - k
      BY <1>3, Addresses
    <2>2. a >= HostSP - 34 /\ a < HostSP =>
            HostSP - a \in 1 .. 34 /\ a = HostSP - (HostSP - a)
      BY ONLY <1>2
    <2>3. a >= HostSP \/ a < HostSP - 34
      BY ONLY <1>2, <2>1, <2>2
    <2>4. a >= sp \/ a < sp - 2 * Len(s)
      BY ONLY <1>1, <1>2, <2>3
    <2>. QED
      BY <1>1, <2>4, StoredElsewhere
  <1>4. CASE a >= sp
    BY <1>1, <1>4, StoredElsewhere
  <1>. QED
    BY <1>1, <1>3, <1>4

(* What is stored in the six words below a usable stack pointer changes no *)
(* word of the host's stack, and none at or above the stack pointer.       *)
LEMMA EnvStore ==
  ASSUME NEW m, NEW sp, NEW s, NEW top, NEW a,
         Storing(m, sp, s), EnvRoom(top, sp, s), EnvSpares(sp, a)
  PROVE  Stored(m, sp, s)[a] = m[a]
  <1>1. /\ a \in Address /\ (a \in HostMem \/ a >= sp)
        /\ top \in Int /\ Usable(top)
        /\ top - 6 <= sp - 2 * Len(s) /\ sp <= top
    BY DEF EnvSpares, EnvRoom
  <1>2. a \in Int /\ sp \in Int /\ Len(s) \in Nat
    <2>1. a \in Int
      BY <1>1, Addresses
    <2>. QED
      BY <2>1, StoringTypes
  <1>3. CASE a \in HostMem
    <2>1. \A k \in 1 .. 6 : a # top - k
      BY <1>1, <1>3, Addresses
    <2>2. a >= top - 6 /\ a < top => top - a \in 1 .. 6 /\ a = top - (top - a)
      BY ONLY <1>1, <1>2
    <2>3. a >= top \/ a < top - 6
      BY ONLY <1>1, <1>2, <2>1, <2>2
    <2>4. a >= sp \/ a < sp - 2 * Len(s)
      BY ONLY <1>1, <1>2, <2>3
    <2>. QED
      BY <1>1, <2>4, StoredElsewhere
  <1>4. CASE a >= sp
    BY <1>1, <1>4, StoredElsewhere
  <1>. QED
    BY <1>1, <1>3, <1>4

(* Register i occurs in the k-th pair of s, as its j-th, and nowhere else. *)
OnlyAt(s, i, k, j) ==
  /\ k \in 1 .. Len(s) /\ j \in {1, 2} /\ s[k][j] = i
  /\ \A n \in 1 .. Len(s), l \in {1, 2} : s[n][l] = i => n = k /\ l = j

(* It gets the word that is there when the pairs lie above one another     *)
(* from sp on.                                                             *)
LEMMA LoadedWord ==
  ASSUME NEW m, NEW sp, NEW s, NEW i, NEW k, NEW j, OnlyAt(s, i, k, j)
  PROVE  Loaded(m, sp, s, i) = m[sp + 2 * k + j - 3]
  <1>. DEFINE Here(p) == s[p[1]][p[2]] = i
              at == CHOOSE p \in (1 .. Len(s)) \X {1, 2} : Here(p)
  <1>1. <<k, j>> \in (1 .. Len(s)) \X {1, 2} /\ Here(<<k, j>>)
    BY DEF OnlyAt
  <1>2. at \in (1 .. Len(s)) \X {1, 2} /\ Here(at)
    BY <1>1
  <1>3. Loaded(m, sp, s, i) = m[sp + 2 * at[1] + at[2] - 3]
    BY DEF Loaded
  <1>. HIDE DEF at
  <1>4. at[1] = k /\ at[2] = j
    BY <1>2 DEF OnlyAt
  <1>. QED
    BY <1>3, <1>4

(* The pairs of each of the three sequences.                               *)
LEMMA HostPairsFact ==
  /\ Len(HostPairs) = 15
  /\ \A k \in 1 .. 13 : HostPairs[k] = <<2 * k + 2, 2 * k + 3>>
  /\ HostPairs[14] = <<30, flags>> /\ HostPairs[15] = <<0, 3>>
  BY DEF HostPairs

LEMMA LoadPairsFact ==
  /\ Len(LoadPairs) = 14
  /\ \A k \in 1 .. 14 : LoadPairs[k][1] = 32 - 2 * k /\ LoadPairs[k][2] = 33 - 2 * k
  <1>1. /\ Len(LoadPairs) = 14 /\ LoadPairs[1] = <<30, flags>>
        /\ \A k \in 1 .. 13 : LoadPairs[k + 1] = <<30 - 2 * k, 31 - 2 * k>>
    BY DEF LoadPairs
  <1>2. ASSUME NEW k \in 1 .. 14
        PROVE  LoadPairs[k][1] = 32 - 2 * k /\ LoadPairs[k][2] = 33 - 2 * k
    <2>1. CASE k = 1
      BY <1>1, <2>1
    <2>2. CASE k \in 2 .. 14
      <3>. DEFINE n == k - 1
      <3>1. n \in 1 .. 13 /\ n + 1 = k
        BY <2>2
      <3>2. LoadPairs[k] = <<30 - 2 * n, 31 - 2 * n>>
        BY <1>1, <3>1
      <3>. QED
        BY <2>2, <3>2
    <2>. QED
      BY <2>1, <2>2
  <1>. QED
    BY <1>1, <1>2

(* The invariant holds initially.                                          *)
LEMMA InitIInv == Init => IInv
  BY MemAssumption, CodeAssumption, StartAssumption
  DEF Init, IInv, TypeOK, Labels, History, HasLeft, AtHost, AtExecuteAsm,
      AtPreExecute, AtUser, AtRestore, AtSwitch, AtAfterCall, AtExecuted

-----------------------------------------------------------------------------
(* The host's registers stay saved while their words are not written.      *)
LEMMA CallSavedKept ==
  ASSUME CallSaved, host' = host,
         \A k \in 1 .. 4 : mem'[HostSP - k] = mem[HostSP - k]
  PROVE  CallSaved'
  BY DEF CallSaved

LEMMA HostSavedKept ==
  ASSUME HostSaved, host' = host,
         \A k \in 1 .. 34 : mem'[HostSP - k] = mem[HostSP - k]
  PROVE  HostSaved'
  <1>1. CallSaved'
    BY CallSavedKept DEF HostSaved
  <1>2. ASSUME NEW k \in 1 .. 13
        PROVE  PairSaved(k)'
    <2>1. /\ HostSP - 4 - 2 * k = HostSP - (4 + 2 * k)
          /\ HostSP - 3 - 2 * k = HostSP - (3 + 2 * k)
          /\ 4 + 2 * k \in 1 .. 34 /\ 3 + 2 * k \in 1 .. 34
      BY Addresses
    <2>2. PairSaved(k)
      BY DEF HostSaved
    <2>. QED
      BY <2>1, <2>2 DEF PairSaved
  <1>3. /\ mem'[HostSP - 32] = mem[HostSP - 32]
        /\ mem'[HostSP - 31] = mem[HostSP - 31]
        /\ mem'[HostSP - 34] = mem[HostSP - 34]
        /\ mem'[HostSP - 33] = mem[HostSP - 33]
    OBVIOUS
  <1>. QED
    BY <1>1, <1>2, <1>3 DEF HostSaved

(* One lemma per action: it preserves the inductive invariant.             *)

(* Between two executions only TypeOK and SP of the host are constrained.  *)
LEMMA PrepareStep ==
  ASSUME IInv, NEW p \in Program, prepare_execute(p)
  PROVE  IInv'
  BY CodeAssumption
  DEF prepare_execute, IInv, TypeOK, Labels, hist, History, HasLeft, AtHost,
      AtExecuteAsm, AtPreExecute, AtUser, AtRestore, AtSwitch, AtAfterCall,
      AtExecuted

LEMMA SetStep ==
  ASSUME IInv, NEW s \in Settings, set_common_registers(s)
  PROVE  IInv'
  <1>1. s[1] \in EnvReg /\ s[2] \in Int
    BY StartAssumption
  <1>. QED
    BY <1>1
    DEF set_common_registers, IInv, TypeOK, Labels, hist, code, History,
        HasLeft, AtHost, AtExecuteAsm, AtPreExecute, AtUser, AtRestore,
        AtSwitch, AtAfterCall, AtExecuted

(* The words of X0 to X3 are copied whole.                                 *)
LEMMA ShadowFact ==
  ASSUME env \in [EnvReg -> Int], shadow \in [EnvReg -> Int]
  PROVE  /\ ShadowCopy \in [EnvReg -> Int]
         /\ \A i \in 0 .. 3 : ShadowCopy[i] = env[i]
  <1>1. COMMON_REGISTERS_LENGTH = 34
    BY DEF COMMON_REGISTERS_LENGTH
  <1>2. ASSUME NEW i \in EnvReg
        PROVE  /\ i <= 3 => ShadowCopy[i] = env[i]
               /\ i >= 5 => ShadowCopy[i] = shadow[i]
               /\ i = 4 => ShadowCopy[i] =
                    (shadow[4] - (shadow[4] % 65536)) + (env[4] % 65536)
    <2>1. ShadowCopy[i] =
            IF 8 * (i + 1) <= 34 THEN env[i]
            ELSE IF 34 <= 8 * i THEN shadow[i]
            ELSE LET low == 2 ^ (8 * (34 - 8 * i))
                 IN (shadow[i] - (shadow[i] % low)) + (env[i] % low)
      BY <1>1 DEF ShadowCopy, Copied
    <2>2. i <= 3 => ShadowCopy[i] = env[i]
      BY <2>1
    <2>3. i >= 5 => ShadowCopy[i] = shadow[i]
      BY <2>1
    <2>4. ASSUME i = 4
          PROVE  ShadowCopy[4] =
                   (shadow[4] - (shadow[4] % 65536)) + (env[4] % 65536)
      <3>1. 8 * (34 - 8 * 4) = 16 /\ 2 ^ 16 = 65536
        OBVIOUS
      <3>. QED
        BY <2>1, <2>4, <3>1
    <2>. QED
      BY <2>2, <2>3, <2>4
  <1>3. ShadowCopy = [i \in EnvReg |-> ShadowCopy[i]]
    BY DEF ShadowCopy, Copied
  <1>4. ASSUME NEW i \in EnvReg
        PROVE  ShadowCopy[i] \in Int
    <2>1. CASE i <= 3
      BY <1>2, <2>1
    <2>2. CASE i >= 5
      BY <1>2, <2>2
    <2>3. CASE i = 4
      <3>1. env[4] \in Int /\ shadow[4] \in Int
        OBVIOUS
      <3>2. (shadow[4] - (shadow[4] % 65536)) + (env[4] % 65536) \in Int
        BY <3>1
      <3>. QED
        BY <1>2, <2>3, <3>2
    <2>. QED
      BY <2>1, <2>2, <2>3
  <1>. QED
    BY <1>2, <1>3, <1>4

(* The moves in front of BL change X0, X1 and X2 only.                     *)
LEMMA MovedFact ==
  ASSUME NEW r \in [CpuReg -> Int], NEW o \in Operands
  PROVE  /\ Moved(r, o) \in [CpuReg -> Int]
         /\ \A i \in 3 .. SP : Moved(r, o)[i] = r[i]
         /\ Moved(r, o)[0] = r[o.regs]
         /\ Moved(r, o)[1] = IF o.code = 0 THEN r[o.regs] ELSE r[o.code]
         /\ Moved(r, o)[2] =
              CASE o.slot = 0 -> r[o.regs]
                [] o.slot = 1 -> Moved(r, o)[1]
                [] OTHER -> r[o.slot]
  <1>1. o.regs \in 0 .. 30 /\ o.code \in 0 .. 30 /\ o.slot \in 0 .. 30
    BY StartAssumption
  <1>. QED
    BY <1>1 DEF Moved

(* The registers at the start of the inline assembly.                      *)
AtAsm(o) ==
  [cpu EXCEPT ![o.regs] = StructPtr, ![o.code] = CodeBase, ![o.slot] = SlotPtr]
LEMMA AtAsmFact ==
  ASSUME cpu \in [CpuReg -> Int], NEW o \in Operands
  PROVE  /\ AtAsm(o) \in [CpuReg -> Int] /\ AtAsm(o)[SP] = cpu[SP]
         /\ AtAsm(o)[o.regs] = StructPtr /\ AtAsm(o)[o.code] = CodeBase
         /\ AtAsm(o)[o.slot] = SlotPtr
         /\ \A i \in CpuReg : i \notin {o.regs, o.code, o.slot} =>
              AtAsm(o)[i] = cpu[i]
  <1>1. /\ o.regs \in 0 .. 30 /\ o.code \in 0 .. 30 /\ o.slot \in 0 .. 30
        /\ o.regs # o.code /\ o.regs # o.slot /\ o.code # o.slot
    BY StartAssumption
  <1>. QED
    BY <1>1, Addresses DEF AtAsm

(* start_operation saves two pairs and keeps the other registers.          *)
LEMMA StartOperationStep ==
  ASSUME IInv, NEW o \in Operands, start_operation(o)
  PROVE  IInv'
  <1>. DEFINE r == AtAsm(o)
              frame == <<<<r[0], r[1]>>, <<r[2], r[30]>>>>
  <1>1. /\ pc = "host" /\ pc' = "execute_asm" /\ program # NoProgram
        /\ cpu \in [CpuReg -> Int] /\ mem \in [Address -> Int]
        /\ env \in [EnvReg -> Int] /\ shadow \in [EnvReg -> Int]
        /\ cpu[SP] = HostSP /\ HostSP \in Int
    BY Addresses DEF IInv, TypeOK, AtHost, start_operation, Goto
  <1>2. r \in [CpuReg -> Int] /\ r[SP] = HostSP
    BY <1>1, AtAsmFact
  <1>3. /\ mem' = Stored(mem, HostSP, frame) /\ host' = r /\ given' = env
        /\ cpu' = [Moved(r, o) EXCEPT ![30] = AfterCall, ![SP] = @ - 4]
        /\ shadow' = ShadowCopy
        /\ stub' = [stub EXCEPT !.resume = ResumeAddress]
        /\ UNCHANGED <<env, program, cached, changed, writes, left>>
    BY <1>1 DEF start_operation, AtAsm
  <1>. HIDE DEF r
  <1>4. /\ frame \in Seq(Int \X Int) /\ Len(frame) = 2
        /\ frame[1] = <<r[0], r[1]>> /\ frame[2] = <<r[2], r[30]>>
    BY <1>2
  <1>. HIDE DEF frame
  <1>5. \A k \in 1 .. 4 : HostSP - k \in Address
    BY Addresses
  <1>6. Storing(mem, HostSP, frame)
    BY <1>1, <1>4 DEF Storing
  <1>7. mem' \in [Address -> Int]
    BY <1>3, <1>6, StoredType
  <1>8. CallSaved'
    <2>1. mem'[HostSP - 2] = r[0] /\ mem'[HostSP - 1] = r[1]
      <3>1. (HostSP - 2) + 1 = HostSP - 1
        BY <1>1
      <3>2. PairAt(HostSP, frame, 1, HostSP - 2)
        BY <1>1, <1>4, <1>5, <3>1 DEF PairAt
      <3>3. /\ Stored(mem, HostSP, frame)[HostSP - 2] = frame[1][1]
            /\ Stored(mem, HostSP, frame)[(HostSP - 2) + 1] = frame[1][2]
        BY ONLY <1>6, <3>2, StoredPair
      <3>. QED
        BY ONLY <1>3, <1>4, <3>1, <3>3
    <2>2. mem'[HostSP - 4] = r[2] /\ mem'[HostSP - 3] = r[30]
      <3>1. (HostSP - 4) + 1 = HostSP - 3
        BY <1>1
      <3>2. PairAt(HostSP, frame, 2, HostSP - 4)
        BY <1>1, <1>4, <1>5, <3>1 DEF PairAt
      <3>3. /\ Stored(mem, HostSP, frame)[HostSP - 4] = frame[2][1]
            /\ Stored(mem, HostSP, frame)[(HostSP - 4) + 1] = frame[2][2]
        BY ONLY <1>6, <3>2, StoredPair
      <3>. QED
        BY ONLY <1>3, <1>4, <3>1, <3>3
    <2>. QED
      BY <1>1, <1>3, <2>1, <2>2 DEF CallSaved
  <1>9. /\ cpu' \in [CpuReg -> Int] /\ cpu'[30] = AfterCall
        /\ cpu'[SP] = HostSP - 4
        /\ \A i \in 3 .. 31 : i # 30 => cpu'[i] = r[i]
    <2>1. /\ Moved(r, o) \in [CpuReg -> Int]
          /\ \A i \in 3 .. SP : Moved(r, o)[i] = r[i]
      BY <1>2, MovedFact
    <2>. QED
      BY <1>1, <1>2, <1>3, <2>1
  <1>10. /\ shadow' \in [EnvReg -> Int]
        /\ \A i \in 0 .. 3 : shadow'[i] = given'[i]
    BY <1>1, <1>3, ShadowFact
  <1>11. TypeOK'
    BY <1>1, <1>2, <1>3, <1>7, <1>9, <1>10 DEF IInv, TypeOK, Labels
  <1>12. AtExecuteAsm' /\ History'
    BY <1>1, <1>2, <1>3, <1>8, <1>9, <1>10, <1>11
    DEF AtExecuteAsm, History, HasLeft, TypeOK
  <1>. QED
    BY <1>1, <1>11, <1>12
    DEF IInv, AtHost, AtPreExecute, AtUser, AtRestore, AtSwitch, AtAfterCall,
        AtExecuted

(* Where the process is lost nothing is promised any more.                 *)
LEMMA LostStep ==
  ASSUME IInv, goes_astray \/ exit_astray
  PROVE  IInv'
  <1>1. /\ pc \in {"execute_asm", "user"} /\ pc' = "lost"
        /\ UNCHANGED <<cpu, mem, env, shadow, code, changed, writes, hist>>
    BY DEF goes_astray, exit_astray, Goto
  <1>2. TypeOK'
    BY <1>1 DEF IInv, TypeOK, Labels, code, hist
  <1>3. History'
    BY <1>1 DEF IInv, History, HasLeft, code, hist
  <1>. QED
    BY <1>1, <1>2, <1>3
    DEF IInv, AtHost, AtExecuteAsm, AtPreExecute, AtUser, AtRestore, AtSwitch,
        AtAfterCall, AtExecuted

(* A function on 1 .. n is a sequence of length n.                         *)
LEMMA FunctionIsSequence ==
  ASSUME NEW S, NEW n \in Nat, NEW f \in [1 .. n -> S]
  PROVE  f \in Seq(S) /\ Len(f) = n
  <1>1. f \in Seq(S)
    OBVIOUS
  <1>2. Len(f) = n
    BY <1>1
  <1>. QED
    BY <1>1, <1>2

(* The pairs execute_asm stores.                                           *)
LEMMA HostFrameFact ==
  ASSUME cpu \in [CpuReg -> Int]
  PROVE  /\ HostFrame \in Seq(Int \X Int) /\ Len(HostFrame) = 15
         /\ \A k \in 1 .. 13 : /\ HostFrame[k][1] = cpu[2 * k + 2]
                               /\ HostFrame[k][2] = cpu[2 * k + 3]
         /\ HostFrame[14][1] = cpu[30] /\ HostFrame[14][2] = cpu[flags]
         /\ HostFrame[15][1] = cpu[0] /\ HostFrame[15][2] = cpu[3]
  <1>1. \A k \in 1 .. 15 : HostPairs[k][1] \in CpuReg /\ HostPairs[k][2] \in CpuReg
    <2>1. ASSUME NEW k \in 1 .. 15
          PROVE  HostPairs[k][1] \in CpuReg /\ HostPairs[k][2] \in CpuReg
      <3>1. CASE k \in 1 .. 13
        BY <3>1, HostPairsFact
      <3>2. CASE k = 14
        BY <3>2, HostPairsFact
      <3>3. CASE k = 15
        BY <3>3, HostPairsFact
      <3>. QED
        BY <3>1, <3>2, <3>3
    <2>. QED
      BY <2>1
  <1>2. HostFrame \in [1 .. 15 -> Int \X Int]
    BY <1>1 DEF HostFrame
  <1>3. HostFrame \in Seq(Int \X Int) /\ Len(HostFrame) = 15
    <2>. DEFINE n == 15
    <2>1. n \in Nat /\ HostFrame \in [1 .. n -> Int \X Int]
      BY <1>2
    <2>. HIDE DEF n
    <2>2. HostFrame \in Seq(Int \X Int) /\ Len(HostFrame) = n
      BY ONLY <2>1, FunctionIsSequence
    <2>. QED
      BY <2>2 DEF n
  <1>4. \A k \in 1 .. 15 : /\ HostFrame[k][1] = cpu[HostPairs[k][1]]
                           /\ HostFrame[k][2] = cpu[HostPairs[k][2]]
    BY DEF HostFrame
  <1>5. ASSUME NEW k \in 1 .. 13
        PROVE  /\ HostFrame[k][1] = cpu[2 * k + 2]
               /\ HostFrame[k][2] = cpu[2 * k + 3]
    BY <1>4, HostPairsFact
  <1>6. /\ HostFrame[14][1] = cpu[30] /\ HostFrame[14][2] = cpu[flags]
        /\ HostFrame[15][1] = cpu[0] /\ HostFrame[15][2] = cpu[3]
    BY <1>4, HostPairsFact
  <1>. QED
    BY <1>3, <1>5, <1>6

(* Where the fifteen pairs lie.                                            *)
LEMMA HostFrameStored ==
  ASSUME mem \in [Address -> Int], cpu \in [CpuReg -> Int],
         NEW k, k \in 1 .. 15
  PROVE  LET m == Stored(mem, HostSP - 4, HostFrame)
         IN /\ m[HostSP - 4 - 2 * k] = HostFrame[k][1]
            /\ m[HostSP - 3 - 2 * k] = HostFrame[k][2]
  <1>1. /\ mem \in [Address -> Int] /\ HostFrame \in Seq(Int \X Int)
        /\ k \in 1 .. Len(HostFrame) /\ HostSP - 4 \in Int
    <2>1. HostFrame \in Seq(Int \X Int) /\ Len(HostFrame) = 15
      BY HostFrameFact
    <2>2. HostSP \in Int
      BY Addresses
    <2>. QED
      BY <2>1, <2>2
  <1>2. HostSP - 4 - 2 * k \in Address /\ HostSP - 3 - 2 * k \in Address
    <2>1. /\ HostSP - 4 - 2 * k = HostSP - (4 + 2 * k)
          /\ HostSP - 3 - 2 * k = HostSP - (3 + 2 * k)
          /\ 4 + 2 * k \in 1 .. 34 /\ 3 + 2 * k \in 1 .. 34
      BY Addresses
    <2>. QED
      BY <2>1, Addresses
  <1>3. (HostSP - 4 - 2 * k) + 1 = HostSP - 3 - 2 * k
    BY Addresses
  <1>4. /\ PairAt(HostSP - 4, HostFrame, k, HostSP - 4 - 2 * k)
        /\ Storing(mem, HostSP - 4, HostFrame)
    BY <1>1, <1>2, <1>3 DEF PairAt, Storing
  <1>. DEFINE sp == HostSP - 4
              a == HostSP - 4 - 2 * k
  <1>5. /\ Stored(mem, sp, HostFrame)[a] = HostFrame[k][1]
        /\ Stored(mem, sp, HostFrame)[a + 1] = HostFrame[k][2]
    <2>1. PairAt(sp, HostFrame, k, a) /\ Storing(mem, sp, HostFrame)
      BY <1>4
    <2>. HIDE DEF sp, a
    <2>2. PairAt(sp, HostFrame, k, a)
      BY <2>1
    <2>3. Storing(mem, sp, HostFrame)
      BY <2>1
    <2>. QED
      BY ONLY <2>2, <2>3, StoredPair
  <1>. QED
    BY ONLY <1>3, <1>5

(* execute_asm leaves every register of the host in its word, and every    *)
(* register of the environment in the processor or on its stack.           *)
LEMMA ExecuteAsmStep ==
  ASSUME IInv, execute_asm
  PROVE  IInv'
  <1>. DEFINE onHost == Stored(mem, HostSP - 4, HostFrame)
              sp == given[SP]
              frame == <<<<given[29], given[30]>>>>
  <1>1. /\ pc = "execute_asm" /\ pc' = "pre_execute"
        /\ cpu \in [CpuReg -> Int] /\ mem \in [Address -> Int]
        /\ env \in [EnvReg -> Int] /\ HostSP \in Int
        /\ CallSaved /\ env = given /\ Usable(sp) /\ sp \in Int
        /\ \A i \in 3 .. 31 : i # 30 => cpu[i] = host[i]
        /\ cpu[0] = StructPtr /\ cpu[1] = CodeBase
        /\ cpu[30] = AfterCall /\ cpu[SP] = HostSP - 4
        /\ stub.resume = ResumeAddress
    BY Addresses DEF IInv, TypeOK, AtExecuteAsm, execute_asm, Goto, OperandsThere
  <1>2. /\ mem' = Stored(onHost, sp, frame)
        /\ stub' = [stub EXCEPT !.stack = cpu[SP] - 30]
        /\ cpu' = [i \in CpuReg |->
                     CASE i = 29 -> env[flags] [] i = 30 -> cpu[1]
                       [] i = SP -> sp - 2 [] OTHER -> env[i]]
        /\ UNCHANGED <<env, shadow, program, cached, changed, writes, hist>>
    BY <1>1 DEF execute_asm, EntryTop, EntryFrame
  <1>3. /\ frame \in Seq(Int \X Int) /\ Len(frame) = 1
        /\ frame[1][1] = given[29] /\ frame[1][2] = given[30]
    BY <1>1
  <1>4. onHost \in [Address -> Int]
    <2>1. HostFrame \in Seq(Int \X Int) /\ HostSP - 4 \in Int
      BY <1>1, HostFrameFact
    <2>. QED
      BY <1>1, <2>1, StoredType DEF Storing
  <1>5. Storing(onHost, sp, frame)
    BY <1>1, <1>3, <1>4 DEF Storing
  <1>6. ASSUME NEW k \in 1 .. 34
        PROVE  mem'[HostSP - k] = onHost[HostSP - k]
    <2>. HIDE DEF onHost, frame
    <2>1. EnvSpares(sp, HostSP - k)
      BY Addresses DEF EnvSpares
    <2>2. EnvRoom(sp, sp, frame)
      <3>1. sp \in Int /\ Usable(sp)
        BY <1>1
      <3>2. Len(frame) = 1
        BY <1>3
      <3>. HIDE DEF sp
      <3>. QED
        BY ONLY <3>1, <3>2 DEF EnvRoom
    <2>3. Stored(onHost, sp, frame)[HostSP - k] = onHost[HostSP - k]
      BY ONLY <1>5, <2>1, <2>2, EnvStore
    <2>. QED
      BY <1>2, <2>3
  <1>7. CallSaved'
    <2>1. ASSUME NEW k \in 1 .. 4
          PROVE  mem'[HostSP - k] = mem[HostSP - k]
      <3>1. HostSpares(HostSP - 4, HostSP - k)
        BY <1>1, Addresses DEF HostSpares
      <3>2. /\ HostRoom(HostSP - 4, HostFrame)
            /\ Storing(mem, HostSP - 4, HostFrame)
        <4>1. HostFrame \in Seq(Int \X Int) /\ Len(HostFrame) = 15
          BY <1>1, HostFrameFact
        <4>. QED
          BY <1>1, <4>1 DEF HostRoom, Storing
      <3>3. onHost[HostSP - k] = mem[HostSP - k]
        BY ONLY <3>1, <3>2, HostStore
      <3>4. mem'[HostSP - k] = onHost[HostSP - k]
        BY <1>6
      <3>. QED
        BY <3>3, <3>4
    <2>. QED
      BY <1>1, <1>2, <2>1, CallSavedKept DEF hist
  <1>8. ASSUME NEW k \in 1 .. 15
        PROVE  /\ mem'[HostSP - 4 - 2 * k] = HostFrame[k][1]
               /\ mem'[HostSP - 3 - 2 * k] = HostFrame[k][2]
    <2>1. /\ HostSP - 4 - 2 * k = HostSP - (4 + 2 * k)
          /\ HostSP - 3 - 2 * k = HostSP - (3 + 2 * k)
          /\ 4 + 2 * k \in 1 .. 34 /\ 3 + 2 * k \in 1 .. 34
      BY <1>1
    <2>2. /\ onHost[HostSP - 4 - 2 * k] = HostFrame[k][1]
          /\ onHost[HostSP - 3 - 2 * k] = HostFrame[k][2]
      BY <1>1, HostFrameStored
    <2>. HIDE DEF onHost
    <2>. QED
      BY <1>6, <2>1, <2>2
  <1>9. HostSaved'
    <2>1. ASSUME NEW k \in 1 .. 13
          PROVE  PairSaved(k)'
      <3>1. /\ HostFrame[k][1] = cpu[2 * k + 2]
            /\ HostFrame[k][2] = cpu[2 * k + 3]
        BY <1>1, HostFrameFact
      <3>2. /\ cpu[2 * k + 2] = host[2 * k + 2]
            /\ cpu[2 * k + 3] = host[2 * k + 3]
        BY <1>1
      <3>3. /\ mem'[HostSP - 4 - 2 * k] = HostFrame[k][1]
            /\ mem'[HostSP - 3 - 2 * k] = HostFrame[k][2]
        BY <1>8
      <3>. QED
        BY <1>2, <3>1, <3>2, <3>3 DEF PairSaved, hist
    <2>2. mem'[HostSP - 32] = AfterCall /\ mem'[HostSP - 31] = host[flags]
      <3>1. HostSP - 4 - 2 * 14 = HostSP - 32 /\ HostSP - 3 - 2 * 14 = HostSP - 31
        BY <1>1
      <3>2. HostFrame[14][1] = cpu[30] /\ HostFrame[14][2] = cpu[flags]
        BY <1>1, HostFrameFact
      <3>3. cpu[flags] = host[flags]
        BY <1>1
      <3>. QED
        BY <1>1, <1>8, <3>1, <3>2, <3>3
    <2>3. mem'[HostSP - 34] = StructPtr /\ mem'[HostSP - 33] = host[3]
      <3>1. HostSP - 4 - 2 * 15 = HostSP - 34 /\ HostSP - 3 - 2 * 15 = HostSP - 33
        BY <1>1
      <3>2. HostFrame[15][1] = cpu[0] /\ HostFrame[15][2] = cpu[3]
        BY <1>1, HostFrameFact
      <3>3. cpu[3] = host[3]
        BY <1>1
      <3>. QED
        BY <1>1, <1>8, <3>1, <3>2, <3>3
    <2>. QED
      BY <1>2, <1>7, <2>1, <2>2, <2>3 DEF HostSaved, hist
  <1>10. mem'[sp - 2] = given[29] /\ mem'[sp - 1] = given[30]
    <2>. HIDE DEF onHost, frame, sp
    <2>1. sp - 2 \in Address /\ sp - 1 \in Address /\ (sp - 2) + 1 = sp - 1
      <3>1. \A k \in 1 .. 6 : sp - k \in Address
        BY <1>1, Addresses
      <3>2. sp \in Int
        BY <1>1
      <3>. QED
        BY <3>1, <3>2
    <2>2. PairAt(sp, frame, 1, sp - 2)
      BY <1>1, <1>3, <2>1 DEF PairAt
    <2>3. /\ Stored(onHost, sp, frame)[sp - 2] = frame[1][1]
          /\ Stored(onHost, sp, frame)[(sp - 2) + 1] = frame[1][2]
      BY ONLY <1>5, <2>2, StoredPair
    <2>. QED
      BY ONLY <1>2, <1>3, <2>1, <2>3
  <1>11. stub' = [stack |-> HostSP - 34, resume |-> ResumeAddress]
    BY <1>1, <1>2 DEF IInv, TypeOK
  <1>. HIDE DEF onHost, frame
  <1>12. TypeOK'
    <2>1. mem' \in [Address -> Int]
      BY <1>2, <1>5, StoredType
    <2>. QED
      BY <1>1, <1>2, <1>11, <2>1 DEF IInv, TypeOK, Labels, hist
  <1>13. AtPreExecute'
    <2>1. given' = given /\ env' = env
      BY <1>2 DEF hist
    <2>2. \A i \in CpuReg : i \notin {29, 30, SP} => cpu'[i] = given[i]
      BY <1>1, <1>2
    <2>3. cpu'[SP] = sp - 2 /\ cpu'[30] = CodeBase
      BY <1>1, <1>2
    <2>. QED
      BY <1>1, <1>9, <1>10, <1>11, <2>1, <2>2, <2>3 DEF AtPreExecute, Usable
  <1>14. History'
    BY <1>1, <1>2 DEF IInv, History, HasLeft, hist
  <1>. QED
    BY <1>1, <1>12, <1>13, <1>14
    DEF IInv, AtHost, AtExecuteAsm, AtUser, AtRestore, AtSwitch, AtAfterCall,
        AtExecuted

(* The instruction in front of the user's code loads X29 and X30.          *)
LEMMA Loaded29And30 ==
  ASSUME IInv, pre_execute
  PROVE  /\ \A i \in CpuReg : cpu'[i] = given[i]
         /\ cpu' \in [CpuReg -> Int]
  <1>1. /\ pc = "pre_execute" /\ cpu \in [CpuReg -> Int]
        /\ mem \in [Address -> Int] /\ given \in [EnvReg -> Int]
        /\ Usable(given[SP]) /\ cpu[SP] = given[SP] - 2
        /\ mem[given[SP] - 2] = given[29] /\ mem[given[SP] - 1] = given[30]
        /\ \A i \in CpuReg : i \notin {29, 30, SP} => cpu[i] = given[i]
    BY DEF IInv, TypeOK, AtPreExecute, pre_execute, Goto
  <1>2. cpu' = [cpu EXCEPT ![29] = mem[cpu[SP]], ![30] = mem[cpu[SP] + 1],
                           ![SP] = @ + 2]
    BY DEF pre_execute
  <1>3. given[SP] \in Int /\ given[29] \in Int /\ given[30] \in Int
    BY <1>1
  <1>4. cpu[SP] + 1 = given[SP] - 1 /\ cpu[SP] + 2 = given[SP]
    BY <1>1, <1>3
  <1>5. cpu' = [cpu EXCEPT ![29] = given[29], ![30] = given[30],
                           ![SP] = given[SP]]
    BY <1>1, <1>2, <1>4
  <1>. QED
    BY ONLY <1>1, <1>3, <1>5

LEMMA PreExecuteStep ==
  ASSUME IInv, pre_execute
  PROVE  IInv'
  <1>1. /\ pc = "pre_execute" /\ pc' = "user"
        /\ HostSaved /\ Usable(given[SP])
        /\ stub = [stack |-> HostSP - 34, resume |-> ResumeAddress]
        /\ cached' \in {program, cached} \ {NoProgram}
        /\ UNCHANGED <<mem, env, shadow, stub, program, changed, writes, hist>>
    BY DEF IInv, AtPreExecute, pre_execute, Goto
  <1>2. cpu' \in [CpuReg -> Int] /\ cpu'[SP] = given[SP]
    BY Loaded29And30
  <1>3. TypeOK'
    BY <1>1, <1>2 DEF IInv, TypeOK, Labels, hist
  <1>4. AtUser'
    <2>1. HostSaved'
      BY <1>1, HostSavedKept DEF hist
    <2>. QED
      BY <1>1, <1>2, <2>1 DEF AtUser, Usable
  <1>5. History'
    BY <1>1 DEF IInv, History, HasLeft, hist
  <1>. QED
    BY <1>1, <1>3, <1>4, <1>5
    DEF IInv, AtHost, AtExecuteAsm, AtPreExecute, AtRestore, AtSwitch,
        AtAfterCall, AtExecuted

(* The user's instructions reach every register and the environment's      *)
(* stack, but no word of the host's.                                       *)
LEMMA UserStep ==
  ASSUME IInv, User
  PROVE  IInv'
  <1>1. /\ pc = "user" /\ pc' = "user" /\ writes \in Nat /\ writes' = writes + 1
        /\ cpu \in [CpuReg -> Int] /\ mem \in [Address -> Int]
        /\ HostSaved /\ Usable(cpu[SP]) /\ cached # NoProgram
        /\ stub = [stack |-> HostSP - 34, resume |-> ResumeAddress]
        /\ UNCHANGED <<env, shadow, code, changed, hist>>
    BY DEF IInv, TypeOK, AtUser, User, UserWrite, UserMoveStack, UserStore,
           InUserCode
  <1>2. /\ cpu' \in [CpuReg -> Int] /\ Usable(cpu'[SP])
        /\ mem' \in [Address -> Int]
        /\ \A k \in 1 .. 34 : mem'[HostSP - k] = mem[HostSP - k]
    <2>1. ASSUME NEW i \in CpuReg, NEW v \in Word, UserWrite(i, v)
          PROVE  <1>2!:
      <3>1. v \in Int
        BY StartAssumption
      <3>2. i # SP /\ cpu' = [cpu EXCEPT ![i] = v] /\ mem' = mem
        BY <2>1 DEF UserWrite
      <3>3. cpu' \in [CpuReg -> Int] /\ cpu'[SP] = cpu[SP]
        BY <1>1, <3>1, <3>2
      <3>. QED
        BY <1>1, <3>2, <3>3
    <2>2. ASSUME NEW sp \in EnvMem, UserMoveStack(sp)
          PROVE  <1>2!:
      <3>1. sp \in Int
        BY MemAssumption
      <3>2. Usable(sp) /\ cpu' = [cpu EXCEPT ![SP] = sp] /\ mem' = mem
        BY <2>2 DEF UserMoveStack
      <3>3. cpu' \in [CpuReg -> Int] /\ cpu'[SP] = sp
        BY <1>1, <3>1, <3>2
      <3>. QED
        BY <1>1, <3>2, <3>3
    <2>3. ASSUME NEW a \in EnvMem, NEW v \in Word, UserStore(a, v)
          PROVE  <1>2!:
      <3>1. v \in Int /\ a \in Address
        BY StartAssumption, Addresses
      <3>2. mem' = [mem EXCEPT ![a] = v] /\ cpu' = cpu
        BY <2>3 DEF UserStore
      <3>3. \A k \in 1 .. 34 : HostSP - k \in Address /\ HostSP - k # a
        BY Addresses
      <3>. QED
        BY <1>1, <3>1, <3>2, <3>3
    <2>. QED
      BY <2>1, <2>2, <2>3 DEF User
  <1>3. HostSaved'
    BY <1>1, <1>2, HostSavedKept DEF hist
  <1>4. TypeOK'
    BY <1>1, <1>2 DEF IInv, TypeOK, Labels, hist, code
  <1>5. AtUser'
    BY <1>1, <1>2, <1>3 DEF AtUser, Usable, code
  <1>6. History'
    BY <1>1 DEF IInv, History, HasLeft, hist, code
  <1>. QED
    BY <1>1, <1>4, <1>5, <1>6
    DEF IInv, AtHost, AtExecuteAsm, AtPreExecute, AtRestore, AtSwitch,
        AtAfterCall, AtExecuted

(* The exit instructions push four registers and free X0 and X1 for the    *)
(* two patched addresses.                                                  *)
LEMMA ExitStep ==
  ASSUME IInv, exit_instructions
  PROVE  IInv'
  <1>. DEFINE sp == cpu[SP]
              frame == <<<<cpu[0], cpu[1]>>, <<ADR, cpu[flags]>>>>
  <1>1. /\ pc = "user" /\ pc' = "restore_execution"
        /\ cpu \in [CpuReg -> Int] /\ mem \in [Address -> Int]
        /\ HostSaved /\ Usable(sp) /\ sp \in Int
        /\ stub = [stack |-> HostSP - 34, resume |-> ResumeAddress]
        /\ cached \in Program /\ program \in Program
        /\ SizeOf[cached] = SizeOf[program]
    BY DEF IInv, TypeOK, AtUser, exit_instructions, Goto, History
  <1>2. /\ mem' = Stored(mem, sp, frame)
        /\ cpu' = [cpu EXCEPT ![0] = stub.stack, ![1] = stub.resume, ![SP] = @ - 4]
        /\ left' = [i \in EnvReg |-> IF i = PC THEN ADR ELSE cpu[i]]
        /\ UNCHANGED <<env, shadow, code, changed, writes, host, given>>
    BY DEF exit_instructions, ExitFrame
  <1>3. ADR \in Int /\ ADR = CodeBase + PreExecuteSize + SizeOf[program] + 4
    <2>1. SizeOf[program] \in Int /\ CodeBase \in Int
      BY <1>1, CodeAssumption
    <2>. QED
      BY <1>1, <2>1 DEF ADR, PreExecuteSize
  <1>4. /\ frame \in Seq(Int \X Int) /\ Len(frame) = 2
        /\ frame[1][1] = cpu[0] /\ frame[1][2] = cpu[1]
        /\ frame[2][1] = ADR /\ frame[2][2] = cpu[flags]
    BY <1>1, <1>3
  <1>. HIDE DEF frame
  <1>5. /\ left' \in [EnvReg -> Int] /\ left'[PC] = ADR /\ left'[SP] = sp
        /\ \A i \in CpuReg : left'[i] = cpu[i]
    BY <1>1, <1>2, <1>3
  <1>. HIDE DEF sp
  <1>6. Storing(mem, sp, frame)
    BY <1>1, <1>4 DEF Storing
  <1>7. HostSaved'
    <2>1. ASSUME NEW k \in 1 .. 34
          PROVE  mem'[HostSP - k] = mem[HostSP - k]
      <3>1. EnvSpares(sp, HostSP - k)
        BY Addresses DEF EnvSpares
      <3>2. EnvRoom(sp, sp, frame)
        <4>1. sp \in Int /\ Usable(sp)
          BY <1>1
        <4>2. Len(frame) = 2
          BY <1>4
        <4>. QED
          BY ONLY <4>1, <4>2 DEF EnvRoom
      <3>3. Stored(mem, sp, frame)[HostSP - k] = mem[HostSP - k]
        BY ONLY <1>6, <3>1, <3>2, EnvStore
      <3>. QED
        BY <1>2, <3>3
    <2>. QED
      BY <1>1, <1>2, <2>1, HostSavedKept
  <1>8. /\ mem'[sp - 2] = cpu[0] /\ mem'[sp - 1] = cpu[1]
        /\ mem'[sp - 4] = ADR /\ mem'[sp - 3] = cpu[flags]
    <2>0. sp \in Int
      BY <1>1
    <2>1. \A k \in 1 .. 6 : sp - k \in Address
      BY <1>1, Addresses
    <2>2. /\ sp - 2 \in Address /\ sp - 1 \in Address
          /\ sp - 4 \in Address /\ sp - 3 \in Address
          /\ (sp - 2) + 1 = sp - 1 /\ (sp - 4) + 1 = sp - 3
      BY <2>0, <2>1
    <2>3. PairAt(sp, frame, 1, sp - 2) /\ PairAt(sp, frame, 2, sp - 4)
      BY <1>4, <2>0, <2>2 DEF PairAt
    <2>4. /\ Stored(mem, sp, frame)[sp - 2] = frame[1][1]
          /\ Stored(mem, sp, frame)[(sp - 2) + 1] = frame[1][2]
      BY ONLY <1>6, <2>3, StoredPair
    <2>5. /\ Stored(mem, sp, frame)[sp - 4] = frame[2][1]
          /\ Stored(mem, sp, frame)[(sp - 4) + 1] = frame[2][2]
      BY ONLY <1>6, <2>3, StoredPair
    <2>. QED
      BY ONLY <1>2, <1>4, <2>2, <2>4, <2>5
  <1>9. ExitSaved'
    <2>1. /\ left'[SP] = sp /\ left'[0] = cpu[0] /\ left'[1] = cpu[1]
          /\ left'[PC] = ADR /\ left'[flags] = cpu[flags]
      BY <1>5
    <2>. QED
      BY <1>8, <2>1 DEF ExitSaved
  <1>10. /\ cpu' \in [CpuReg -> Int] /\ cpu'[0] = HostSP - 34
         /\ cpu'[SP] = sp - 4 /\ \A i \in 2 .. 31 : cpu'[i] = cpu[i]
    <2>1. HostSP - 34 \in Int /\ ResumeAddress \in Int
      BY Addresses
    <2>2. cpu' = [cpu EXCEPT ![0] = HostSP - 34, ![1] = ResumeAddress,
                             ![SP] = sp - 4]
      BY <1>1, <1>2 DEF sp
    <2>. QED
      BY <1>1, <2>1, <2>2
  <1>11. TypeOK'
    <2>1. mem' \in [Address -> Int]
      BY <1>2, <1>6, StoredType
    <2>. QED
      BY <1>1, <1>2, <1>5, <1>10, <2>1 DEF IInv, TypeOK, Labels, code
  <1>12. AtRestore'
    <2>1. Usable(left'[SP])
      BY <1>1, <1>5
    <2>2. \A i \in 2 .. 30 : cpu'[i] = left'[i]
      BY <1>5, <1>10
    <2>3. cpu'[SP] = left'[SP] - 4
      BY <1>5, <1>10
    <2>. QED
      BY <1>1, <1>7, <1>9, <1>10, <2>1, <2>2, <2>3 DEF AtRestore, Usable
  <1>13. History'
    BY <1>1, <1>2, <1>3, <1>5 DEF IInv, History, HasLeft, code
  <1>. QED
    BY <1>1, <1>11, <1>12, <1>13
    DEF IInv, AtHost, AtExecuteAsm, AtPreExecute, AtUser, AtSwitch,
        AtAfterCall, AtExecuted

(* Where each register of the environment is loaded from.                  *)
LEMMA EnvPairsLoaded ==
  ASSUME NEW m, NEW low \in Int
  PROVE  /\ Loaded(m, low, EnvPairs, 2) = m[low]
         /\ Loaded(m, low, EnvPairs, 3) = m[low + 1]
         /\ Loaded(m, low, EnvPairs, PC) = m[low + 2]
         /\ Loaded(m, low, EnvPairs, flags) = m[low + 3]
         /\ Loaded(m, low, EnvPairs, 0) = m[low + 4]
         /\ Loaded(m, low, EnvPairs, 1) = m[low + 5]
  <1>1. /\ Len(EnvPairs) = 3 /\ EnvPairs[1] = <<2, 3>>
        /\ EnvPairs[2] = <<PC, flags>> /\ EnvPairs[3] = <<0, 1>>
    BY DEF EnvPairs
  <1>2. ASSUME NEW k \in 1 .. 3, NEW j \in {1, 2},
               NEW n \in 1 .. 3, NEW l \in {1, 2},
               EnvPairs[n][l] = EnvPairs[k][j]
        PROVE  n = k /\ l = j
    BY <1>1, <1>2
  <1>3. ASSUME NEW k \in 1 .. 3, NEW j \in {1, 2}, NEW i, i = EnvPairs[k][j]
        PROVE  Loaded(m, low, EnvPairs, i) = m[low + 2 * k + j - 3]
    <2>1. OnlyAt(EnvPairs, i, k, j)
      BY <1>1, <1>2, <1>3 DEF OnlyAt
    <2>. QED
      BY ONLY <2>1, LoadedWord
  <1>4. /\ low + 2 * 1 + 1 - 3 = low /\ low + 2 * 1 + 2 - 3 = low + 1
        /\ low + 2 * 2 + 1 - 3 = low + 2 /\ low + 2 * 2 + 2 - 3 = low + 3
        /\ low + 2 * 3 + 1 - 3 = low + 4 /\ low + 2 * 3 + 2 - 3 = low + 5
    OBVIOUS
  <1>5. /\ EnvPairs[1][1] = 2 /\ EnvPairs[1][2] = 3
        /\ EnvPairs[2][1] = PC /\ EnvPairs[2][2] = flags
        /\ EnvPairs[3][1] = 0 /\ EnvPairs[3][2] = 1
    BY <1>1
  <1>. QED
    BY <1>3, <1>4, <1>5

LEMMA EnvPairsOccur ==
  \A i \in EnvReg : Occurs(EnvPairs, i) <=> i \in {0, 1, 2, 3, flags, PC}
  <1>1. /\ Len(EnvPairs) = 3 /\ EnvPairs[1] = <<2, 3>>
        /\ EnvPairs[2] = <<PC, flags>> /\ EnvPairs[3] = <<0, 1>>
    BY DEF EnvPairs
  <1>2. ASSUME NEW i \in EnvReg
        PROVE  Occurs(EnvPairs, i) <=> i \in {0, 1, 2, 3, flags, PC}
    <2>1. Occurs(EnvPairs, i) <=>
            \E k \in {1, 2, 3} : i \in {EnvPairs[k][1], EnvPairs[k][2]}
      <3>1. 1 .. Len(EnvPairs) = {1, 2, 3}
        BY <1>1
      <3>. QED
        BY <3>1 DEF Occurs
    <2>. QED
      BY <1>1, <2>1
  <1>. QED
    BY <1>2

(* restore_execution collects what the user's code left: four registers    *)
(* and PC from its stack, SP itself, the rest from the processor.          *)
LEMMA RestoreStep ==
  ASSUME IInv, restore_execution
  PROVE  IInv'
  <1>. DEFINE top == left[SP]
              sp == left[SP] - 4
              low == left[SP] - 6
              frame == <<<<left[2], left[3]>>>>
  <1>1. /\ pc = "restore_execution" /\ pc' = "switch_stacks"
        /\ cpu \in [CpuReg -> Int] /\ mem \in [Address -> Int]
        /\ left \in [EnvReg -> Int] /\ HostSaved /\ ExitSaved
        /\ cpu[0] = HostSP - 34 /\ cpu[SP] = sp
        /\ \A i \in 2 .. 30 : cpu[i] = left[i]
        /\ Usable(top) /\ top \in Int /\ HostSP \in Int
    BY Addresses DEF IInv, TypeOK, AtRestore, restore_execution, Goto
  <1>2. /\ cpu[SP] - 2 = low /\ low + 2 * Len(EnvPairs) = top
        /\ cpu[0] + 2 = HostSP - 32 /\ cpu[0] + 1 = HostSP - 33
        /\ cpu[2] = left[2] /\ cpu[3] = left[3] /\ low \in Int
    <2>1. Len(EnvPairs) = 3
      BY DEF EnvPairs
    <2>2. cpu[2] = left[2] /\ cpu[3] = left[3]
      BY <1>1
    <2>. QED
      BY <1>1, <2>1, <2>2
  <1>3. /\ mem' = Stored(mem, sp, frame)
        /\ env' = [i \in EnvReg |->
                     IF Occurs(EnvPairs, i) THEN Loaded(mem', low, EnvPairs, i)
                     ELSE IF i = SP THEN top ELSE cpu[i]]
        /\ cpu' = [cpu EXCEPT ![0] = HostSP - 32, ![3] = mem[HostSP - 33],
                              ![SP] = top]
        /\ UNCHANGED <<shadow, code, changed, writes, hist>>
    <2>. HIDE DEF low, top, sp
    <2>. QED
      BY <1>1, <1>2 DEF restore_execution
  <1>4. /\ frame \in Seq(Int \X Int) /\ Len(frame) = 1
        /\ frame[1][1] = left[2] /\ frame[1][2] = left[3]
    BY <1>1
  <1>5. /\ sp = top - 4 /\ low = top - 6 /\ sp \in Int
        /\ \A k \in 1 .. 6 : top - k \in Address
    BY <1>1, Addresses
  <1>. HIDE DEF frame, sp
  <1>6. Storing(mem, sp, frame)
    BY <1>1, <1>4, <1>5 DEF Storing
  <1>7. ASSUME NEW a \in Address, a \in HostMem \/ a >= top - 4
        PROVE  mem'[a] = mem[a]
    <2>. HIDE DEF top
    <2>1. EnvRoom(top, sp, frame)
      <3>1. top \in Int /\ Usable(top)
        BY <1>1
      <3>2. Len(frame) = 1
        BY <1>4
      <3>. QED
        BY ONLY <1>5, <3>1, <3>2 DEF EnvRoom
    <2>2. EnvSpares(sp, a)
      BY <1>5, <1>7 DEF EnvSpares
    <2>3. Stored(mem, sp, frame)[a] = mem[a]
      BY ONLY <1>6, <2>1, <2>2, EnvStore
    <2>. QED
      BY <1>3, <2>3
  <1>8. HostSaved'
    <2>1. ASSUME NEW k \in 1 .. 34
          PROVE  mem'[HostSP - k] = mem[HostSP - k]
      <3>1. HostSP - k \in HostMem /\ HostSP - k \in Address
        BY Addresses
      <3>. QED
        BY <1>7, <3>1
    <2>. QED
      BY <1>1, <1>3, <2>1, HostSavedKept DEF hist
  <1>9. mem'[low] = left[2] /\ mem'[low + 1] = left[3]
    <2>1. low \in Address /\ low + 1 \in Address
      <3>1. low = top - 6 /\ low + 1 = top - 5
        BY <1>1
      <3>2. 6 \in 1 .. 6 /\ 5 \in 1 .. 6
        OBVIOUS
      <3>. QED
        BY ONLY <1>5, <3>1, <3>2
    <2>2. low = sp - 2
      BY <1>1 DEF sp
    <2>. HIDE DEF low
    <2>3. PairAt(sp, frame, 1, low)
      BY <1>4, <1>5, <2>1, <2>2 DEF PairAt
    <2>4. /\ Stored(mem, sp, frame)[low] = frame[1][1]
          /\ Stored(mem, sp, frame)[low + 1] = frame[1][2]
      BY ONLY <1>6, <2>3, StoredPair
    <2>. QED
      BY ONLY <1>3, <1>4, <2>4
  <1>10. /\ mem'[low + 2] = left[PC] /\ mem'[low + 3] = left[flags]
         /\ mem'[low + 4] = left[0] /\ mem'[low + 5] = left[1]
    <2>1. /\ low + 2 = top - 4 /\ low + 3 = top - 3
          /\ low + 4 = top - 2 /\ low + 5 = top - 1
      BY <1>1
    <2>2. ASSUME NEW k \in 1 .. 4
          PROVE  mem'[top - k] = mem[top - k]
      <3>1. top - k \in Address /\ top - k >= top - 4
        BY <1>1, <1>5
      <3>. QED
        BY <1>7, <3>1
    <2>3. /\ mem[top - 4] = left[PC] /\ mem[top - 3] = left[flags]
          /\ mem[top - 2] = left[0] /\ mem[top - 1] = left[1]
      BY <1>1 DEF ExitSaved
    <2>. HIDE DEF low, top
    <2>. QED
      BY <2>1, <2>2, <2>3
  <1>11. env' = left
    <2>. HIDE DEF low, top
    <2>1. ASSUME NEW i \in EnvReg
          PROVE  env'[i] = left[i]
      <3>1. env'[i] = IF Occurs(EnvPairs, i) THEN Loaded(mem', low, EnvPairs, i)
                      ELSE IF i = SP THEN top ELSE cpu[i]
        BY <1>3
      <3>2. CASE i \in {0, 1, 2, 3, flags, PC}
        <4>1. env'[i] = Loaded(mem', low, EnvPairs, i)
          BY <3>1, <3>2, EnvPairsOccur
        <4>2. /\ Loaded(mem', low, EnvPairs, 2) = left[2]
              /\ Loaded(mem', low, EnvPairs, 3) = left[3]
              /\ Loaded(mem', low, EnvPairs, PC) = left[PC]
              /\ Loaded(mem', low, EnvPairs, flags) = left[flags]
              /\ Loaded(mem', low, EnvPairs, 0) = left[0]
              /\ Loaded(mem', low, EnvPairs, 1) = left[1]
          <5>1. /\ Loaded(mem', low, EnvPairs, 2) = mem'[low]
                /\ Loaded(mem', low, EnvPairs, 3) = mem'[low + 1]
                /\ Loaded(mem', low, EnvPairs, PC) = mem'[low + 2]
                /\ Loaded(mem', low, EnvPairs, flags) = mem'[low + 3]
                /\ Loaded(mem', low, EnvPairs, 0) = mem'[low + 4]
                /\ Loaded(mem', low, EnvPairs, 1) = mem'[low + 5]
            <6>1. low \in Int
              BY <1>2
            <6>. QED
              BY ONLY <6>1, EnvPairsLoaded
          <5>. QED
            BY ONLY <1>9, <1>10, <5>1
        <4>. QED
          BY <3>2, <4>1, <4>2
      <3>3. CASE i = SP
        <4>1. env'[i] = top
          BY <3>1, <3>3, EnvPairsOccur
        <4>. QED
          BY <3>3, <4>1 DEF top
      <3>4. CASE i \in 4 .. 30
        <4>1. env'[i] = cpu[i]
          BY <3>1, <3>4, EnvPairsOccur
        <4>. QED
          BY <1>1, <3>4, <4>1
      <3>. QED
        BY <3>2, <3>3, <3>4
    <2>2. env' = [i \in EnvReg |-> env'[i]]
      BY <1>3
    <2>3. left = [i \in EnvReg |-> left[i]]
      BY <1>1
    <2>. QED
      BY <2>1, <2>2, <2>3
  <1>12. /\ cpu' \in [CpuReg -> Int] /\ cpu'[0] = HostSP - 32
         /\ cpu'[3] = host[3]
    <2>1. mem[HostSP - 33] = host[3] /\ host[3] \in Int
      BY <1>1 DEF HostSaved, IInv, TypeOK
    <2>2. HostSP - 32 \in Int /\ top \in Int
      BY <1>1
    <2>. HIDE DEF top
    <2>. QED
      BY <1>1, <1>3, <2>1, <2>2
  <1>13. TypeOK'
    <2>1. mem' \in [Address -> Int]
      BY <1>3, <1>6, StoredType
    <2>. QED
      BY <1>1, <1>3, <1>11, <1>12, <2>1 DEF IInv, TypeOK, Labels, hist, code
  <1>14. AtSwitch'
    BY <1>1, <1>3, <1>8, <1>11, <1>12 DEF AtSwitch, hist
  <1>15. History'
    BY <1>1, <1>3 DEF IInv, History, HasLeft, hist, code
  <1>. QED
    BY <1>1, <1>13, <1>14, <1>15
    DEF IInv, AtHost, AtExecuteAsm, AtPreExecute, AtUser, AtRestore,
        AtAfterCall, AtExecuted

(* Where each register of the host is loaded from.                         *)
LEMMA LoadPairsLoaded ==
  ASSUME NEW m, NEW sp \in Int, NEW k \in 1 .. 14
  PROVE  /\ Loaded(m, sp, LoadPairs, 32 - 2 * k) = m[sp + 2 * k - 2]
         /\ Loaded(m, sp, LoadPairs, 33 - 2 * k) = m[sp + 2 * k - 1]
  <1>1. ASSUME NEW n \in 1 .. Len(LoadPairs), NEW l \in {1, 2}
        PROVE  /\ LoadPairs[n][l] = 32 - 2 * k => n = k /\ l = 1
               /\ LoadPairs[n][l] = 33 - 2 * k => n = k /\ l = 2
    <2>1. n \in 1 .. 14
      BY LoadPairsFact
    <2>2. LoadPairs[n][1] = 32 - 2 * n /\ LoadPairs[n][2] = 33 - 2 * n
      BY <2>1, LoadPairsFact
    <2>3. CASE l = 1
      BY <2>1, <2>2, <2>3
    <2>4. CASE l = 2
      BY <2>1, <2>2, <2>4
    <2>. QED
      BY <2>3, <2>4
  <1>2. /\ k \in 1 .. Len(LoadPairs)
        /\ LoadPairs[k][1] = 32 - 2 * k /\ LoadPairs[k][2] = 33 - 2 * k
    BY LoadPairsFact
  <1>3. /\ OnlyAt(LoadPairs, 32 - 2 * k, k, 1)
        /\ OnlyAt(LoadPairs, 33 - 2 * k, k, 2)
    BY ONLY <1>1, <1>2 DEF OnlyAt
  <1>4. /\ Loaded(m, sp, LoadPairs, 32 - 2 * k) = m[sp + 2 * k + 1 - 3]
        /\ Loaded(m, sp, LoadPairs, 33 - 2 * k) = m[sp + 2 * k + 2 - 3]
    BY ONLY <1>3, LoadedWord
  <1>5. sp + 2 * k + 1 - 3 = sp + 2 * k - 2 /\ sp + 2 * k + 2 - 3 = sp + 2 * k - 1
    OBVIOUS
  <1>. QED
    BY ONLY <1>4, <1>5

LEMMA LoadPairsOccur ==
  \A i \in CpuReg : Occurs(LoadPairs, i) <=> i \in 4 .. 31
  <1>1. \A k \in 1 .. 14 : LoadPairs[k][1] = 32 - 2 * k /\ LoadPairs[k][2] = 33 - 2 * k
    BY LoadPairsFact
  <1>2. ASSUME NEW i \in CpuReg
        PROVE  Occurs(LoadPairs, i) <=>
                 \E k \in 1 .. 14 : i = 32 - 2 * k \/ i = 33 - 2 * k
    BY <1>1, LoadPairsFact DEF Occurs
  <1>3. ASSUME NEW i \in 4 .. 31
        PROVE  \E k \in 1 .. 14 : i = 32 - 2 * k \/ i = 33 - 2 * k
    <2>. DEFINE k == (33 - i) \div 2
    <2>1. k \in 1 .. 14 /\ (i = 32 - 2 * k \/ i = 33 - 2 * k)
      OBVIOUS
    <2>. QED
      BY <2>1
  <1>. QED
    BY <1>2, <1>3

(* switch_stacks gives the host its registers 4 to 31 back.                *)
LEMMA SwitchStep ==
  ASSUME IInv, switch_stacks
  PROVE  IInv'
  <1>1. /\ pc = "switch_stacks" /\ pc' = "after_call"
        /\ cpu \in [CpuReg -> Int] /\ mem \in [Address -> Int]
        /\ host \in [CpuReg -> Int] /\ HostSP \in Int
        /\ HostSaved /\ env = left /\ cpu[0] = HostSP - 32 /\ cpu[3] = host[3]
        /\ UNCHANGED <<mem, env, shadow, code, changed, writes, hist>>
    BY Addresses DEF IInv, TypeOK, AtSwitch, switch_stacks, Goto
  <1>2. (HostSP - 32) + 2 * Len(LoadPairs) = HostSP - 4
    BY <1>1, LoadPairsFact
  <1>3. cpu' = [i \in CpuReg |->
                  IF Occurs(LoadPairs, i) THEN Loaded(mem, HostSP - 32, LoadPairs, i)
                  ELSE IF i = SP THEN HostSP - 4
                  ELSE cpu[i]]
    BY <1>1, <1>2 DEF switch_stacks
  <1>4. ASSUME NEW k \in 1 .. 14
        PROVE  /\ Loaded(mem, HostSP - 32, LoadPairs, 32 - 2 * k) =
                    mem[HostSP - 34 + 2 * k]
               /\ Loaded(mem, HostSP - 32, LoadPairs, 33 - 2 * k) =
                    mem[HostSP - 33 + 2 * k]
    <2>. DEFINE sp == HostSP - 32
    <2>1. sp \in Int
      BY <1>1
    <2>2. /\ sp + 2 * k - 2 = HostSP - 34 + 2 * k
          /\ sp + 2 * k - 1 = HostSP - 33 + 2 * k
      BY <1>1
    <2>. HIDE DEF sp
    <2>3. /\ Loaded(mem, sp, LoadPairs, 32 - 2 * k) = mem[sp + 2 * k - 2]
          /\ Loaded(mem, sp, LoadPairs, 33 - 2 * k) = mem[sp + 2 * k - 1]
      BY ONLY <2>1, LoadPairsLoaded
    <2>4. /\ Loaded(mem, sp, LoadPairs, 32 - 2 * k) = mem[HostSP - 34 + 2 * k]
          /\ Loaded(mem, sp, LoadPairs, 33 - 2 * k) = mem[HostSP - 33 + 2 * k]
      BY ONLY <2>2, <2>3
    <2>. QED
      BY ONLY <2>4 DEF sp
  <1>5. /\ mem[HostSP - 34 + 2 * 1] = AfterCall
        /\ mem[HostSP - 33 + 2 * 1] = host[flags]
    <2>1. HostSP - 34 + 2 * 1 = HostSP - 32 /\ HostSP - 33 + 2 * 1 = HostSP - 31
      BY <1>1
    <2>. QED
      BY <1>1, <2>1 DEF HostSaved
  <1>6. ASSUME NEW k \in 2 .. 14
        PROVE  /\ mem[HostSP - 34 + 2 * k] = host[32 - 2 * k]
               /\ mem[HostSP - 33 + 2 * k] = host[33 - 2 * k]
    <2>. DEFINE n == 15 - k
    <2>1. /\ n \in 1 .. 13
          /\ HostSP - 34 + 2 * k = HostSP - 4 - 2 * n
          /\ HostSP - 33 + 2 * k = HostSP - 3 - 2 * n
          /\ 2 * n + 2 = 32 - 2 * k /\ 2 * n + 3 = 33 - 2 * k
      BY <1>1
    <2>2. PairSaved(n)
      BY <1>1, <2>1 DEF HostSaved
    <2>. QED
      BY <2>1, <2>2 DEF PairSaved
  <1>7. ASSUME NEW i \in 4 .. 31
        PROVE  cpu'[i] = IF i = 30 THEN AfterCall ELSE host[i]
    <2>1. PICK k \in 1 .. 14 : i = 32 - 2 * k \/ i = 33 - 2 * k
      <3>. DEFINE k == (33 - i) \div 2
      <3>1. k \in 1 .. 14 /\ (i = 32 - 2 * k \/ i = 33 - 2 * k)
        OBVIOUS
      <3>. QED
        BY <3>1
    <2>2. cpu'[i] = Loaded(mem, HostSP - 32, LoadPairs, i)
      BY <1>3, LoadPairsOccur
    <2>3. CASE k = 1
      BY <1>4, <1>5, <2>1, <2>2, <2>3
    <2>4. CASE k \in 2 .. 14
      <3>1. /\ Loaded(mem, HostSP - 32, LoadPairs, 32 - 2 * k) = host[32 - 2 * k]
            /\ Loaded(mem, HostSP - 32, LoadPairs, 33 - 2 * k) = host[33 - 2 * k]
        BY <1>4, <1>6, <2>4
      <3>2. i # 30
        BY <2>1, <2>4
      <3>. QED
        BY <2>1, <2>2, <3>1, <3>2
    <2>. QED
      BY <2>3, <2>4
  <1>8. /\ cpu'[SP] = HostSP - 4
        /\ \A i \in 0 .. 3 : cpu'[i] = cpu[i]
    BY <1>3, LoadPairsOccur
  <1>9. cpu' \in [CpuReg -> Int]
    <2>1. ASSUME NEW i \in CpuReg
          PROVE  cpu'[i] \in Int
      <3>1. CASE i \in 4 .. 31
        BY <1>1, <1>7, <3>1
      <3>2. CASE i \in 0 .. 3
        BY <1>1, <1>8, <3>2
      <3>3. CASE i = SP
        BY <1>1, <1>8, <3>3
      <3>. QED
        BY <3>1, <3>2, <3>3
    <2>2. cpu' = [i \in CpuReg |-> cpu'[i]]
      BY <1>3
    <2>. QED
      BY <2>1, <2>2
  <1>10. TypeOK'
    BY <1>1, <1>9 DEF IInv, TypeOK, Labels, hist, code
  <1>11. AtAfterCall'
    <2>1. ASSUME NEW i \in 3 .. 31, i # 30
          PROVE  cpu'[i] = host[i]
      <3>1. CASE i = 3
        BY <1>1, <1>8, <3>1
      <3>2. CASE i \in 4 .. 31
        BY <1>7, <2>1, <3>2
      <3>. QED
        BY <3>1, <3>2
    <2>2. CallSaved'
      BY <1>1 DEF HostSaved, CallSaved, hist
    <2>. QED
      BY <1>1, <1>8, <2>1, <2>2 DEF AtAfterCall, hist
  <1>12. History'
    BY <1>1 DEF IInv, History, HasLeft, hist, code
  <1>. QED
    BY <1>1, <1>10, <1>11, <1>12
    DEF IInv, AtHost, AtExecuteAsm, AtPreExecute, AtUser, AtRestore, AtSwitch,
        AtExecuted

(* Where the last four registers are loaded from.                          *)
LEMMA CallPairsLoaded ==
  ASSUME NEW m, NEW sp \in Int
  PROVE  /\ Loaded(m, sp, CallPairs, 2) = m[sp]
         /\ Loaded(m, sp, CallPairs, 30) = m[sp + 1]
         /\ Loaded(m, sp, CallPairs, 0) = m[sp + 2]
         /\ Loaded(m, sp, CallPairs, 1) = m[sp + 3]
  <1>1. /\ Len(CallPairs) = 2
        /\ CallPairs[1] = <<2, 30>> /\ CallPairs[2] = <<0, 1>>
    BY DEF CallPairs
  <1>2. /\ OnlyAt(CallPairs, 2, 1, 1) /\ OnlyAt(CallPairs, 30, 1, 2)
        /\ OnlyAt(CallPairs, 0, 2, 1) /\ OnlyAt(CallPairs, 1, 2, 2)
    BY <1>1 DEF OnlyAt
  <1>3. /\ Loaded(m, sp, CallPairs, 2) = m[sp + 2 * 1 + 1 - 3]
        /\ Loaded(m, sp, CallPairs, 30) = m[sp + 2 * 1 + 2 - 3]
        /\ Loaded(m, sp, CallPairs, 0) = m[sp + 2 * 2 + 1 - 3]
        /\ Loaded(m, sp, CallPairs, 1) = m[sp + 2 * 2 + 2 - 3]
    BY ONLY <1>2, LoadedWord
  <1>4. /\ sp + 2 * 1 + 1 - 3 = sp /\ sp + 2 * 1 + 2 - 3 = sp + 1
        /\ sp + 2 * 2 + 1 - 3 = sp + 2 /\ sp + 2 * 2 + 2 - 3 = sp + 3
    OBVIOUS
  <1>. QED
    BY ONLY <1>3, <1>4

LEMMA CallPairsOccur ==
  \A i \in CpuReg : Occurs(CallPairs, i) <=> i \in {0, 1, 2, 30}
  <1>1. /\ 1 .. Len(CallPairs) = {1, 2}
        /\ CallPairs[1] = <<2, 30>> /\ CallPairs[2] = <<0, 1>>
    BY DEF CallPairs
  <1>. QED
    BY <1>1 DEF Occurs

(* after_call gives the host the rest of its registers.                    *)
LEMMA AfterCallStep ==
  ASSUME IInv, after_call
  PROVE  IInv'
  <1>. DEFINE sp == HostSP - 4
  <1>1. /\ pc = "after_call" /\ pc' = "executed"
        /\ cpu \in [CpuReg -> Int] /\ host \in [CpuReg -> Int]
        /\ HostSP \in Int /\ host[SP] = HostSP
        /\ CallSaved /\ env = left /\ cpu[SP] = sp
        /\ \A i \in 3 .. 31 : i # 30 => cpu[i] = host[i]
        /\ UNCHANGED <<mem, env, shadow, code, changed, writes, hist>>
    BY Addresses DEF IInv, TypeOK, AtAfterCall, History, after_call, Goto
  <1>2. sp \in Int /\ sp + 2 * Len(CallPairs) = HostSP
    BY <1>1 DEF CallPairs
  <1>3. cpu' = [i \in CpuReg |->
                  IF Occurs(CallPairs, i) THEN Loaded(mem, sp, CallPairs, i)
                  ELSE IF i = SP THEN HostSP ELSE cpu[i]]
    <2>. HIDE DEF sp
    <2>. QED
      BY <1>1, <1>2 DEF after_call
  <1>4. /\ mem[sp] = host[2] /\ mem[sp + 1] = host[30]
        /\ mem[sp + 2] = host[0] /\ mem[sp + 3] = host[1]
    <2>1. sp + 1 = HostSP - 3 /\ sp + 2 = HostSP - 2 /\ sp + 3 = HostSP - 1
      BY <1>1
    <2>. QED
      BY <1>1, <2>1 DEF CallSaved
  <1>. HIDE DEF sp
  <1>5. /\ Loaded(mem, sp, CallPairs, 2) = host[2]
        /\ Loaded(mem, sp, CallPairs, 30) = host[30]
        /\ Loaded(mem, sp, CallPairs, 0) = host[0]
        /\ Loaded(mem, sp, CallPairs, 1) = host[1]
    <2>1. /\ Loaded(mem, sp, CallPairs, 2) = mem[sp]
          /\ Loaded(mem, sp, CallPairs, 30) = mem[sp + 1]
          /\ Loaded(mem, sp, CallPairs, 0) = mem[sp + 2]
          /\ Loaded(mem, sp, CallPairs, 1) = mem[sp + 3]
      BY ONLY <1>2, CallPairsLoaded
    <2>. QED
      BY ONLY <1>4, <2>1
  <1>6. cpu' = host
    <2>1. ASSUME NEW i \in CpuReg
          PROVE  cpu'[i] = host[i]
      <3>1. CASE i \in {0, 1, 2, 30}
        BY <1>3, <1>5, <3>1, CallPairsOccur
      <3>2. CASE i = SP
        BY <1>1, <1>3, <3>2, CallPairsOccur
      <3>3. CASE i \in 3 .. 31 /\ i # 30
        BY <1>1, <1>3, <3>3, CallPairsOccur
      <3>. QED
        BY <3>1, <3>2, <3>3
    <2>2. cpu' = [i \in CpuReg |-> cpu'[i]] /\ host = [i \in CpuReg |-> host[i]]
      BY <1>1, <1>3
    <2>. QED
      BY <2>1, <2>2
  <1>7. TypeOK'
    BY <1>1, <1>6 DEF IInv, TypeOK, Labels, hist, code
  <1>8. AtExecuted' /\ History'
    BY <1>1, <1>6 DEF IInv, AtExecuted, History, HasLeft, hist, code
  <1>. QED
    BY <1>1, <1>7, <1>8
    DEF IInv, AtHost, AtExecuteAsm, AtPreExecute, AtUser, AtRestore, AtSwitch,
        AtAfterCall

(* What the return of execute has done.                                    *)
LEMMA Finished ==
  ASSUME IInv, finish_operation
  PROVE  /\ pc = "executed" /\ pc' = "host" /\ cpu' = host
         /\ env' = [left EXCEPT ![PC] = left[PC] - RemoveFromPC]
         /\ env' \in [EnvReg -> Int]
         /\ env'[PC] = CodeBase + SizeOf[program]
         /\ changed' = {i \in EnvReg : env'[i] # shadow[i]}
         /\ program \in Program
         /\ UNCHANGED <<cpu, mem, shadow, code, writes, hist>>
  <1>1. /\ pc = "executed" /\ pc' = "host" /\ cpu = host /\ env = left
        /\ left \in [EnvReg -> Int] /\ program \in Program
        /\ left[PC] = CodeBase + PreExecuteSize + SizeOf[program] + 4
        /\ UNCHANGED <<cpu, mem, shadow, code, writes, hist>>
    BY DEF IInv, TypeOK, AtExecuted, History, HasLeft, finish_operation, Goto
  <1>2. CodeBase \in Int /\ SizeOf[program] \in Int
    BY <1>1, CodeAssumption
  <1>3. /\ env' = [left EXCEPT ![PC] = left[PC] - RemoveFromPC]
        /\ env' \in [EnvReg -> Int]
        /\ env'[PC] = CodeBase + SizeOf[program]
    BY <1>1, <1>2 DEF finish_operation, RemoveFromPC, PreExecuteSize
  <1>4. changed' = {i \in EnvReg : env'[i] # shadow[i]}
    BY DEF finish_operation, calculate_modified_registers,
           COMMON_REGISTERS_LENGTH
  <1>. QED
    BY <1>1, <1>3, <1>4

LEMMA FinishStep ==
  ASSUME IInv, finish_operation
  PROVE  IInv'
  <1>1. cpu'[SP] = HostSP
    BY Finished DEF IInv, History
  <1>2. TypeOK'
    <2>1. changed' \subseteq EnvReg
      BY Finished
    <2>. QED
      BY <2>1, Finished DEF IInv, TypeOK, Labels, code, hist
  <1>. QED
    BY <1>1, <1>2, Finished
    DEF IInv, AtHost, AtExecuteAsm, AtPreExecute, AtUser, AtRestore, AtSwitch,
        AtAfterCall, AtExecuted, History, HasLeft

LEMMA StutterStep ==
  ASSUME IInv, UNCHANGED vars
  PROVE  IInv'
  BY DEF vars, code, hist, IInv, TypeOK, History, HasLeft, AtHost,
         AtExecuteAsm, AtPreExecute, AtUser, AtRestore, AtSwitch, AtAfterCall,
         AtExecuted, CallSaved, PairSaved, HostSaved, ExitSaved, Usable

LEMMA NextStep ==
  ASSUME IInv, [Next]_vars
  PROVE  IInv'
  <1>1. CASE \E p \in Program : prepare_execute(p)
    BY <1>1, PrepareStep
  <1>2. CASE \E s \in Settings : set_common_registers(s)
    BY <1>2, SetStep
  <1>3. CASE \E o \in Operands : start_operation(o)
    BY <1>3, StartOperationStep
  <1>4. CASE Enter
    BY <1>4, ExecuteAsmStep, PreExecuteStep, LostStep DEF Enter
  <1>5. CASE User
    BY <1>5, UserStep
  <1>6. CASE exit_instructions \/ exit_astray
    BY <1>6, ExitStep, LostStep
  <1>7. CASE Leave
    BY <1>7, RestoreStep, SwitchStep, AfterCallStep, FinishStep DEF Leave
  <1>8. CASE UNCHANGED vars
    BY <1>8, StutterStep
  <1>. QED
    BY <1>1, <1>2, <1>3, <1>4, <1>5, <1>6, <1>7, <1>8 DEF Next

(* The invariant holds in every reachable state.                           *)
THEOREM Inductive == Spec => []IInv
  BY InitIInv, NextStep, PTL DEF Spec

-----------------------------------------------------------------------------
(* Every variable keeps its type: nothing is loaded from or stored in a    *)
(* word outside the two stacks.                                            *)
THEOREM TypeCorrect == Spec => []TypeOK
  <1>1. IInv => TypeOK
    BY DEF IInv
  <1>. QED
    BY <1>1, Inductive, PTL

(* start_operation gets back every register, the flags included, wherever  *)
(* the compiler put the operands.                                          *)
THEOREM HostIsRestored == Spec => []HostRestored
  <1>1. IInv => HostRestored
    BY DEF IInv, AtExecuted, HostRestored
  <1>. QED
    BY <1>1, Inductive, PTL

(* The struct holds what the user's code left in the registers.            *)
THEOREM EnvironmentIsSaved == Spec => []EnvironmentSaved
  <1>1. IInv => EnvironmentSaved
    BY DEF IInv, AtSwitch, AtAfterCall, AtExecuted, EnvironmentSaved
  <1>. QED
    BY <1>1, Inductive, PTL

(* What the switch needs to go on at each label, besides an environment's  *)
(* SP and operands that execute_asm can use: it enters the code at its     *)
(* first instruction, the patched address leads back, the struct is found  *)
(* again and the return is to the instruction behind the call.             *)
Ready ==
  /\ pc = "pre_execute" => cpu[30] = CodeBase /\ program # NoProgram
  /\ pc = "user" => stub.resume = ResumeAddress
  /\ pc = "restore_execution" => mem[cpu[0]] = StructPtr
  /\ pc = "switch_stacks" => Loaded(mem, cpu[0], LoadPairs, 30) = AfterCall

(* It can always go on: the safety half of SwitchCompletes.                *)
THEOREM NeverStuck == Spec => []Ready
  <1>1. ASSUME IInv, pc = "switch_stacks"
        PROVE  Loaded(mem, cpu[0], LoadPairs, 30) = AfterCall
    <2>. DEFINE sp == HostSP - 32
    <2>1. cpu[0] = sp /\ mem[sp] = AfterCall /\ sp \in Int
      BY <1>1, Addresses DEF IInv, AtSwitch, HostSaved
    <2>. HIDE DEF sp
    <2>2. Loaded(mem, sp, LoadPairs, 32 - 2 * 1) = mem[sp + 2 * 1 - 2]
      BY <2>1, LoadPairsLoaded
    <2>3. sp + 2 * 1 - 2 = sp /\ 32 - 2 * 1 = 30
      BY <2>1
    <2>. QED
      BY ONLY <2>1, <2>2, <2>3
  <1>2. IInv => Ready
    <2>1. ASSUME IInv, pc = "restore_execution"
          PROVE  mem[cpu[0]] = StructPtr
      BY <2>1 DEF IInv, AtRestore, HostSaved
    <2>2. ASSUME IInv
          PROVE  /\ pc = "pre_execute" => cpu[30] = CodeBase /\ program # NoProgram
                 /\ pc = "user" => stub.resume = ResumeAddress
      BY <2>2 DEF IInv, AtPreExecute, AtUser, History
    <2>. QED
      BY <1>1, <2>1, <2>2 DEF Ready
  <1>. QED
    BY <1>2, Inductive, PTL

(* Only one step leaves each of these two labels.                          *)
LEMMA FromExecuted ==
  ASSUME pc = "executed", [Next]_vars
  PROVE  finish_operation \/ UNCHANGED vars
  BY DEF Next, Enter, User, Leave, Goto, prepare_execute,
         set_common_registers, start_operation, goes_astray, execute_asm,
         pre_execute, UserWrite, UserMoveStack, UserStore, InUserCode,
         exit_instructions, exit_astray, restore_execution, switch_stacks,
         after_call

LEMMA FromPreExecute ==
  ASSUME pc = "pre_execute", [Next]_vars
  PROVE  pre_execute \/ UNCHANGED vars
  BY DEF Next, Enter, User, Leave, Goto, prepare_execute,
         set_common_registers, start_operation, goes_astray, execute_asm,
         UserWrite, UserMoveStack, UserStore, InUserCode,
         exit_instructions, exit_astray, restore_execution, switch_stacks,
         after_call, finish_operation

(* The user's code starts with the registers of the struct.                *)
THEOREM EnvironmentIsLoaded == Spec => EnvironmentLoaded
  <1>. DEFINE AllLoaded ==
                pc = "pre_execute" => \A i \in CpuReg : cpu'[i] = given[i]
  <1>1. IInv /\ [Next]_vars => [AllLoaded]_vars
    BY FromPreExecute, Loaded29And30
  <1>. QED
    BY <1>1, Inductive, PTL DEF Spec, EnvironmentLoaded

(* X0 to X3 are reported exactly, whatever the shadow copy lacks.          *)
THEOREM LowReportIsExact == Spec => LowReportExact
  <1>. DEFINE Low == pc = "executed" =>
                \A i \in 0 .. 3 : i \in changed' <=> env'[i] # given[i]
  <1>1. ASSUME IInv, finish_operation
        PROVE  \A i \in 0 .. 3 : i \in changed' <=> env'[i] # given[i]
    <2>1. \A i \in 0 .. 3 : shadow[i] = given[i]
      BY <1>1, Finished DEF IInv, History
    <2>. QED
      BY <1>1, <2>1, Finished
  <1>2. IInv /\ [Next]_vars => [Low]_vars
    BY <1>1, FromExecuted
  <1>. QED
    BY <1>2, Inductive, PTL DEF Spec, LowReportExact

(* The moves bring the operands where execute_asm wants them exactly if    *)
(* the compiler's choice survives them.                                    *)
THEOREM OperandsDoArrive == Spec => OperandsArrive
  <1>. DEFINE Arrive(o) ==
                start_operation(o) =>
                  (OperandsThere' <=> o.code # 0 /\ o.slot \notin {0, 1})
              All == \A o \in Operands : Arrive(o)
  <1>1. ASSUME IInv, NEW o \in Operands, start_operation(o)
        PROVE  OperandsThere' <=> o.code # 0 /\ o.slot \notin {0, 1}
    <2>. DEFINE r == AtAsm(o)
    <2>1. cpu \in [CpuReg -> Int]
      BY <1>1 DEF IInv, TypeOK
    <2>2. /\ r \in [CpuReg -> Int] /\ r[o.regs] = StructPtr
          /\ r[o.code] = CodeBase /\ r[o.slot] = SlotPtr
      BY <2>1, AtAsmFact
    <2>3. cpu' = [Moved(r, o) EXCEPT ![30] = AfterCall, ![SP] = @ - 4]
      BY <1>1 DEF start_operation, AtAsm
    <2>. HIDE DEF r
    <2>4. /\ Moved(r, o) \in [CpuReg -> Int]
          /\ Moved(r, o)[0] = StructPtr
          /\ Moved(r, o)[1] = IF o.code = 0 THEN StructPtr ELSE CodeBase
          /\ Moved(r, o)[2] = CASE o.slot = 0 -> StructPtr
                                [] o.slot = 1 -> Moved(r, o)[1]
                                [] OTHER -> SlotPtr
      BY <2>2, MovedFact
    <2>5. /\ cpu'[0] = Moved(r, o)[0] /\ cpu'[1] = Moved(r, o)[1]
          /\ cpu'[2] = Moved(r, o)[2]
      BY <2>3, <2>4
    <2>6. CodeBase \in Nat
      BY CodeAssumption
    <2>7. cpu'[1] = CodeBase <=> o.code # 0
      BY <2>4, <2>5, <2>6
    <2>8. cpu'[2] = SlotPtr <=> o.slot \notin {0, 1}
      BY <2>4, <2>5, <2>6
    <2>. QED
      BY <2>4, <2>5, <2>7, <2>8 DEF OperandsThere
  <1>2. IInv /\ [Next]_vars => [All]_vars
    BY <1>1
  <1>. QED
    BY <1>2, Inductive, PTL DEF Spec, OperandsArrive

(* No live word of either stack is ever overwritten by the switch.         *)
THEOREM FramesAreKept == Spec => FramesKept
  <1>. DEFINE Kept ==
                writes' = writes =>
                  \A a \in DOMAIN mem :
                    \/ a \in HostMem /\ a >= HostSP
                    \/ a \in EnvMem /\ a >= EnvStackPointer
                    => mem'[a] = mem[a]
  <1>1. ASSUME IInv, Next, writes' = writes, NEW a \in Address,
               \/ a \in HostMem /\ a >= HostSP
               \/ a \in EnvMem /\ a >= EnvStackPointer
        PROVE  mem'[a] = mem[a]
    <2>1. /\ mem \in [Address -> Int] /\ HostSP \in Int
          /\ cpu \in [CpuReg -> Int] /\ env \in [EnvReg -> Int]
          /\ left \in [EnvReg -> Int] /\ writes \in Nat
      BY <1>1, Addresses DEF IInv, TypeOK
    <2>2. a \in Int /\ (a \in EnvMem \/ a >= HostSP)
      BY <1>1, Addresses
    <2>3. CASE \E o \in Operands : start_operation(o)
      <3>1. PICK o \in Operands : start_operation(o)
        BY <2>3
      <3>. DEFINE r == AtAsm(o)
                  frame == <<<<r[0], r[1]>>, <<r[2], r[30]>>>>
      <3>2. mem' = Stored(mem, HostSP, frame)
        BY <1>1, <3>1 DEF IInv, AtHost, start_operation, AtAsm, Goto
      <3>3. r \in [CpuReg -> Int]
        BY <2>1, AtAsmFact
      <3>. HIDE DEF r
      <3>4. frame \in Seq(Int \X Int) /\ Len(frame) = 2
        BY <3>3
      <3>. HIDE DEF frame
      <3>5. /\ Storing(mem, HostSP, frame) /\ HostRoom(HostSP, frame)
            /\ HostSpares(HostSP, a)
        BY <2>1, <2>2, <3>4 DEF Storing, HostRoom, HostSpares
      <3>6. Stored(mem, HostSP, frame)[a] = mem[a]
        BY ONLY <3>5, HostStore
      <3>. QED
        BY <3>2, <3>6
    <2>4. CASE execute_asm
      <3>. DEFINE top == HostSP - 4
                  sp == env[SP]
                  onHost == Stored(mem, top, HostFrame)
                  frame == <<<<env[29], env[30]>>>>
      <3>1. /\ mem' = Stored(onHost, sp, frame) /\ Usable(sp)
            /\ a \in HostMem \/ a >= sp
        BY <1>1, <2>4
        DEF IInv, AtExecuteAsm, execute_asm, Goto, EntryTop, EntryFrame,
            EnvStackPointer
      <3>2. HostFrame \in Seq(Int \X Int) /\ Len(HostFrame) = 15
        BY <2>1, HostFrameFact
      <3>3. frame \in Seq(Int \X Int) /\ Len(frame) = 1
        BY <2>1
      <3>4. sp \in Int /\ top \in Int /\ top <= HostSP
            /\ (a \in EnvMem \/ a >= top)
        BY <2>1, <2>2
      <3>5. /\ Storing(mem, top, HostFrame) /\ HostRoom(top, HostFrame)
            /\ HostSpares(top, a)
        BY <2>1, <3>2, <3>4 DEF Storing, HostRoom, HostSpares
      <3>. HIDE DEF top, sp, frame, onHost
      <3>6. EnvRoom(sp, sp, frame)
        BY ONLY <3>1, <3>3, <3>4 DEF EnvRoom
      <3>7. onHost \in [Address -> Int]
        BY <3>5, StoredType DEF onHost
      <3>8. onHost[a] = mem[a]
        BY <3>5, HostStore DEF onHost
      <3>9. Storing(onHost, sp, frame) /\ EnvSpares(sp, a)
        BY <3>1, <3>3, <3>4, <3>7 DEF Storing, EnvSpares
      <3>10. Stored(onHost, sp, frame)[a] = onHost[a]
        BY ONLY <3>6, <3>9, EnvStore
      <3>. QED
        BY <3>1, <3>8, <3>10
    <2>5. CASE exit_instructions
      <3>. DEFINE sp == cpu[SP]
      <3>1. /\ mem' = Stored(mem, sp, ExitFrame) /\ Usable(sp)
            /\ a \in HostMem \/ a >= sp
        BY <1>1, <2>5
        DEF IInv, AtUser, exit_instructions, Goto, EnvStackPointer
      <3>2. ADR \in Int /\ sp \in Int
        <4>1. SizeOf[cached] \in Int /\ CodeBase \in Int
          BY <1>1, <2>5, CodeAssumption
          DEF IInv, TypeOK, AtUser, exit_instructions, Goto
        <4>. QED
          BY <2>1, <4>1 DEF ADR, PreExecuteSize
      <3>3. ExitFrame \in Seq(Int \X Int) /\ Len(ExitFrame) = 2
        BY <2>1, <3>2 DEF ExitFrame
      <3>. HIDE DEF sp
      <3>4. /\ Storing(mem, sp, ExitFrame) /\ EnvRoom(sp, sp, ExitFrame)
            /\ EnvSpares(sp, a)
        BY <2>1, <3>1, <3>2, <3>3 DEF Storing, EnvRoom, EnvSpares
      <3>5. Stored(mem, sp, ExitFrame)[a] = mem[a]
        BY ONLY <3>4, EnvStore
      <3>. QED
        BY <3>1, <3>5
    <2>6. CASE restore_execution
      <3>. DEFINE top == left[SP]
                  sp == top - 4
                  frame == <<<<cpu[2], cpu[3]>>>>
      <3>1. /\ mem' = Stored(mem, sp, frame) /\ Usable(top)
            /\ a \in HostMem \/ a >= top
        BY <1>1, <2>6
        DEF IInv, AtRestore, restore_execution, Goto, EnvStackPointer
      <3>2. frame \in Seq(Int \X Int) /\ Len(frame) = 1
        BY <2>1
      <3>3. top \in Int /\ sp \in Int /\ sp = top - 4
        BY <2>1
      <3>. HIDE DEF top, sp, frame
      <3>4. EnvRoom(top, sp, frame)
        BY <3>1, <3>2, <3>3 DEF EnvRoom
      <3>5. Storing(mem, sp, frame) /\ EnvSpares(sp, a)
        <4>1. Storing(mem, sp, frame)
          BY <2>1, <3>2, <3>3 DEF Storing
        <4>2. a \in Int /\ (a \in HostMem \/ a >= sp)
          BY ONLY <2>2, <3>1, <3>3
        <4>. QED
          BY <4>1, <4>2 DEF EnvSpares
      <3>6. Stored(mem, sp, frame)[a] = mem[a]
        BY ONLY <3>4, <3>5, EnvStore
      <3>. QED
        BY <3>1, <3>6
    <2>7. CASE mem' = mem
      BY <2>7
    <2>8. ~User
      BY <1>1, <2>1 DEF User, UserWrite, UserMoveStack, UserStore, InUserCode
    <2>. QED
      BY <1>1, <2>3, <2>4, <2>5, <2>6, <2>7, <2>8
      DEF Next, Enter, Leave, prepare_execute, set_common_registers,
          goes_astray, pre_execute, exit_astray, switch_stacks, after_call,
          finish_operation
  <1>2. IInv /\ [Next]_vars => [Kept]_vars
    <2>1. IInv => DOMAIN mem = Address
      BY DEF IInv, TypeOK
    <2>. QED
      BY <1>1, <2>1
  <1>. QED
    BY <1>2, Inductive, PTL DEF Spec, FramesKept

-----------------------------------------------------------------------------
(* To its caller the switch is an execution in one step that ends behind   *)
(* the user's code and leaves alone every register that the compiler did   *)
(* not choose for an operand.                                              *)
THEOREM Refinement == Spec => ImplementsRuns
  <1>1. Init => Abstract!Init
    BY StartAssumption DEF Init, Abstract!Init, Shown
  <1>2. ASSUME IInv, [Next]_vars
        PROVE  [Abstract!RunsNext]_(Abstract!vars)
    <2>1. CASE UNCHANGED vars
      BY <2>1 DEF vars, code, hist, Abstract!vars, Shown
    <2>2. CASE \E p \in Program : prepare_execute(p)
      <3>1. PICK p \in Program : prepare_execute(p)
        BY <2>2
      <3>2. Abstract!Prepare
        BY <3>1, CodeAssumption DEF prepare_execute, hist, Abstract!Prepare, Shown
      <3>. QED
        BY <3>2 DEF Abstract!RunsNext
    <2>3. CASE \E s \in Settings : set_common_registers(s)
      <3>1. PICK s \in Settings : set_common_registers(s)
        BY <2>3
      <3>2. s[1] \in EnvReg /\ s[2] \in Int /\ env \in [EnvReg -> Int]
        BY <1>2, StartAssumption DEF IInv, TypeOK
      <3>3. Abstract!SetRegister
        BY <3>1, <3>2
        DEF set_common_registers, code, hist, Abstract!SetRegister, Shown
      <3>. QED
        BY <3>3 DEF Abstract!RunsNext
    <2>4. CASE \E o \in Operands : start_operation(o)
      <3>1. PICK o \in Operands : start_operation(o)
        BY <2>4
      <3>2. /\ pc = "host" /\ pc' = "execute_asm"
            /\ host' = AtAsm(o) /\ given' = env
            /\ UNCHANGED <<env, program, cached, changed, writes, left>>
        BY <3>1 DEF start_operation, Goto, AtAsm
      <3>3. \A i \in CpuReg \ OperandRegs : host'[i] = cpu[i]
        <4>1. cpu \in [CpuReg -> Int]
          BY <1>2 DEF IInv, TypeOK
        <4>2. {o.regs, o.code, o.slot} \subseteq OperandRegs
          BY DEF OperandRegs
        <4>. QED
          BY <3>2, <4>1, <4>2, AtAsmFact
      <3>. QED
        BY <3>2, <3>3 DEF Abstract!vars, Shown
    <2>5. CASE finish_operation
      <3>1. /\ pc = "executed" /\ pc' = "host" /\ cpu' = host
            /\ UNCHANGED <<cpu, program, cached, host, given>>
        BY <1>2, <2>5, Finished DEF code, hist
      <3>2. /\ env' \in [EnvReg -> Int] /\ env'[PC] = CodeBase + SizeOf[program]
            /\ program \in Program /\ changed' \subseteq EnvReg
        BY <1>2, <2>5, Finished
      <3>3. program # NoProgram /\ SizeOf[program] # 0
        BY <3>2, CodeAssumption
      <3>4. Abstract!Runs /\ changed' \subseteq EnvReg
        BY <3>1, <3>2, <3>3 DEF Abstract!Runs, Shown
      <3>. QED
        BY <3>4 DEF Abstract!RunsNext
    <2>6. CASE \/ Enter \/ User \/ exit_instructions \/ exit_astray
               \/ (Leave /\ ~finish_operation)
      <3>1. /\ pc # "host" /\ pc' # "host"
            /\ UNCHANGED <<program, changed, host, given>>
        BY <2>6
        DEF Enter, execute_asm, goes_astray, pre_execute, User, UserWrite,
            UserMoveStack, UserStore, InUserCode, exit_instructions,
            exit_astray, Leave, Goto, code, hist, restore_execution,
            switch_stacks, after_call
      <3>. QED
        BY <3>1 DEF Abstract!vars, Shown
    <2>. QED
      BY <1>2, <2>1, <2>2, <2>3, <2>4, <2>5, <2>6 DEF Next
  <1>. QED
    BY <1>1, <1>2, Inductive, PTL DEF Spec, ImplementsRuns, Abstract!RunsSpec

=============================================================================
