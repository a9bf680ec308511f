-------------------------- MODULE SwitchX64Proofs --------------------------
(***************************************************************************)
(* The context switch proved correct for every stack, code buffer and      *)
(* register content that the assumptions of SwitchX64 allow, and for any   *)
(* number of user instructions.                                            *)
(*                                                                         *)
(* The inductive invariant says where every value of the two register      *)
(* files is at every label.  While the save loops run it is the loop       *)
(* invariant Saving(n): the registers above n are in the struct and their  *)
(* bits, shifted, in the mask; those up to n are still on the two stacks.  *)
(***************************************************************************)
EXTENDS SwitchX64, TLAPS

USE DEF rax, rbx, rcx, rdx, rsi, rdi, rbp, rsp, r8, r15, rflags, rip,
        StructPtr, ResumeAddress, AfterCall, AfterExecution, SlotPtr, Scratch,
        ExitSize, RemoveFromRip, CpuReg, EnvReg

(* Where start_execute leaves register i of the host.                      *)
Preserved == CpuReg \ {rax, rbx, rsp}
HostSlot(i) == IF i < rsp THEN HostSP - i ELSE HostSP + 1 - i

HostSaved ==
  /\ mem[HostSP - 1] = AfterCall
  /\ mem[HostSP - 16] = AfterExecution
  /\ \A i \in Preserved : mem[HostSlot(i)] = host[i]

(* Where the exit instructions and operation_end_handler leave register i  *)
(* of the environment.                                                     *)
EnvSlot(i) ==
  IF i < rsi THEN left[rsp] - 1 - i
  ELSE IF i < rsp THEN HostSP - 14 - i
  ELSE HostSP - 13 - i

Differs(i) == left[i] # given[i]

(* The save loops, about to save register n.                               *)
Saving(n) ==
  /\ HostSaved
  /\ cpu[rbx] = StructPtr
  /\ \A i \in EnvReg : env[i] = IF i > n /\ i # rsp THEN left[i] ELSE given[i]
  /\ mask = {b \in 1 .. 18 :
               b + n \in EnvReg /\ b + n # rsp /\ Differs(b + n)}
  /\ \A i \in EnvReg : i <= n /\ i # rsp => mem[EnvSlot(i)] = left[i]

(* The word in which operation_end_handler keeps the environment's rsp.    *)
EnvSPKept == mem[HostSP - 17] = left[rsp] - 4

Reported == mask = {i \in EnvReg : Differs(i)}

(* What holds at each label.                                               *)
AtHost == pc = "host" =>
  /\ cpu[rsp] = HostSP
  /\ env[rip] \in CodeBase .. (CodeBase + offset)
  /\ HasRoom(env[rsp])
AtStart == pc = "start_execute" =>
  /\ \A i \in Preserved : cpu[i] = host[i]
  /\ cpu[rax] = StructPtr /\ cpu[rbx] = SlotPtr /\ cpu[rsp] = HostSP - 1
  /\ mem[HostSP - 1] = AfterCall
  /\ env = given /\ HasRoom(env[rsp])
AtUser == pc = "user" =>
  /\ HostSaved
  /\ mem[HostSP - 17] = StructPtr /\ stub.stack = HostSP - 17
  /\ env = given /\ HasRoom(cpu[rsp])
  /\ given[rip] = CodeBase + offset => \A i \in CpuReg : cpu[i] = given[i]
AtHandler == pc = "operation_end_handler" =>
  /\ HostSaved
  /\ mem[HostSP - 17] = StructPtr /\ cpu[rax] = HostSP - 17
  /\ env = given
  /\ cpu[rsp] = left[rsp] - 5 /\ mem[left[rsp] - 5] = left[rip]
  /\ \A i \in 0 .. 3 : mem[left[rsp] - 1 - i] = left[i]
  /\ \A i \in 4 .. 16 : i # rsp => cpu[i] = left[i]
AtFirstLoop == pc = "first_save_loop" =>
  /\ cpu[rcx] \in 1 .. 10 /\ cpu[rsp] = HostSP - 20 - cpu[rcx]
  /\ Saving(cpu[rcx] + 7) /\ EnvSPKept
AtSkip == pc = "skip_rsp" =>
  cpu[rsp] = HostSP - 20 /\ Saving(7) /\ EnvSPKept
AtSecondLoop == pc = "second_save_loop" =>
  /\ cpu[rcx] \in 1 .. 3 /\ cpu[rsp] = HostSP - 17 - cpu[rcx]
  /\ Saving(cpu[rcx] + 3) /\ EnvSPKept
AtSwitch == pc = "to_env_stack" =>
  cpu[rsp] = HostSP - 17 /\ Saving(3) /\ EnvSPKept
AtThirdLoop == pc = "third_save_loop" =>
  /\ cpu[rcx] \in 1 .. 4 /\ cpu[rsp] = left[rsp] - cpu[rcx]
  /\ Saving(cpu[rcx] - 1) /\ cpu[rbp] = HostSP - 16
AtSaveRsp == pc = "save_rsp" =>
  cpu[rsp] = left[rsp] /\ Saving(-1) /\ cpu[rbp] = HostSP - 16
AtAfter == pc = "after_execution" =>
  HostSaved /\ env = left /\ cpu[rsp] = HostSP - 15 /\ Reported
AtExecuted == pc = "executed" =>
  /\ \A i \in CpuReg \ {rax, rbx} : cpu[i] = host[i]
  /\ env = left /\ Reported

(* The labels at which the user's code has left its registers.             *)
HasLeft == pc \notin {"host", "start_execute", "user"}

History ==
  /\ pc # "host" => /\ host[rsp] = HostSP /\ offset # 0
                    /\ given[rip] \in CodeBase .. (CodeBase + offset)
  /\ HasLeft => /\ left[rip] = CodeBase + offset + ExitSize
                /\ HasRoom(left[rsp])
                /\ given[rip] = CodeBase + offset =>
                     \A i \in CpuReg : left[i] = given[i]

IInv ==
  /\ TypeOK /\ History
  /\ AtHost /\ AtStart /\ AtUser /\ AtHandler /\ AtFirstLoop /\ AtSkip
  /\ AtSecondLoop /\ AtSwitch /\ AtThirdLoop /\ AtSaveRsp /\ AtAfter
  /\ AtExecuted

-----------------------------------------------------------------------------
(* The words the host's stack must have, and the room below the            *)
(* environment's stack pointer, are addresses; the two stacks are apart.   *)
LEMMA Addresses ==
  /\ \A a \in Address : a \in Int
  /\ \A k \in 1 .. 30 : HostSP - k \in HostMem
  /\ \A sp \in Int : HasRoom(sp) => \A k \in 1 .. 5 : sp - k \in EnvMem
  /\ HasRoom(StackTop)
  /\ HostMem \subseteq Address /\ EnvMem \subseteq Address
  /\ \A a \in HostMem, b \in EnvMem : a # b
  /\ HostSP \in Int /\ StackTop \in Int /\ CodeBase \in Int
  BY MemAssumption, CodeAssumption DEF HasRoom, Address

(* PushAll is well typed and replaces only the words it pushes.            *)
LEMMA Pushed ==
  ASSUME NEW m \in [Address -> Int], NEW sp \in Int,
         NEW s \in Seq(Int)
  PROVE  /\ PushAll(m, sp, s) \in [Address -> Int]
         /\ \A a \in Address :
              PushAll(m, sp, s)[a] =
                IF sp - Len(s) <= a /\ a < sp THEN s[sp - a] ELSE m[a]
  <1>. Len(s) \in Nat /\ \A k \in 1 .. Len(s) : s[k] \in Int
    OBVIOUS
  <1>1. \A a \in Address : a \in Int
    BY Addresses
  <1>2. ASSUME NEW a \in Address, sp - Len(s) <= a, a < sp
        PROVE  sp - a \in 1 .. Len(s)
    BY <1>1, <1>2
  <1>. QED
    BY <1>2 DEF PushAll

(* The k-th value pushed is k words below the old stack pointer.           *)
LEMMA PushedWord ==
  ASSUME NEW m \in [Address -> Int], NEW sp \in Int,
         NEW s \in Seq(Int), NEW k \in 1 .. Len(s),
         NEW a \in Address, a = sp - k
  PROVE  PushAll(m, sp, s)[a] = s[k]
  <1>1. sp - a = k /\ sp - Len(s) <= a /\ a < sp
    OBVIOUS
  <1>. QED
    BY <1>1 DEF PushAll

(* A word outside the pushed range is unchanged.                           *)
LEMMA PushedElsewhere ==
  ASSUME NEW m \in [Address -> Int], NEW sp \in Int,
         NEW s \in Seq(Int), NEW a \in Address, a >= sp \/ a < sp - Len(s)
  PROVE  PushAll(m, sp, s)[a] = m[a]
  <1>1. a \in Int
    BY Addresses
  <1>. QED
    BY <1>1 DEF PushAll

(* A frame pushed on one stack changes no word of the other, and none at   *)
(* or above the stack pointer.                                             *)
LEMMA HostPush ==
  ASSUME NEW m \in [Address -> Int], NEW sp \in Int, NEW s \in Seq(Int),
         HostSP - 30 <= sp - Len(s), sp <= HostSP,
         NEW a \in Address, a \in EnvMem \/ a >= sp
  PROVE  PushAll(m, sp, s)[a] = m[a]
  <1>1. a \in Int /\ HostSP \in Int
    BY Addresses
  <1>2. Len(s) \in Nat
    OBVIOUS
  <1>3. CASE a \in EnvMem
    <2>1. \A k \in 1 .. 30 : a # HostSP - k
      BY <1>3, Addresses
    <2>2. a >= HostSP - 30 /\ a < HostSP =>
            HostSP - a \in 1 .. 30 /\ a = HostSP - (HostSP - a)
      BY <1>1
    <2>3. a >= HostSP \/ a < HostSP - 30
      BY <1>1, <2>1, <2>2
    <2>4. a >= sp \/ a < sp - Len(s)
      BY <1>1, <1>2, <2>3
    <2>. QED
      BY <2>4, PushedElsewhere
  <1>4. CASE a >= sp
    BY <1>4, PushedElsewhere
  <1>. QED
    BY <1>3, <1>4

(* A push of at most five words on the environment's stack changes neither *)
(* the host's stack nor a word at or above the stack pointer.              *)
LEMMA EnvPush ==
  ASSUME NEW m \in [Address -> Int], NEW sp \in Int, NEW s \in Seq(Int),
         Len(s) <= 5, HasRoom(sp),
         NEW a \in Address, a \in HostMem \/ a >= sp
  PROVE  PushAll(m, sp, s)[a] = m[a]
  <1>1. a \in Int
    BY Addresses
  <1>2. Len(s) \in Nat
    OBVIOUS
  <1>3. CASE a \in HostMem
    <2>1. \A k \in 1 .. 5 : a # sp - k
      BY <1>3, Addresses
    <2>2. a >= sp - 5 /\ a < sp => sp - a \in 1 .. 5 /\ a = sp - (sp - a)
      BY <1>1
    <2>3. a >= sp \/ a < sp - 5
      BY <1>1, <2>1, <2>2
    <2>4. a >= sp \/ a < sp - Len(s)
      BY <1>1, <1>2, <2>3
    <2>. QED
      BY <2>4, PushedElsewhere
  <1>4. CASE a >= sp
    BY <1>4, PushedElsewhere
  <1>. QED
    BY <1>3, <1>4

(* The invariant holds initially.                                          *)
LEMMA InitIInv == Init => IInv
  BY MemAssumption, CodeAssumption, StartAssumption, Addresses
  DEF Init, IInv, TypeOK, Labels, History, HasLeft, AtHost, AtStart, AtUser,
      AtHandler, AtFirstLoop, AtSkip, AtSecondLoop, AtSwitch, AtThirdLoop,
      AtSaveRsp, AtAfter, AtExecuted

-----------------------------------------------------------------------------
(* The host's registers stay saved while their words are not written.      *)
LEMMA HostSavedKept ==
  ASSUME HostSaved, host' = host,
         \A k \in 1 .. 16 : mem'[HostSP - k] = mem[HostSP - k]
  PROVE  HostSaved'
  <1>1. ASSUME NEW i \in Preserved
        PROVE  mem'[HostSlot(i)] = mem[HostSlot(i)]
    <2>. DEFINE k == IF i < rsp THEN i ELSE i - 1
    <2>1. k \in 1 .. 16 /\ HostSlot(i) = HostSP - k
      BY Addresses DEF HostSlot, Preserved
    <2>. QED
      BY <2>1
  <1>. QED
    BY <1>1 DEF HostSaved, HostSlot

(* One lemma per action: it preserves the inductive invariant.             *)

(* prepare_execute moves rip back to the start of the code.                *)
LEMMA PrepareStep ==
  ASSUME IInv, NEW n \in CodeSizes, prepare_execute(n)
  PROVE  IInv'
  BY CodeAssumption
  DEF prepare_execute, IInv, TypeOK, Labels, hist, History, HasLeft, AtHost,
      AtStart, AtUser, AtHandler, AtFirstLoop, AtSkip, AtSecondLoop, AtSwitch,
      AtThirdLoop, AtSaveRsp, AtAfter, AtExecuted

(* set_common_registers keeps rip in the code and the room below rsp.      *)
LEMMA SetStep ==
  ASSUME IInv, NEW s \in Settings, set_common_registers(s)
  PROVE  IInv'
  <1>1. s[1] \in EnvReg /\ s[2] \in Int
    BY StartAssumption
  <1>2. env' \in [EnvReg -> Int] /\ env' = [env EXCEPT ![s[1]] = s[2]]
    BY <1>1 DEF set_common_registers, IInv, TypeOK
  <1>3. TypeOK'
    BY <1>2, CodeAssumption DEF set_common_registers, IInv, TypeOK, Labels, hist
  <1>4. AtHost'
    BY <1>1, <1>2
    DEF set_common_registers, IInv, TypeOK, AtHost, hist, HasRoom, EnvReg
  <1>. QED
    BY <1>3, <1>4
    DEF set_common_registers, IInv, hist, History, HasLeft, AtHost, AtStart,
        AtUser, AtHandler, AtFirstLoop, AtSkip, AtSecondLoop, AtSwitch,
        AtThirdLoop, AtSaveRsp, AtAfter, AtExecuted

(* start_operation enters the switch with the registers it had.            *)
LEMMA StartOperationStep ==
  ASSUME IInv, start_operation
  PROVE  IInv'
  <1>. DEFINE frame == <<AfterCall>>
  <1>1. /\ pc = "host" /\ pc' = "start_execute"
        /\ cpu \in [CpuReg -> Int] /\ mem \in [Address -> Int]
        /\ cpu[rsp] = HostSP /\ HostSP \in Int /\ HasRoom(env[rsp])
        /\ mem' = PushAll(mem, HostSP, frame)
    BY Addresses DEF IInv, TypeOK, AtHost, start_operation, Goto
  <1>2. frame \in Seq(Int) /\ Len(frame) = 1 /\ frame[1] = AfterCall
    OBVIOUS
  <1>3. mem' \in [Address -> Int] /\ mem'[HostSP - 1] = AfterCall
    <2>. HIDE DEF frame
    <2>0. mem' = PushAll(mem, HostSP, frame)
      BY <1>1 DEF frame
    <2>1. HostSP - 1 \in Address /\ 1 \in 1 .. Len(frame)
      BY <1>2, Addresses
    <2>2. PushAll(mem, HostSP, frame)[HostSP - 1] = frame[1]
      <3>1. mem \in [Address -> Int] /\ HostSP \in Int /\ frame \in Seq(Int)
        BY <1>1, <1>2
      <3>. QED
        BY ONLY <2>1, <3>1, PushedWord
    <2>3. PushAll(mem, HostSP, frame) \in [Address -> Int]
      BY <1>1, <1>2, Pushed
    <2>. QED
      BY <1>2, <2>0, <2>2, <2>3
  <1>4. TypeOK'
    BY <1>1, <1>3 DEF IInv, TypeOK, start_operation, Labels, hist
  <1>5. AtStart' /\ History'
    <2>1. env[rip] \in CodeBase .. (CodeBase + offset)
      BY <1>1 DEF IInv, AtHost
    <2>. QED
      BY <1>1, <1>3, <2>1
      DEF start_operation, AtStart, History, HasLeft, Preserved, HasRoom
  <1>. QED
    BY <1>1, <1>4, <1>5
    DEF IInv, AtHost, AtUser, AtHandler, AtFirstLoop, AtSkip, AtSecondLoop,
        AtSwitch, AtThirdLoop, AtSaveRsp, AtAfter, AtExecuted

(* start_execute leaves every host register in its slot.                   *)
LEMMA StartExecuteStep ==
  ASSUME IInv, start_execute
  PROVE  IInv'
  <1>. DEFINE top == HostSP - 1
              sp == env[rsp]
              onHost == PushAll(mem, top, HostFrame)
              ripFrame == <<env[rip]>>
  <1>1. cpu \in [CpuReg -> Int] /\ env \in [EnvReg -> Int]
    BY DEF IInv, TypeOK
  <1>2. mem \in [Address -> Int] /\ top \in Int /\ sp \in Int
    BY <1>1, Addresses DEF IInv, TypeOK
  <1>3. /\ pc = "start_execute" /\ pc' = "user"
        /\ cpu[rsp] = top /\ cpu[rax] = StructPtr
        /\ HasRoom(env[rsp]) /\ env = given
        /\ mem[top] = AfterCall
    BY DEF IInv, AtStart, start_execute, Goto
  <1>4. mem' = PushAll(onHost, sp, ripFrame)
    BY <1>3 DEF start_execute, RipSlot
  <1>5. /\ Len(HostFrame) = 16
        /\ HostFrame[15] = AfterExecution /\ HostFrame[16] = cpu[rax]
    BY DEF HostFrame
  <1>6. HostFrame \in Seq(Int) /\ ripFrame \in Seq(Int) /\ Len(ripFrame) = 1
    BY <1>1 DEF HostFrame
  <1>7. onHost \in [Address -> Int]
    BY <1>2, <1>6, Pushed
  <1>8. mem' \in [Address -> Int] /\ \A a \in HostMem : mem'[a] = onHost[a]
    <2>. HIDE DEF onHost, ripFrame, top
    <2>1. Len(ripFrame) <= 5 /\ HasRoom(sp)
      BY <1>3, <1>6
    <2>. HIDE DEF sp
    <2>2. \A a \in HostMem : a \in Address
      BY Addresses
    <2>. QED
      <3>1. sp \in Int /\ ripFrame \in Seq(Int)
        BY <1>2, <1>6
      <3>2. mem' \in [Address -> Int]
        BY ONLY <1>4, <1>7, <3>1, Pushed
      <3>. QED
        BY ONLY <1>4, <1>7, <2>1, <2>2, <3>1, <3>2, EnvPush
  <1>9. mem'[top] = AfterCall /\ \A k \in 1 .. 16 : mem'[top - k] = HostFrame[k]
    <2>1. top \in HostMem /\ top \in Address
      BY Addresses
    <2>2. ASSUME NEW k \in 1 .. 16
          PROVE  top - k \in HostMem /\ top - k \in Address
      <3>1. k + 1 \in 1 .. 30 /\ HostSP - (k + 1) = top - k
        BY Addresses
      <3>. QED
        BY <3>1, Addresses
    <2>. HIDE DEF top
    <2>3. onHost[top] = mem[top]
      <3>1. top >= top
        BY <1>2
      <3>. QED
        BY <1>2, <1>6, <2>1, <3>1, PushedElsewhere
    <2>4. ASSUME NEW k \in 1 .. Len(HostFrame),
                 NEW a \in Address, a = top - k
          PROVE  onHost[a] = HostFrame[k]
      BY ONLY <1>2, <1>6, <2>4, PushedWord
    <2>5. ASSUME NEW k \in 1 .. 16
          PROVE  onHost[top - k] = HostFrame[k]
      BY <1>5, <2>2, <2>4
    <2>. HIDE DEF onHost
    <2>. QED
      BY <1>3, <1>8, <2>1, <2>2, <2>3, <2>5
  <1>10. HostSaved' /\ mem'[HostSP - 17] = StructPtr
    <2>1. \A i \in Preserved : cpu[i] = host[i]
      BY <1>3 DEF IInv, AtStart
    <2>2. ASSUME NEW i \in Preserved
          PROVE  mem'[HostSlot(i)] = host[i]
      <3>. DEFINE k == IF i < rsp THEN i - 1 ELSE i - 2
      <3>1. k \in 1 .. 16 /\ top - k = HostSlot(i)
        BY Addresses DEF HostSlot, Preserved
      <3>2. HostFrame[k] = cpu[i]
        BY DEF HostFrame, Preserved
      <3>. HIDE DEF k, top
      <3>. QED
        BY <1>9, <2>1, <3>1, <3>2
    <2>3. top - 15 = HostSP - 16 /\ top - 16 = HostSP - 17
      BY Addresses
    <2>. HIDE DEF top
    <2>4. mem'[HostSP - 16] = AfterExecution /\ mem'[HostSP - 17] = StructPtr
      BY <1>3, <1>5, <1>9, <2>3
    <2>. QED
      BY <1>9, <2>2, <2>4 DEF HostSaved, HostSlot, start_execute, hist, top
  <1>11. TypeOK'
    BY <1>1, <1>2, <1>3, <1>8 DEF IInv, TypeOK, start_execute, Labels, hist
  <1>12. AtUser'
    <2>1. stub'.stack = HostSP - 17
      <3>1. stub \in [stack : Int, resume : Int] /\ top - 16 = HostSP - 17
        BY Addresses DEF IInv, TypeOK
      <3>. QED
        BY <1>3, <3>1 DEF start_execute
    <2>2. cpu' = [i \in CpuReg |-> env[i]] /\ env' = env /\ given' = given
      BY DEF start_execute, hist
    <2>3. HasRoom(cpu[rsp])' /\ \A i \in CpuReg : cpu'[i] = given'[i]
      BY <1>3, <2>2 DEF HasRoom
    <2>. QED
      BY <1>3, <1>10, <2>1, <2>2, <2>3 DEF AtUser
  <1>13. History'
    BY <1>3 DEF IInv, start_execute, History, HasLeft, hist
  <1>. QED
    BY <1>3, <1>11, <1>12, <1>13
    DEF IInv, AtHost, AtStart, AtHandler, AtFirstLoop, AtSkip, AtSecondLoop,
        AtSwitch, AtThirdLoop, AtSaveRsp, AtAfter, AtExecuted

(* The user's instructions cannot reach the host's stack.                  *)
LEMMA UserStep ==
  ASSUME IInv, User
  PROVE  IInv'
  <1>1. /\ pc = "user" /\ pc' = "user" /\ env[rip] < CodeBase + offset
        /\ UNCHANGED <<env, stub, offset, mask, changed, host, given, left>>
        /\ writes' = writes + 1
    BY DEF User, UserWrite, UserMoveStack, UserStore, InUserCode, hist
  <1>2. /\ cpu \in [CpuReg -> Int] /\ mem \in [Address -> Int]
        /\ env[rip] \in Int /\ CodeBase + offset \in Int
        /\ env = given /\ HasRoom(cpu[rsp]) /\ HostSaved
        /\ mem[HostSP - 17] = StructPtr /\ stub.stack = HostSP - 17
    BY <1>1, CodeAssumption DEF IInv, TypeOK, AtUser
  <1>3. /\ cpu' \in [CpuReg -> Int] /\ mem' \in [Address -> Int]
        /\ HasRoom(cpu'[rsp])
        /\ \A a \in HostMem : mem'[a] = mem[a]
    <2>1. CASE \E i \in CpuReg, v \in Word : UserWrite(i, v)
      BY <1>2, <2>1, StartAssumption DEF UserWrite, Address
    <2>2. CASE \E sp \in EnvMem : UserMoveStack(sp)
      BY <1>2, <2>2, MemAssumption DEF UserMoveStack, Address
    <2>3. CASE \E a \in EnvMem, v \in Word : UserStore(a, v)
      BY <1>2, <2>3, StartAssumption, MemAssumption DEF UserStore, Address
    <2>. QED
      BY <2>1, <2>2, <2>3 DEF User
  <1>4. given[rip] # CodeBase + offset
    BY <1>1, <1>2
  <1>5. HostSaved' /\ mem'[HostSP - 17] = StructPtr
    <2>1. \A k \in 1 .. 17 : mem'[HostSP - k] = mem[HostSP - k]
      BY <1>3, Addresses
    <2>2. \A k \in 1 .. 16 : mem'[HostSP - k] = mem[HostSP - k]
      BY <2>1
    <2>. QED
      BY <1>1, <1>2, <2>1, <2>2, HostSavedKept
  <1>6. TypeOK'
    BY <1>1, <1>3 DEF IInv, TypeOK, Labels
  <1>7. AtUser' /\ History'
    BY <1>1, <1>2, <1>3, <1>4, <1>5
    DEF IInv, AtUser, History, HasLeft, HasRoom
  <1>. QED
    BY <1>1, <1>6, <1>7
    DEF IInv, AtHost, AtStart, AtHandler, AtFirstLoop, AtSkip, AtSecondLoop,
        AtSwitch, AtThirdLoop, AtSaveRsp, AtAfter, AtExecuted

(* The exit instructions save rax to rdx and rip before using them.        *)
LEMMA ExitStep ==
  ASSUME IInv, exit_instructions
  PROVE  IInv'
  <1>. DEFINE sp == cpu[rsp]
  <1>1. cpu \in [CpuReg -> Int]
    BY DEF IInv, TypeOK
  <1>2. /\ mem \in [Address -> Int] /\ sp \in Int /\ ExitEnd \in Int
        /\ stub.stack \in Int /\ stub.resume \in Int
    BY <1>1, CodeAssumption DEF IInv, TypeOK, ExitEnd
  <1>3. /\ pc = "user" /\ pc' = "operation_end_handler"
        /\ mem' = PushAll(mem, sp, ExitFrame)
        /\ left' = [i \in EnvReg |-> IF i = rip THEN ExitEnd ELSE cpu[i]]
        /\ UNCHANGED <<env, stub, offset, mask, changed, writes, host, given>>
        /\ cpu' = [cpu EXCEPT ![rax] = stub.stack, ![rbx] = stub.resume,
                              ![rsp] = sp - 5]
    BY DEF exit_instructions, Goto
  <1>4. /\ HostSaved /\ mem[HostSP - 17] = StructPtr /\ stub.stack = HostSP - 17
        /\ env = given /\ HasRoom(sp)
        /\ given[rip] = CodeBase + offset => \A i \in CpuReg : cpu[i] = given[i]
    BY <1>3 DEF IInv, AtUser
  <1>5. /\ Len(ExitFrame) = 5 /\ ExitFrame[5] = ExitEnd
        /\ \A i \in 0 .. 3 : ExitFrame[i + 1] = cpu[i]
    BY DEF ExitFrame
  <1>6. ExitFrame \in Seq(Int)
    BY <1>1, <1>2 DEF ExitFrame
  <1>7. /\ mem' \in [Address -> Int]
        /\ \A a \in HostMem : mem'[a] = mem[a]
        /\ \A k \in 1 .. 5 : mem'[sp - k] = ExitFrame[k]
    <2>. HIDE DEF sp
    <2>1. \A k \in 1 .. 5 : sp - k \in EnvMem /\ sp - k \in Address
      BY <1>2, <1>4, Addresses
    <2>2. ASSUME NEW a \in HostMem
          PROVE  mem'[a] = mem[a]
      <3>1. a \in Address /\ Len(ExitFrame) <= 5
        BY <1>5, Addresses
      <3>. QED
        BY <1>2, <1>3, <1>4, <1>6, <3>1, EnvPush
    <2>3. ASSUME NEW k \in 1 .. Len(ExitFrame), NEW a \in Address, a = sp - k
          PROVE  mem'[a] = ExitFrame[k]
      <3>1. mem \in [Address -> Int] /\ sp \in Int
        BY <1>2
      <3>2. mem' = PushAll(mem, sp, ExitFrame)
        BY <1>3
      <3>. QED
        BY ONLY <1>6, <2>3, <3>1, <3>2, PushedWord
    <2>4. \A k \in 1 .. 5 : mem'[sp - k] = ExitFrame[k]
      BY <1>5, <2>1, <2>3
    <2>. QED
      BY <1>2, <1>3, <1>6, <2>2, <2>4, Pushed
  <1>8. HostSaved' /\ mem'[HostSP - 17] = StructPtr
    <2>1. \A k \in 1 .. 17 : mem'[HostSP - k] = mem[HostSP - k]
      BY <1>7, Addresses
    <2>2. \A k \in 1 .. 16 : mem'[HostSP - k] = mem[HostSP - k]
      BY <2>1
    <2>. QED
      BY <1>3, <1>4, <2>1, <2>2, HostSavedKept
  <1>9. TypeOK'
    BY <1>1, <1>2, <1>3, <1>7 DEF IInv, TypeOK, Labels
  <1>10. /\ left'[rsp] = sp /\ left'[rip] = ExitEnd
         /\ \A i \in CpuReg : left'[i] = cpu[i]
    BY <1>3
  <1>11. AtHandler'
    <2>1. cpu'[rax] = HostSP - 17 /\ cpu'[rsp] = left'[rsp] - 5
      BY <1>1, <1>3, <1>4, <1>10
    <2>2. \A i \in 4 .. 16 : i # rsp => cpu'[i] = left'[i]
      BY <1>1, <1>3, <1>10
    <2>3. mem'[left'[rsp] - 5] = left'[rip]
      BY <1>5, <1>7, <1>10
    <2>4. ASSUME NEW i \in 0 .. 3
          PROVE  mem'[left'[rsp] - 1 - i] = left'[i]
      <3>1. i + 1 \in 1 .. 5 /\ sp - (i + 1) = left'[rsp] - 1 - i
        BY <1>2, <1>10
      <3>. HIDE DEF sp
      <3>. QED
        BY <1>5, <1>7, <1>10, <3>1
    <2>. QED
      BY <1>3, <1>4, <1>8, <2>1, <2>2, <2>3, <2>4 DEF AtHandler
  <1>12. History'
    BY <1>3, <1>4, <1>10 DEF IInv, History, HasLeft, HasRoom, ExitEnd
  <1>. QED
    BY <1>3, <1>9, <1>11, <1>12
    DEF IInv, AtHost, AtStart, AtUser, AtFirstLoop, AtSkip, AtSecondLoop,
        AtSwitch, AtThirdLoop, AtSaveRsp, AtAfter, AtExecuted

(* operation_end_handler leaves every register of the user's in its slot.  *)
LEMMA HandlerStep ==
  ASSUME IInv, operation_end_handler
  PROVE  IInv'
  <1>. DEFINE sp == HostSP - 16
  <1>1. cpu \in [CpuReg -> Int]
    BY DEF IInv, TypeOK
  <1>2. /\ mem \in [Address -> Int] /\ sp \in Int /\ HostSP \in Int
        /\ left \in [EnvReg -> Int]
    BY Addresses DEF IInv, TypeOK
  <1>3. /\ pc = "operation_end_handler" /\ pc' = "first_save_loop"
        /\ mask' = {}
        /\ UNCHANGED <<env, stub, offset, changed, writes, host, given, left>>
    BY DEF operation_end_handler, Goto, hist
  <1>4. /\ HostSaved /\ mem[HostSP - 17] = StructPtr /\ cpu[rax] = HostSP - 17
        /\ env = given
        /\ cpu[rsp] = left[rsp] - 5 /\ mem[left[rsp] - 5] = left[rip]
        /\ \A i \in 0 .. 3 : mem[left[rsp] - 1 - i] = left[i]
        /\ \A i \in 4 .. 16 : i # rsp => cpu[i] = left[i]
    BY <1>3 DEF IInv, AtHandler
  <1>5. /\ mem' = PushAll(mem, sp, HandlerFrame)
        /\ cpu'[rbx] = StructPtr /\ cpu'[rcx] = 10 /\ cpu'[rsp] = HostSP - 30
        /\ cpu' \in [CpuReg -> Int]
    <2>1. cpu[rax] + 1 = sp /\ sp - 14 = HostSP - 30
      BY <1>2, <1>4
    <2>2. mem[cpu[rsp]] \in Int /\ mem[cpu[rax]] = StructPtr
      BY <1>2, <1>4
    <2>. HIDE DEF sp
    <2>. QED
      BY <1>1, <1>2, <2>1, <2>2 DEF operation_end_handler
  <1>6. /\ Len(HandlerFrame) = 14 /\ HandlerFrame[1] = cpu[rsp] + 1
        /\ HandlerFrame[14] = left[rip]
        /\ \A i \in 4 .. 6 : HandlerFrame[i - 2] = left[i]
        /\ \A i \in 8 .. 16 : HandlerFrame[i - 3] = left[i]
    <2>1. /\ Len(HandlerFrame) = 14 /\ HandlerFrame[1] = cpu[rsp] + 1
          /\ HandlerFrame[14] = mem[cpu[rsp]]
          /\ \A i \in 4 .. 6 : HandlerFrame[i - 2] = cpu[i]
          /\ \A i \in 8 .. 16 : HandlerFrame[i - 3] = cpu[i]
      BY DEF HandlerFrame
    <2>. QED
      BY <1>4, <2>1
  <1>7. HandlerFrame \in Seq(Int)
    BY <1>1, <1>2, <1>4 DEF HandlerFrame
  <1>8. /\ mem' \in [Address -> Int]
        /\ \A a \in EnvMem : mem'[a] = mem[a]
        /\ \A k \in 1 .. 16 : mem'[HostSP - k] = mem[HostSP - k]
        /\ \A k \in 1 .. 14 : mem'[sp - k] = HandlerFrame[k]
    <2>1. \A k \in 1 .. 14 : sp - k \in HostMem /\ sp - k \in Address
      <3>1. \A k \in 1 .. 14 : k + 16 \in 1 .. 30 /\ HostSP - (k + 16) = sp - k
        BY <1>2
      <3>. QED
        BY <3>1, Addresses
    <2>2. \A k \in 1 .. 16 : HostSP - k \in Address /\ HostSP - k >= sp
      <3>1. \A k \in 1 .. 16 : k \in 1 .. 30 /\ HostSP - k >= sp
        BY <1>2
      <3>. QED
        BY <3>1, Addresses
    <2>. HIDE DEF sp
    <2>3. HostSP - 30 <= sp - Len(HandlerFrame) /\ sp <= HostSP
      BY <1>2, <1>6 DEF sp
    <2>4. /\ \A a \in EnvMem : mem'[a] = mem[a]
          /\ \A k \in 1 .. 16 : mem'[HostSP - k] = mem[HostSP - k]
      <3>1. \A a \in EnvMem : a \in Address
        BY Addresses
      <3>2. ASSUME NEW a \in Address, a \in EnvMem \/ a >= sp
            PROVE  mem'[a] = mem[a]
        BY <1>2, <1>5, <1>7, <2>3, <3>2, HostPush
      <3>. QED
        BY <2>2, <3>1, <3>2
    <2>5. ASSUME NEW k \in 1 .. Len(HandlerFrame), NEW a \in Address, a = sp - k
          PROVE  mem'[a] = HandlerFrame[k]
      <3>1. mem \in [Address -> Int] /\ sp \in Int
        BY <1>2
      <3>2. mem' = PushAll(mem, sp, HandlerFrame)
        BY <1>5
      <3>. QED
        BY ONLY <1>7, <2>5, <3>1, <3>2, PushedWord
    <2>6. ASSUME NEW k \in 1 .. 14
          PROVE  mem'[sp - k] = HandlerFrame[k]
      <3>1. k \in 1 .. Len(HandlerFrame)
        BY <1>6
      <3>2. sp - k \in Address
        BY <2>1
      <3>. QED
        BY ONLY <3>1, <3>2, <2>5
    <2>7. mem' \in [Address -> Int]
      BY <1>2, <1>5, <1>7, Pushed
    <2>. QED
      BY <2>4, <2>6, <2>7
  <1>9. HostSaved'
    BY <1>3, <1>4, <1>8, HostSavedKept
  <1>10. mem'[HostSP - 17] = left'[rsp] - 4
    <2>1. sp - 1 = HostSP - 17 /\ cpu[rsp] + 1 = left'[rsp] - 4
      BY <1>2, <1>3, <1>4
    <2>. QED
      BY <1>6, <1>8, <2>1
  <1>11. ASSUME NEW i \in EnvReg, i # rsp
         PROVE  mem'[EnvSlot(i)'] = left'[i]
    <2>1. CASE i \in 0 .. 3
      <3>1. EnvSlot(i)' = left[rsp] - 1 - i /\ left[rsp] - 1 - i \in EnvMem
        <4>1. HasRoom(left[rsp]) /\ i + 1 \in 1 .. 5 /\ left[rsp] \in Int
          BY <1>2, <1>3, <2>1 DEF IInv, History, HasLeft
        <4>2. left[rsp] - (i + 1) \in EnvMem
          BY <4>1, Addresses
        <4>. QED
          BY <1>2, <1>3, <2>1, <4>2 DEF EnvSlot
      <3>. QED
        BY <1>3, <1>4, <1>8, <2>1, <3>1
    <2>2. CASE i \in 4 .. 6
      <3>1. EnvSlot(i)' = sp - (i - 2) /\ i - 2 \in 1 .. 14
        BY <1>2, <2>2 DEF EnvSlot
      <3>. QED
        BY <1>3, <1>6, <1>8, <2>2, <3>1
    <2>3. CASE i \in 8 .. 17
      <3>1. EnvSlot(i)' = sp - (i - 3) /\ i - 3 \in 1 .. 14
        BY <1>2, <2>3 DEF EnvSlot
      <3>2. HandlerFrame[i - 3] = left[i]
        BY <1>6, <2>3
      <3>. QED
        BY <1>3, <1>8, <3>1, <3>2
    <2>. QED
      BY <1>11, <2>1, <2>2, <2>3
  <1>12. AtFirstLoop'
    <2>1. Saving(17)'
      BY <1>3, <1>4, <1>5, <1>9, <1>11 DEF Saving
    <2>2. cpu'[rcx] + 7 = 17 /\ cpu'[rsp] = HostSP - 20 - cpu'[rcx]
      BY <1>2, <1>5
    <2>. QED
      BY <1>5, <1>10, <2>1, <2>2 DEF AtFirstLoop, EnvSPKept
  <1>13. TypeOK'
    BY <1>3, <1>5, <1>8 DEF IInv, TypeOK, Labels
  <1>14. History'
    BY <1>3 DEF IInv, History, HasLeft, HasRoom
  <1>. QED
    BY <1>3, <1>12, <1>13, <1>14
    DEF IInv, AtHost, AtStart, AtUser, AtHandler, AtSkip,
        AtSecondLoop, AtSwitch, AtThirdLoop, AtSaveRsp, AtAfter, AtExecuted

(* One iteration of a save loop takes the loop invariant from n to n - 1.  *)

(* One iteration of a save loop takes the loop invariant from n to n - 1.  *)

(* One iteration of a save loop takes the loop invariant from n to n - 1.  *)
LEMMA SaveStep ==
  ASSUME TypeOK, NEW n \in EnvReg, n # rsp, Saving(n),
         cpu[rsp] = EnvSlot(n), SaveRegister(n)
  PROVE  /\ Saving(n - 1)'
         /\ cpu' \in [CpuReg -> Int]
         /\ cpu'[rsp] = cpu[rsp] + 1 /\ cpu'[rcx] = cpu[rcx] - 1
         /\ cpu'[rbp] = cpu[rbp]
         /\ env' \in [EnvReg -> Int] /\ mask' \subseteq 0 .. 63
  <1>1. /\ cpu \in [CpuReg -> Int] /\ env \in [EnvReg -> Int]
        /\ left \in [EnvReg -> Int]
    BY DEF TypeOK
  <1>2. UNCHANGED <<mem, stub, offset, changed, writes, host, given, left>>
    BY DEF SaveRegister, hist
  <1>3. mem[cpu[rsp]] = left[n] /\ left[n] \in Int /\ env[n] = given[n]
    BY <1>1 DEF Saving
  <1>4. /\ env' = [env EXCEPT ![n] = left[n]]
        /\ mask' = rol(mask \cup (IF Differs(n) THEN {0} ELSE {}))
        /\ cpu' \in [CpuReg -> Int]
        /\ cpu'[rsp] = cpu[rsp] + 1 /\ cpu'[rcx] = cpu[rcx] - 1
        /\ cpu'[rbp] = cpu[rbp] /\ cpu'[rbx] = StructPtr
    BY <1>1, <1>3 DEF SaveRegister, Differs
  <1>5. \A i \in EnvReg : Differs(i)' = Differs(i)
    BY <1>2 DEF Differs
  <1>6. mask' = {b \in 1 .. 18 : /\ b + (n - 1) \in EnvReg
                                 /\ b + (n - 1) # rsp
                                 /\ Differs(b + (n - 1))}
    <2>. DEFINE old == {b \in 1 .. 18 :
                          b + n \in EnvReg /\ b + n # rsp /\ Differs(b + n)}
                bits == old \cup (IF Differs(n) THEN {0} ELSE {})
    <2>1. mask' = {(b + 1) % 64 : b \in bits}
      BY <1>4 DEF Saving, rol
    <2>2. \A b \in bits : b \in 0 .. 17 /\ (b + 1) % 64 = b + 1
      OBVIOUS
    <2>3. mask' = {b + 1 : b \in bits}
      BY <2>1, <2>2
    <2>4. \A b \in 0 .. 17 : b \in bits <=>
            b + n \in EnvReg /\ b + n # rsp /\ Differs(b + n)
      OBVIOUS
    <2>. HIDE DEF bits
    <2>5. ASSUME NEW c \in mask'
          PROVE  c \in 1 .. 18 /\ c - 1 \in bits
      BY <2>2, <2>3
    <2>6. ASSUME NEW c \in 1 .. 18, c - 1 \in bits
          PROVE  c \in mask'
      BY <2>3, <2>6
    <2>7. \A c \in 1 .. 18 : c \in mask' <=>
            /\ c + (n - 1) \in EnvReg
            /\ c + (n - 1) # rsp
            /\ Differs(c + (n - 1))
      <3>1. \A c \in 1 .. 18 : c - 1 \in 0 .. 17 /\ (c - 1) + n = c + (n - 1)
        OBVIOUS
      <3>. QED
        BY <2>4, <2>5, <2>6, <3>1
    <2>. QED
      BY <2>5, <2>7
  <1>7. \A i \in EnvReg :
          env'[i] = IF i > n - 1 /\ i # rsp THEN left[i] ELSE given[i]
    BY <1>1, <1>4 DEF Saving
  <1>8. HostSaved'
    BY <1>2 DEF HostSaved, HostSlot, Saving
  <1>9. ASSUME NEW i \in EnvReg, i <= n - 1, i # rsp
        PROVE  mem'[EnvSlot(i)'] = left'[i]
    BY <1>2, <1>9 DEF Saving, EnvSlot
  <1>10. Saving(n - 1)'
    <2>1. mask' = {b \in 1 .. 18 : /\ b + (n - 1) \in EnvReg
                                   /\ b + (n - 1) # rsp
                                   /\ Differs(b + (n - 1))'}
      BY <1>2, <1>6 DEF Differs
    <2>2. \A i \in EnvReg :
            env'[i] = IF i > n - 1 /\ i # rsp THEN left'[i] ELSE given'[i]
      BY <1>2, <1>7
    <2>3. \A i \in EnvReg :
            i <= n - 1 /\ i # rsp => mem'[EnvSlot(i)'] = left'[i]
      BY <1>9
    <2>. QED
      BY <1>4, <1>8, <2>1, <2>2, <2>3 DEF Saving
  <1>11. env' \in [EnvReg -> Int]
    BY <1>1, <1>3, <1>4
  <1>12. mask' \subseteq 0 .. 63
    BY <1>6
  <1>. QED
    BY <1>4, <1>10, <1>11, <1>12

(* The variables that a step of the save loops keeps.                      *)
Kept == <<mem, stub, offset, changed, writes, hist>>

(* The first loop saves rip down to r8.                                    *)
LEMMA FirstLoopStep ==
  ASSUME IInv, first_save_loop
  PROVE  IInv'
  <1>1. /\ pc = "first_save_loop" /\ UNCHANGED Kept
        /\ pc' = IF cpu[rcx] = 1 THEN "skip_rsp" ELSE pc
        /\ SaveRegister(cpu[rcx] + 7)
    BY DEF first_save_loop, SaveRegister, Kept
  <1>2. /\ cpu[rcx] \in 1 .. 10 /\ cpu[rsp] = HostSP - 20 - cpu[rcx]
        /\ Saving(cpu[rcx] + 7) /\ EnvSPKept
    BY <1>1 DEF IInv, AtFirstLoop
  <1>3. PICK n \in EnvReg : n = cpu[rcx] + 7
    BY <1>2
  <1>4. /\ n # rsp /\ cpu[rsp] = EnvSlot(n) /\ Saving(n)
        /\ SaveRegister(n) /\ TypeOK
    BY <1>1, <1>2, <1>3, Addresses DEF EnvSlot, IInv
  <1>5. /\ Saving(n - 1)' /\ cpu' \in [CpuReg -> Int]
        /\ cpu'[rsp] = cpu[rsp] + 1 /\ cpu'[rcx] = cpu[rcx] - 1
        /\ env' \in [EnvReg -> Int] /\ mask' \subseteq 0 .. 63
    BY <1>4, SaveStep
  <1>6. TypeOK'
    BY <1>1, <1>5 DEF IInv, TypeOK, Labels, Kept, hist
  <1>7. EnvSPKept'
    BY <1>1, <1>2 DEF EnvSPKept, Kept, hist
  <1>8. ASSUME cpu[rcx] # 1
        PROVE  AtFirstLoop' /\ AtSkip'
    <2>1. n - 1 = cpu'[rcx] + 7
      BY <1>2, <1>3, <1>5
    <2>2. cpu'[rcx] \in 1 .. 10 /\ cpu'[rsp] = HostSP - 20 - cpu'[rcx]
      BY <1>2, <1>5, <1>8, Addresses
    <2>3. Saving(cpu[rcx] + 7)'
      BY <1>5, <2>1
    <2>. QED
      BY <1>1, <1>7, <1>8, <2>2, <2>3 DEF AtFirstLoop, AtSkip
  <1>9. ASSUME cpu[rcx] = 1
        PROVE  AtFirstLoop' /\ AtSkip'
    <2>1. n - 1 = 7 /\ cpu'[rsp] = HostSP - 20
      BY <1>2, <1>3, <1>5, <1>9, Addresses
    <2>2. Saving(7)'
      BY <1>5, <2>1
    <2>. QED
      BY <1>1, <1>7, <1>9, <2>1, <2>2 DEF AtFirstLoop, AtSkip
  <1>10. History'
    BY <1>1 DEF IInv, History, HasLeft, HasRoom, Kept, hist
  <1>. QED
    BY <1>1, <1>6, <1>8, <1>9, <1>10
    DEF IInv, AtHost, AtStart, AtUser, AtHandler, AtSecondLoop, AtSwitch,
        AtThirdLoop, AtSaveRsp, AtAfter, AtExecuted

(* Skipping rsp moves the mask's bits one place on.                        *)
LEMMA SkipStep ==
  ASSUME IInv, skip_rsp
  PROVE  IInv'
  <1>1. /\ pc = "skip_rsp" /\ pc' = "second_save_loop"
        /\ UNCHANGED <<env, Kept>> /\ mask' = rol(mask)
        /\ cpu' = [cpu EXCEPT ![rcx] = 3]
    BY DEF skip_rsp, Goto, Kept, hist
  <1>2. cpu[rsp] = HostSP - 20 /\ Saving(7) /\ EnvSPKept
    BY <1>1 DEF IInv, AtSkip
  <1>3. cpu \in [CpuReg -> Int]
    BY DEF IInv, TypeOK
  <1>4. mask' = {b \in 1 .. 18 :
                   b + 6 \in EnvReg /\ b + 6 # rsp /\ Differs(b + 6)}
    <2>1. mask = {b \in 1 .. 18 :
                    b + 7 \in EnvReg /\ b + 7 # rsp /\ Differs(b + 7)}
      BY <1>2 DEF Saving
    <2>2. mask' = {(b + 1) % 64 : b \in mask}
      BY <1>1 DEF rol
    <2>3. \A b \in mask : b \in 1 .. 10 /\ (b + 1) % 64 = b + 1
      BY <2>1
    <2>4. mask' = {b + 1 : b \in mask}
      BY <2>2, <2>3
    <2>5. ASSUME NEW c \in mask'
          PROVE  /\ c \in 1 .. 18
                 /\ c + 6 \in EnvReg /\ c + 6 # rsp /\ Differs(c + 6)
      <3>1. PICK b \in mask : c = b + 1
        BY <2>4
      <3>2. b \in 1 .. 10 /\ b + 7 = c + 6
        BY <2>3, <3>1
      <3>. QED
        BY <2>1, <3>1, <3>2
    <2>6. ASSUME NEW c \in 1 .. 18,
                 c + 6 \in EnvReg, c + 6 # rsp, Differs(c + 6)
          PROVE  c \in mask'
      <3>1. c - 1 \in 1 .. 18 /\ (c - 1) + 7 = c + 6 /\ (c - 1) + 1 = c
        BY <2>6
      <3>2. c - 1 \in mask
        BY <2>1, <2>6, <3>1
      <3>. QED
        BY <2>4, <3>1, <3>2
    <2>. QED
      BY <2>5, <2>6
  <1>5. Saving(6)'
    <2>1. \A i \in EnvReg : Differs(i)' = Differs(i)
      BY <1>1 DEF Differs, Kept, hist
    <2>2. mask' = {b \in 1 .. 18 :
                     b + 6 \in EnvReg /\ b + 6 # rsp /\ Differs(b + 6)'}
      BY <1>4, <2>1
    <2>3. HostSaved' /\ cpu'[rbx] = StructPtr
      BY <1>1, <1>2, <1>3 DEF Saving, HostSaved, HostSlot, Kept, hist
    <2>4. \A i \in EnvReg :
            env'[i] = IF i > 6 /\ i # rsp THEN left'[i] ELSE given'[i]
      BY <1>1, <1>2 DEF Saving, Kept, hist
    <2>5. \A i \in EnvReg : i <= 6 /\ i # rsp => mem'[EnvSlot(i)'] = left'[i]
      BY <1>1, <1>2 DEF Saving, EnvSlot, Kept, hist
    <2>. QED
      BY <2>2, <2>3, <2>4, <2>5 DEF Saving
  <1>6. AtSecondLoop'
    <2>1. cpu'[rcx] = 3 /\ 3 + 3 = 6 /\ cpu'[rsp] = HostSP - 17 - 3
      BY <1>1, <1>2, <1>3, Addresses
    <2>2. EnvSPKept'
      BY <1>1, <1>2 DEF EnvSPKept, Kept, hist
    <2>. QED
      BY <1>5, <2>1, <2>2 DEF AtSecondLoop
  <1>7. TypeOK'
    <2>1. mask' \subseteq 0 .. 63
      BY <1>4
    <2>. QED
      BY <1>1, <1>3, <2>1 DEF IInv, TypeOK, Labels, Kept, hist
  <1>8. History'
    BY <1>1 DEF IInv, History, HasLeft, HasRoom, Kept, hist
  <1>. QED
    BY <1>1, <1>6, <1>7, <1>8
    DEF IInv, AtHost, AtStart, AtUser, AtHandler, AtFirstLoop, AtSkip,
        AtSwitch, AtThirdLoop, AtSaveRsp, AtAfter, AtExecuted

(* The second loop saves rbp down to rsi.                                  *)
LEMMA SecondLoopStep ==
  ASSUME IInv, second_save_loop
  PROVE  IInv'
  <1>1. /\ pc = "second_save_loop" /\ UNCHANGED Kept
        /\ pc' = IF cpu[rcx] = 1 THEN "to_env_stack" ELSE pc
        /\ SaveRegister(cpu[rcx] + 3)
    BY DEF second_save_loop, SaveRegister, Kept
  <1>2. /\ cpu[rcx] \in 1 .. 3 /\ cpu[rsp] = HostSP - 17 - cpu[rcx]
        /\ Saving(cpu[rcx] + 3) /\ EnvSPKept
    BY <1>1 DEF IInv, AtSecondLoop
  <1>3. PICK n \in EnvReg : n = cpu[rcx] + 3
    BY <1>2
  <1>4. /\ n # rsp /\ cpu[rsp] = EnvSlot(n) /\ Saving(n)
        /\ SaveRegister(n) /\ TypeOK
    BY <1>1, <1>2, <1>3, Addresses DEF EnvSlot, IInv
  <1>5. /\ Saving(n - 1)' /\ cpu' \in [CpuReg -> Int]
        /\ cpu'[rsp] = cpu[rsp] + 1 /\ cpu'[rcx] = cpu[rcx] - 1
        /\ env' \in [EnvReg -> Int] /\ mask' \subseteq 0 .. 63
    BY <1>4, SaveStep
  <1>6. TypeOK'
    BY <1>1, <1>5 DEF IInv, TypeOK, Labels, Kept, hist
  <1>7. EnvSPKept'
    BY <1>1, <1>2 DEF EnvSPKept, Kept, hist
  <1>8. ASSUME cpu[rcx] # 1
        PROVE  AtSecondLoop' /\ AtSwitch'
    <2>1. n - 1 = cpu'[rcx] + 3
      BY <1>2, <1>3, <1>5
    <2>2. cpu'[rcx] \in 1 .. 3 /\ cpu'[rsp] = HostSP - 17 - cpu'[rcx]
      BY <1>2, <1>5, <1>8, Addresses
    <2>3. Saving(cpu[rcx] + 3)'
      BY <1>5, <2>1
    <2>. QED
      BY <1>1, <1>7, <1>8, <2>2, <2>3 DEF AtSecondLoop, AtSwitch
  <1>9. ASSUME cpu[rcx] = 1
        PROVE  AtSecondLoop' /\ AtSwitch'
    <2>1. n - 1 = 3 /\ cpu'[rsp] = HostSP - 17
      BY <1>2, <1>3, <1>5, <1>9, Addresses
    <2>2. Saving(3)'
      BY <1>5, <2>1
    <2>. QED
      BY <1>1, <1>7, <1>9, <2>1, <2>2 DEF AtSecondLoop, AtSwitch
  <1>10. History'
    BY <1>1 DEF IInv, History, HasLeft, HasRoom, Kept, hist
  <1>. QED
    BY <1>1, <1>6, <1>8, <1>9, <1>10
    DEF IInv, AtHost, AtStart, AtUser, AtHandler, AtFirstLoop, AtSkip,
        AtThirdLoop, AtSaveRsp, AtAfter, AtExecuted

(* to_env_stack finds the stack pointer the exit instructions left.        *)
LEMMA SwitchStackStep ==
  ASSUME IInv, to_env_stack
  PROVE  IInv'
  <1>1. /\ pc = "to_env_stack" /\ pc' = "third_save_loop"
        /\ UNCHANGED <<env, mask, Kept>>
        /\ cpu' = [cpu EXCEPT ![rsp] = mem[cpu[rsp]], ![rbp] = cpu[rsp] + 1,
                              ![rcx] = 4]
    BY DEF to_env_stack, Goto, Kept, hist
  <1>2. cpu[rsp] = HostSP - 17 /\ Saving(3) /\ EnvSPKept
    BY <1>1 DEF IInv, AtSwitch
  <1>3. cpu \in [CpuReg -> Int] /\ left \in [EnvReg -> Int]
    BY DEF IInv, TypeOK
  <1>4. /\ cpu'[rsp] = left[rsp] - 4 /\ cpu'[rbp] = HostSP - 16
        /\ cpu'[rcx] = 4 /\ cpu' \in [CpuReg -> Int]
    BY <1>1, <1>2, <1>3, Addresses DEF EnvSPKept
  <1>5. Saving(3)'
    BY <1>1, <1>2, <1>3
    DEF Saving, HostSaved, HostSlot, EnvSlot, Differs, Kept, hist
  <1>6. AtThirdLoop'
    <2>1. cpu'[rcx] - 1 = 3 /\ left' = left
      BY <1>1, <1>4 DEF Kept, hist
    <2>2. Saving(cpu[rcx] - 1)'
      BY <1>5, <2>1
    <2>. QED
      BY <1>4, <2>1, <2>2 DEF AtThirdLoop
  <1>7. TypeOK'
    BY <1>1, <1>4 DEF IInv, TypeOK, Labels, Kept, hist
  <1>8. History'
    BY <1>1 DEF IInv, History, HasLeft, HasRoom, Kept, hist
  <1>. QED
    BY <1>1, <1>6, <1>7, <1>8
    DEF IInv, AtHost, AtStart, AtUser, AtHandler, AtFirstLoop, AtSkip,
        AtSecondLoop, AtSwitch, AtSaveRsp, AtAfter, AtExecuted

(* The third loop saves rdx down to rax.                                   *)
LEMMA ThirdLoopStep ==
  ASSUME IInv, third_save_loop
  PROVE  IInv'
  <1>1. /\ pc = "third_save_loop" /\ UNCHANGED Kept
        /\ pc' = IF cpu[rcx] = 1 THEN "save_rsp" ELSE pc
        /\ SaveRegister(cpu[rcx] - 1)
    BY DEF third_save_loop, SaveRegister, Kept
  <1>2. /\ cpu[rcx] \in 1 .. 4 /\ cpu[rsp] = left[rsp] - cpu[rcx]
        /\ Saving(cpu[rcx] - 1) /\ cpu[rbp] = HostSP - 16
        /\ left[rsp] \in Int /\ left' = left
    BY <1>1 DEF IInv, AtThirdLoop, TypeOK, Kept, hist
  <1>3. PICK n \in EnvReg : n = cpu[rcx] - 1
    BY <1>2
  <1>4. /\ n # rsp /\ cpu[rsp] = EnvSlot(n) /\ Saving(n)
        /\ SaveRegister(n) /\ TypeOK
    BY <1>1, <1>2, <1>3 DEF EnvSlot, IInv
  <1>5. /\ Saving(n - 1)' /\ cpu' \in [CpuReg -> Int]
        /\ cpu'[rsp] = cpu[rsp] + 1 /\ cpu'[rcx] = cpu[rcx] - 1
        /\ cpu'[rbp] = cpu[rbp]
        /\ env' \in [EnvReg -> Int] /\ mask' \subseteq 0 .. 63
    BY <1>4, SaveStep
  <1>6. TypeOK'
    BY <1>1, <1>5 DEF IInv, TypeOK, Labels, Kept, hist
  <1>7. ASSUME cpu[rcx] # 1
        PROVE  AtThirdLoop' /\ AtSaveRsp'
    <2>1. n - 1 = cpu'[rcx] - 1
      BY <1>2, <1>3, <1>5
    <2>2. cpu'[rcx] \in 1 .. 4 /\ cpu'[rsp] = left'[rsp] - cpu'[rcx]
      BY <1>2, <1>5, <1>7
    <2>3. Saving(cpu[rcx] - 1)'
      BY <1>5, <2>1
    <2>. QED
      BY <1>1, <1>2, <1>5, <1>7, <2>2, <2>3 DEF AtThirdLoop, AtSaveRsp
  <1>8. ASSUME cpu[rcx] = 1
        PROVE  AtThirdLoop' /\ AtSaveRsp'
    <2>1. n - 1 = -1 /\ cpu'[rsp] = left'[rsp]
      BY <1>2, <1>3, <1>5, <1>8
    <2>2. Saving(-1)'
      BY <1>5, <2>1
    <2>. QED
      BY <1>1, <1>2, <1>5, <1>8, <2>1, <2>2 DEF AtThirdLoop, AtSaveRsp
  <1>9. History'
    BY <1>1 DEF IInv, History, HasLeft, HasRoom, Kept, hist
  <1>. QED
    BY <1>1, <1>6, <1>7, <1>8, <1>9
    DEF IInv, AtHost, AtStart, AtUser, AtHandler, AtFirstLoop, AtSkip,
        AtSecondLoop, AtSwitch, AtAfter, AtExecuted

(* save_rsp completes the struct and the mask.                             *)
LEMMA SaveRspStep ==
  ASSUME IInv, save_rsp
  PROVE  IInv'
  <1>1. /\ pc = "save_rsp" /\ pc' = "after_execution" /\ UNCHANGED Kept
        /\ mask' = ror(mask) \cup RspBit
        /\ env' = [env EXCEPT ![rsp] = cpu[rsp]]
        /\ cpu' = [cpu EXCEPT ![rsp] = cpu[rbp] + 1, ![rdx] = Scratch]
    BY DEF save_rsp, Goto, Kept, hist
  <1>2. cpu[rsp] = left[rsp] /\ Saving(-1) /\ cpu[rbp] = HostSP - 16
    BY <1>1 DEF IInv, AtSaveRsp
  <1>3. /\ cpu \in [CpuReg -> Int] /\ env \in [EnvReg -> Int]
        /\ left \in [EnvReg -> Int] /\ left' = left /\ given' = given
    BY <1>1 DEF IInv, TypeOK, Kept, hist
  <1>4. \A i \in EnvReg : env[i] = IF i # rsp THEN left[i] ELSE given[i]
    BY <1>2 DEF Saving
  <1>5. env' = left'
    BY <1>1, <1>2, <1>3, <1>4
  <1>6. cpu' \in [CpuReg -> Int] /\ cpu'[rsp] = HostSP - 15
    BY <1>1, <1>2, <1>3, Addresses
  <1>7. HostSaved'
    BY <1>1, <1>2 DEF Saving, HostSaved, HostSlot, Kept, hist
  <1>8. Reported'
    <2>1. mask = {b \in 1 .. 18 :
                    b + (-1) \in EnvReg /\ b + (-1) # rsp /\ Differs(b + (-1))}
      BY <1>2 DEF Saving
    <2>2. ror(mask) = {(b + 63) % 64 : b \in mask}
      BY DEF ror
    <2>3. \A b \in mask : b \in 1 .. 18 /\ (b + 63) % 64 = b + (-1)
      BY <2>1
    <2>4. ror(mask) = {b + (-1) : b \in mask}
      BY <2>2, <2>3
    <2>5. ASSUME NEW i \in ror(mask)
          PROVE  i \in EnvReg /\ Differs(i)
      BY <2>1, <2>4
    <2>6. ASSUME NEW i \in EnvReg, i # rsp, Differs(i)
          PROVE  i \in ror(mask)
      <3>1. i + 1 \in 1 .. 18 /\ (i + 1) + (-1) = i
        OBVIOUS
      <3>2. i + 1 \in mask
        BY <2>1, <2>6, <3>1
      <3>. QED
        BY <2>4, <3>1, <3>2
    <2>7. RspBit = IF Differs(rsp) THEN {rsp} ELSE {}
      BY <1>2, <1>3, <1>4 DEF RspBit, Differs
    <2>8. mask' = {i \in EnvReg : Differs(i)}
      BY <1>1, <2>5, <2>6, <2>7
    <2>. QED
      BY <1>3, <2>8 DEF Reported, Differs
  <1>9. AtAfter'
    BY <1>5, <1>6, <1>7, <1>8 DEF AtAfter
  <1>10. TypeOK'
    <2>1. mask' \subseteq 0 .. 63 /\ env' \in [EnvReg -> Int]
      BY <1>1, <1>2, <1>3, <1>8 DEF Reported
    <2>. QED
      BY <1>1, <1>6, <2>1 DEF IInv, TypeOK, Labels, Kept, hist
  <1>11. History'
    BY <1>1 DEF IInv, History, HasLeft, HasRoom, Kept, hist
  <1>. QED
    BY <1>1, <1>9, <1>10, <1>11
    DEF IInv, AtHost, AtStart, AtUser, AtHandler, AtFirstLoop, AtSkip,
        AtSecondLoop, AtSwitch, AtThirdLoop, AtSaveRsp, AtExecuted

(* PopOrder lists the saved registers from the last pushed to the first.   *)
LEMMA PopOrderFact ==
  /\ DOMAIN PopOrder = 1 .. 14 /\ Len(PopOrder) = 14
  /\ \A i \in 8 .. 16 : PopOrder[17 - i] = i
  /\ \A i \in 2 .. 6 : PopOrder[16 - i] = i
  /\ \A k \in 1 .. 14 : PopOrder[k] = IF k < 10 THEN 17 - k ELSE 16 - k
  BY DEF PopOrder

(* after_execution gives every host register its value back.               *)
LEMMA AfterStep ==
  ASSUME IInv, after_execution
  PROVE  IInv'
  <1>1. /\ pc = "after_execution" /\ pc' = "executed"
        /\ UNCHANGED <<env, mask, Kept>>
    BY DEF after_execution, Goto, Kept, hist
  <1>2. HostSaved /\ env = left /\ cpu[rsp] = HostSP - 15 /\ Reported
    BY <1>1 DEF IInv, AtAfter
  <1>3. cpu \in [CpuReg -> Int] /\ mem \in [Address -> Int] /\ HostSP \in Int
    BY Addresses DEF IInv, TypeOK
  <1>4. host[rsp] = HostSP /\ host \in [CpuReg -> Int]
    BY <1>1 DEF IInv, History, TypeOK
  <1>5. ASSUME NEW i \in Preserved
        PROVE  cpu'[i] = host[i]
    <2>. DEFINE k == IF i < rsp THEN 16 - i ELSE 17 - i
    <2>1. k \in 1 .. 14 /\ PopOrder[k] = i
      BY PopOrderFact DEF Preserved
    <2>2. \A j \in 1 .. 14 : PopOrder[j] = i => j = k
      BY PopOrderFact DEF Preserved
    <2>3. cpu[rsp] - 1 + k = HostSlot(i)
      BY <1>2, <1>3 DEF Preserved, HostSlot
    <2>. HIDE DEF k
    <2>4. (CHOOSE j \in DOMAIN PopOrder : PopOrder[j] = i) = k
      BY <2>1, <2>2, PopOrderFact
    <2>5. i \in CpuReg /\ i # rsp /\ \E j \in DOMAIN PopOrder : PopOrder[j] = i
      BY <2>1, PopOrderFact DEF Preserved
    <2>6. cpu'[i] = mem[cpu[rsp] - 1 + k]
      BY <2>4, <2>5 DEF after_execution
    <2>. QED
      BY <1>2, <2>3, <2>6 DEF HostSaved
  <1>6. cpu'[rsp] = host[rsp]
    <2>1. cpu[rsp] + Len(PopOrder) + 1 = HostSP
      BY <1>2, <1>3, PopOrderFact
    <2>. QED
      BY <1>4, <2>1 DEF after_execution
  <1>7. \A i \in {rax, rbx} : cpu'[i] = cpu[i]
    <2>1. \A i \in {rax, rbx}, k \in 1 .. 14 : PopOrder[k] # i
      BY PopOrderFact
    <2>. QED
      BY <2>1, PopOrderFact DEF after_execution
  <1>8. AtExecuted'
    BY <1>1, <1>2, <1>5, <1>6
    DEF AtExecuted, Preserved, Reported, Differs, Kept, hist
  <1>9. cpu' \in [CpuReg -> Int]
    <2>1. \A i \in CpuReg : cpu'[i] \in Int
      BY <1>3, <1>4, <1>5, <1>6, <1>7 DEF Preserved
    <2>. QED
      BY <2>1 DEF after_execution
  <1>10. TypeOK'
    BY <1>1, <1>9 DEF IInv, TypeOK, Labels, Kept, hist
  <1>11. History'
    BY <1>1 DEF IInv, History, HasLeft, HasRoom, Kept, hist
  <1>. QED
    BY <1>1, <1>8, <1>10, <1>11
    DEF IInv, AtHost, AtStart, AtUser, AtHandler, AtFirstLoop, AtSkip,
        AtSecondLoop, AtSwitch, AtThirdLoop, AtSaveRsp, AtAfter

(* What finish_operation makes of the registers the code left.             *)
LEMMA Finished ==
  ASSUME IInv, finish_operation
  PROVE  /\ env' \in [EnvReg -> Int] /\ env'[rip] = CodeBase + offset
         /\ \A i \in CpuReg : env'[i] = left[i]
         /\ changed' = {i \in EnvReg : Differs(i)}
  <1>1. /\ pc = "executed" /\ changed' = mask
        /\ env' = [env EXCEPT ![rip] = env[rip] - 26]
    BY DEF finish_operation, Goto
  <1>2. /\ env = left /\ Reported /\ left \in [EnvReg -> Int]
        /\ left[rip] = CodeBase + offset + 26
    BY <1>1 DEF IInv, AtExecuted, History, HasLeft, TypeOK
  <1>3. left[rip] - 26 = CodeBase + offset
    <2>1. CodeBase \in Int /\ offset \in Int
      BY CodeAssumption DEF IInv, TypeOK
    <2>. QED
      BY <1>2, <2>1
  <1>4. env' \in [EnvReg -> Int] /\ env'[rip] = CodeBase + offset
    BY <1>1, <1>2, <1>3
  <1>5. \A i \in CpuReg : env'[i] = left[i]
    BY <1>1, <1>2
  <1>6. changed' = {i \in EnvReg : Differs(i)}
    BY <1>1, <1>2 DEF Reported
  <1>. QED
    BY <1>4, <1>5, <1>6

(* finish_operation hands the mask out and moves rip back.                 *)
LEMMA FinishStep ==
  ASSUME IInv, finish_operation
  PROVE  IInv'
  <1>1. /\ pc = "executed" /\ pc' = "host" /\ changed' = mask /\ mask' = {}
        /\ UNCHANGED <<cpu, mem, stub, offset, writes, hist>>
    BY DEF finish_operation, Goto
  <1>2. /\ \A i \in CpuReg \ {rax, rbx} : cpu[i] = host[i]
        /\ host[rsp] = HostSP /\ HasRoom(left[rsp])
    BY <1>1 DEF IInv, AtExecuted, History, HasLeft
  <1>3. TypeOK'
    BY <1>1, Finished DEF IInv, TypeOK, Labels, hist
  <1>4. cpu'[rsp] = HostSP
    BY <1>1, <1>2
  <1>5. env'[rsp] = left[rsp] /\ env'[rip] = CodeBase + offset'
    BY <1>1, Finished
  <1>6. CodeBase + offset' \in CodeBase .. (CodeBase + offset')
    BY <1>1, CodeAssumption DEF IInv, TypeOK
  <1>7. AtHost' /\ History'
    BY <1>1, <1>2, <1>4, <1>5, <1>6 DEF AtHost, History, HasLeft, HasRoom
  <1>. QED
    BY <1>1, <1>3, <1>7
    DEF IInv, AtStart, AtUser, AtHandler, AtFirstLoop, AtSkip,
        AtSecondLoop, AtSwitch, AtThirdLoop, AtSaveRsp, AtAfter, AtExecuted

(* Every step, and every stuttering step, preserves the invariant.         *)
LEMMA NextStep ==
  ASSUME IInv, [Next]_vars
  PROVE  IInv'
  <1>1. CASE \E n \in CodeSizes : prepare_execute(n)
    BY <1>1, PrepareStep
  <1>2. CASE Enter
    BY <1>2, StartOperationStep, StartExecuteStep DEF Enter
  <1>3. CASE User
    BY <1>3, UserStep
  <1>4. CASE exit_instructions
    BY <1>4, ExitStep
  <1>5. CASE Leave
    BY <1>5, HandlerStep, FirstLoopStep, SkipStep, SecondLoopStep,
       SwitchStackStep, ThirdLoopStep, SaveRspStep, AfterStep, FinishStep
    DEF Leave
  <1>6. CASE UNCHANGED vars
    BY <1>6
    DEF vars, hist, IInv, TypeOK, History, HasLeft, HasRoom, AtHost, AtStart,
        AtUser, AtHandler, AtFirstLoop, AtSkip, AtSecondLoop, AtSwitch,
        AtThirdLoop, AtSaveRsp, AtAfter, AtExecuted, Saving, HostSaved,
        HostSlot, EnvSlot, EnvSPKept, Differs, Reported
  <1>7. CASE \E s \in Settings : set_common_registers(s)
    BY <1>7, SetStep
  <1>. QED
    BY <1>1, <1>2, <1>3, <1>4, <1>5, <1>6, <1>7 DEF Next

(* The invariant holds in every reachable state.                           *)
THEOREM Inductive == Spec => []IInv
  BY InitIInv, NextStep, PTL DEF Spec

-----------------------------------------------------------------------------
(* Every variable keeps its type: the loops never read or write outside    *)
(* the register file and the two stacks.                                   *)
THEOREM TypeCorrect == Spec => []TypeOK
  <1>1. IInv => TypeOK
    BY DEF IInv
  <1>. QED
    BY <1>1, Inductive, PTL

(* start_operation gets back every register it may rely on.                *)
THEOREM HostIsRestored == Spec => []HostRestored
  <1>1. IInv => HostRestored
    BY DEF IInv, AtExecuted, HostRestored
  <1>. QED
    BY <1>1, Inductive, PTL

(* The struct holds what the user's code left in the registers.            *)
THEOREM EnvironmentIsSaved == Spec => []EnvironmentSaved
  <1>1. IInv => EnvironmentSaved
    BY DEF IInv, AtAfter, AtExecuted, EnvironmentSaved
  <1>. QED
    BY <1>1, Inductive, PTL

-----------------------------------------------------------------------------
(* What the switch needs to go on at each label: the struct and the words  *)
(* to patch are where the code looks for them, the inserted instructions   *)
(* are patched, and both returns find their addresses on the host's stack. *)
Ready ==
  /\ pc = "start_execute" => cpu[rax] = StructPtr /\ cpu[rbx] = SlotPtr
  /\ pc = "user" => stub.resume = ResumeAddress
  /\ pc \in {"first_save_loop", "second_save_loop", "third_save_loop"} =>
       cpu[rbx] = StructPtr
  /\ pc = "save_rsp" => mem[cpu[rbp]] = AfterExecution
  /\ pc = "after_execution" => mem[cpu[rsp] + Len(PopOrder)] = AfterCall

(* From start_operation to the exit instructions nobody patches them again.*)
Patched == pc \in {"start_execute", "user"} => stub.resume = ResumeAddress

LEMMA PatchedStep ==
  ASSUME TypeOK, Patched, [Next]_vars
  PROVE  Patched'
  <1>1. stub \in [stack : Int, resume : Int]
    BY DEF TypeOK
  <1>2. CASE start_operation
    BY <1>1, <1>2 DEF start_operation, Goto, Patched
  <1>3. CASE start_execute
    BY <1>1, <1>3 DEF start_execute, Goto, Patched
  <1>4. CASE User \/ UNCHANGED vars
    BY <1>4 DEF User, UserWrite, UserMoveStack, UserStore, InUserCode, vars,
                Patched
  <1>5. CASE \E s \in Settings : set_common_registers(s)
    BY <1>5 DEF set_common_registers, Patched
  <1>6. CASE \/ \E n \in CodeSizes : prepare_execute(n)
             \/ exit_instructions \/ Leave
    <2>1. pc' \notin {"start_execute", "user"}
      BY <1>6 DEF prepare_execute, exit_instructions, Leave, Goto,
                  operation_end_handler, first_save_loop, skip_rsp,
                  second_save_loop, to_env_stack, third_save_loop, save_rsp,
                  after_execution, finish_operation
    <2>. QED
      BY <2>1 DEF Patched
  <1>. QED
    BY <1>2, <1>3, <1>4, <1>5, <1>6 DEF Next, Enter

(* It can always go on: the safety half of SwitchCompletes.                *)
THEOREM NeverStuck == Spec => []Ready
  <1>1. Init => Patched
    BY DEF Init, Patched
  <1>2. Spec => []Patched
    BY <1>1, PatchedStep, TypeCorrect, PTL DEF Spec
  <1>3. ASSUME IInv, pc = "after_execution"
        PROVE  mem[cpu[rsp] + Len(PopOrder)] = AfterCall
    <2>1. cpu[rsp] = HostSP - 15 /\ mem[HostSP - 1] = AfterCall
      BY <1>3 DEF IInv, AtAfter, HostSaved
    <2>2. (HostSP - 15) + Len(PopOrder) = HostSP - 1
      BY PopOrderFact, Addresses
    <2>. QED
      BY <2>1, <2>2
  <1>4. ASSUME IInv, pc = "save_rsp"
        PROVE  mem[cpu[rbp]] = AfterExecution
    BY <1>4 DEF IInv, AtSaveRsp, Saving, HostSaved
  <1>5. ASSUME IInv
        PROVE  /\ pc = "start_execute" => cpu[rax] = StructPtr /\ cpu[rbx] = SlotPtr
               /\ pc = "first_save_loop" => cpu[rbx] = StructPtr
               /\ pc = "second_save_loop" => cpu[rbx] = StructPtr
               /\ pc = "third_save_loop" => cpu[rbx] = StructPtr
    BY <1>5 DEF IInv, AtStart, AtFirstLoop, AtSecondLoop, AtThirdLoop, Saving
  <1>6. IInv /\ Patched => Ready
    BY <1>3, <1>4, <1>5 DEF Ready, Patched
  <1>. QED
    BY <1>2, <1>6, Inductive, PTL

(* The steps left until start_operation goes on.                           *)
Remaining ==
  CASE pc = "operation_end_handler" -> 23
    [] pc = "first_save_loop" -> cpu[rcx] + 12
    [] pc = "skip_rsp" -> 12
    [] pc = "second_save_loop" -> cpu[rcx] + 8
    [] pc = "to_env_stack" -> 8
    [] pc = "third_save_loop" -> cpu[rcx] + 3
    [] pc = "save_rsp" -> 3
    [] pc = "after_execution" -> 2
    [] pc = "executed" -> 1
    [] OTHER -> 0

LEMMA LoopCounts ==
  ASSUME IInv, NEW i, SaveRegister(i)
  PROVE  cpu'[rcx] = cpu[rcx] - 1
  BY DEF SaveRegister, IInv, TypeOK

LEMMA RemainingStep ==
  ASSUME IInv, Leave
  PROVE  Remaining \in 1 .. 23 /\ Remaining' = Remaining - 1
  <1>0. cpu \in [CpuReg -> Int]
    BY DEF IInv, TypeOK
  <1>1. CASE operation_end_handler
    <2>1. pc = "operation_end_handler" /\ pc' = "first_save_loop" /\ cpu'[rcx] = 10
      BY <1>0, <1>1 DEF operation_end_handler, Goto
    <2>. QED
      BY <2>1 DEF Remaining
  <1>2. CASE first_save_loop
    <2>1. /\ pc = "first_save_loop" /\ cpu[rcx] \in 1 .. 10
          /\ pc' = IF cpu[rcx] = 1 THEN "skip_rsp" ELSE pc
          /\ cpu'[rcx] = cpu[rcx] - 1
      BY <1>2, LoopCounts DEF first_save_loop, IInv, AtFirstLoop
    <2>. QED
      BY <2>1 DEF Remaining
  <1>3. CASE skip_rsp
    <2>1. pc = "skip_rsp" /\ pc' = "second_save_loop" /\ cpu'[rcx] = 3
      BY <1>0, <1>3 DEF skip_rsp, Goto
    <2>. QED
      BY <2>1 DEF Remaining
  <1>4. CASE second_save_loop
    <2>1. /\ pc = "second_save_loop" /\ cpu[rcx] \in 1 .. 3
          /\ pc' = IF cpu[rcx] = 1 THEN "to_env_stack" ELSE pc
          /\ cpu'[rcx] = cpu[rcx] - 1
      BY <1>4, LoopCounts DEF second_save_loop, IInv, AtSecondLoop
    <2>. QED
      BY <2>1 DEF Remaining
  <1>5. CASE to_env_stack
    <2>1. pc = "to_env_stack" /\ pc' = "third_save_loop" /\ cpu'[rcx] = 4
      BY <1>0, <1>5 DEF to_env_stack, Goto
    <2>. QED
      BY <2>1 DEF Remaining
  <1>6. CASE third_save_loop
    <2>1. /\ pc = "third_save_loop" /\ cpu[rcx] \in 1 .. 4
          /\ pc' = IF cpu[rcx] = 1 THEN "save_rsp" ELSE pc
          /\ cpu'[rcx] = cpu[rcx] - 1
      BY <1>6, LoopCounts DEF third_save_loop, IInv, AtThirdLoop
    <2>. QED
      BY <2>1 DEF Remaining
  <1>7. CASE save_rsp \/ after_execution \/ finish_operation
    BY <1>7 DEF save_rsp, after_execution, finish_operation, Goto, Remaining
  <1>. QED
    BY <1>1, <1>2, <1>3, <1>4, <1>5, <1>6, <1>7 DEF Leave

(* The way back to the host takes 23 steps, whatever the user's code left  *)
(* behind: no value of a register keeps a save loop running.               *)
THEOREM WayBackIsBounded ==
  Spec => [][Leave => Remaining \in 1 .. 23 /\ Remaining' = Remaining - 1]_vars
  <1>1. IInv /\ [Next]_vars =>
          [Leave => Remaining \in 1 .. 23 /\ Remaining' = Remaining - 1]_vars
    BY RemainingStep
  <1>. QED
    BY <1>1, Inductive, PTL DEF Spec

-----------------------------------------------------------------------------
(* finish_operation is the only step from "executed".                      *)
LEMMA FromExecuted ==
  ASSUME IInv, pc = "executed", [Next]_vars
  PROVE  finish_operation \/ UNCHANGED vars
  BY DEF Next, Enter, User, Leave, Goto, prepare_execute,
         set_common_registers, start_operation,
         start_execute, UserWrite, UserMoveStack, UserStore, InUserCode,
         exit_instructions, operation_end_handler, first_save_loop, skip_rsp,
         second_save_loop, to_env_stack, third_save_loop, save_rsp,
         after_execution

(* No live word of either stack is ever overwritten by the switch.         *)
THEOREM FramesAreKept == Spec => FramesKept
  <1>. DEFINE Kept1 ==
                writes' = writes =>
                  \A a \in DOMAIN mem :
                    \/ a \in HostMem /\ a >= HostSP
                    \/ a \in EnvMem /\ a >= EnvStackPointer
                    => mem'[a] = mem[a]
  <1>1. ASSUME IInv, Next, writes' = writes, NEW a \in Address,
               \/ a \in HostMem /\ a >= HostSP
               \/ a \in EnvMem /\ a >= EnvStackPointer
        PROVE  mem'[a] = mem[a]
    <2>1. mem \in [Address -> Int] /\ HostSP \in Int
      BY <1>1, Addresses DEF IInv, TypeOK
    <2>2. cpu \in [CpuReg -> Int] /\ env \in [EnvReg -> Int] /\ writes \in Nat
      BY <1>1 DEF IInv, TypeOK
    <2>3. a \in Int /\ (a \in EnvMem \/ a >= HostSP)
      BY <1>1, Addresses
    <2>4. CASE start_operation
      <3>. DEFINE frame == <<AfterCall>>
      <3>1. frame \in Seq(Int) /\ Len(frame) = 1
        OBVIOUS
      <3>2. mem' = PushAll(mem, HostSP, frame)
        BY <1>1, <2>4 DEF IInv, AtHost, start_operation, Goto
      <3>. HIDE DEF frame
      <3>3. HostSP - 30 <= HostSP - Len(frame) /\ HostSP <= HostSP
        BY <2>1, <3>1
      <3>. QED
        BY <2>1, <2>3, <3>1, <3>2, <3>3, HostPush
    <2>5. CASE start_execute
      <3>. DEFINE top == HostSP - 1
                  sp == env[rsp]
                  onHost == PushAll(mem, top, HostFrame)
                  ripFrame == <<env[rip]>>
      <3>1. /\ mem' = PushAll(onHost, sp, ripFrame) /\ HasRoom(sp)
            /\ a \in HostMem \/ a >= sp
        BY <1>1, <2>5
        DEF IInv, AtStart, start_execute, Goto, RipSlot, EnvStackPointer
      <3>2. /\ HostFrame \in Seq(Int) /\ Len(HostFrame) = 16
            /\ ripFrame \in Seq(Int) /\ Len(ripFrame) <= 5
        BY <2>2 DEF HostFrame
      <3>3. sp \in Int /\ top \in Int /\ top <= HostSP
            /\ (a \in EnvMem \/ a >= top)
        BY <2>1, <2>2, <2>3
      <3>4. HostSP - 30 <= top - Len(HostFrame)
        BY <2>1, <3>2
      <3>. HIDE DEF top, sp, ripFrame, onHost
      <3>5. onHost \in [Address -> Int]
        BY <2>1, <3>2, <3>3, Pushed DEF onHost
      <3>6. onHost[a] = mem[a]
        BY <2>1, <3>2, <3>3, <3>4, HostPush DEF onHost
      <3>7. PushAll(onHost, sp, ripFrame)[a] = onHost[a]
        BY <3>1, <3>2, <3>3, <3>5, EnvPush
      <3>. QED
        BY <3>1, <3>6, <3>7
    <2>6. CASE exit_instructions
      <3>. DEFINE sp == cpu[rsp]
      <3>1. /\ mem' = PushAll(mem, sp, ExitFrame) /\ HasRoom(sp)
            /\ a \in HostMem \/ a >= sp
        BY <1>1, <2>6
        DEF IInv, AtUser, exit_instructions, Goto, EnvStackPointer
      <3>2. ExitEnd \in Int /\ sp \in Int
        BY <1>1, <2>2, CodeAssumption DEF IInv, TypeOK, ExitEnd
      <3>3. ExitFrame \in Seq(Int) /\ Len(ExitFrame) <= 5
        BY <2>2, <3>2 DEF ExitFrame
      <3>. HIDE DEF sp
      <3>. QED
        BY <2>1, <3>1, <3>2, <3>3, EnvPush
    <2>7. CASE operation_end_handler
      <3>. DEFINE sp == HostSP - 16
      <3>1. /\ cpu[rax] = HostSP - 17 /\ cpu[rsp] = left[rsp] - 5
            /\ mem[left[rsp] - 5] = left[rip]
            /\ left \in [EnvReg -> Int]
        BY <1>1, <2>7
        DEF IInv, AtHandler, TypeOK, operation_end_handler, Goto
      <3>2. cpu[rax] + 1 = sp
        BY <2>1, <3>1
      <3>3. mem' = PushAll(mem, sp, HandlerFrame)
        BY <2>7, <3>2 DEF operation_end_handler
      <3>4. HandlerFrame \in Seq(Int) /\ Len(HandlerFrame) = 14
        BY <2>2, <3>1 DEF HandlerFrame
      <3>5. /\ HostSP - 30 <= sp - Len(HandlerFrame) /\ sp <= HostSP
            /\ sp \in Int /\ (a \in EnvMem \/ a >= sp)
        BY <2>1, <2>3, <3>4
      <3>. HIDE DEF sp
      <3>. QED
        BY <2>1, <3>3, <3>4, <3>5, HostPush
    <2>8. CASE mem' = mem
      BY <2>8
    <2>9. ~User
      BY <1>1, <2>2 DEF User, UserWrite, UserMoveStack, UserStore
    <2>. QED
      BY <1>1, <2>4, <2>5, <2>6, <2>7, <2>8, <2>9
      DEF Next, Enter, Leave, prepare_execute, set_common_registers,
          first_save_loop, SaveRegister,
          skip_rsp, second_save_loop, to_env_stack, third_save_loop, save_rsp,
          after_execution, finish_operation
  <1>2. IInv /\ [Next]_vars => [Kept1]_vars
    <2>1. IInv => DOMAIN mem = Address
      BY DEF IInv, TypeOK
    <2>. QED
      BY <1>1, <2>1
  <1>. QED
    BY <1>2, Inductive, PTL DEF Spec, FramesKept

-----------------------------------------------------------------------------
(* What a completed execution has done, as the specification of the        *)
(* atomic execution puts it.                                               *)
LEMMA ReportedExactly ==
  ASSUME IInv, finish_operation
  PROVE  LET differs == {i \in EnvReg : env'[i] # given[i]}
         IN  differs \subseteq changed' /\ changed' \subseteq differs \cup {rip}
  <1>1. left[rip] # given[rip]
    BY CodeAssumption
    DEF IInv, TypeOK, History, HasLeft, finish_operation, Goto
  <1>. QED
    BY <1>1, Finished DEF Differs

(* An execution with no code left to run changes no register.              *)
LEMMA UnchangedWithoutCode ==
  ASSUME IInv, finish_operation, given[rip] = CodeBase + offset
  PROVE  env' = given
  <1>1. /\ given \in [EnvReg -> Int]
        /\ \A i \in CpuReg : left[i] = given[i]
    BY DEF IInv, TypeOK, History, HasLeft, finish_operation, Goto
  <1>2. \A i \in EnvReg : env'[i] = given[i]
    BY <1>1, Finished
  <1>. QED
    BY <1>1, <1>2, Finished

(* The report is exact, whatever code ran.                                 *)
THEOREM ReportIsExact == Spec => ReportExact
  <1>. DEFINE differs == {i \in EnvReg : env'[i] # given[i]}
              Exact == pc = "executed" =>
                /\ env'[rip] = CodeBase + offset
                /\ differs \subseteq changed'
                /\ changed' \subseteq differs \cup {rip}
  <1>1. IInv /\ [Next]_vars => [Exact]_vars
    BY FromExecuted, Finished, ReportedExactly
  <1>. QED
    BY <1>1, Inductive, PTL DEF Spec, ReportExact

(* Without new code, an execution leaves the registers as they were.       *)
THEOREM ReExecuteChangesNothing == Spec => ReExecuteIsNoOp
  <1>1. IInv /\ [Next]_vars =>
          [pc = "executed" /\ given[rip] = CodeBase + offset
             => env' = given]_vars
    BY FromExecuted, UnchangedWithoutCode
  <1>. QED
    BY <1>1, Inductive, PTL DEF Spec, ReExecuteIsNoOp

(* The switch implements ContextSwitch: what happens between the call and  *)
(* the return is one atomic execution to the caller.                       *)
THEOREM Refinement == Spec => ImplementsContextSwitch
  <1>1. Init => Abstract!Init
    BY StartAssumption DEF Init, Abstract!Init, Shown
  <1>2. ASSUME IInv, [Next]_vars
        PROVE  [Abstract!Next]_(Abstract!vars)
    <2>1. CASE UNCHANGED vars
      BY <2>1 DEF vars, hist, Abstract!vars, Shown
    <2>2. CASE \E n \in CodeSizes : prepare_execute(n)
      <3>1. Abstract!Prepare
        BY <2>2 DEF prepare_execute, hist, Abstract!Prepare, Shown
      <3>. QED
        BY <3>1 DEF Abstract!Next
    <2>6. CASE \E s \in Settings : set_common_registers(s)
      <3>1. PICK s \in Settings : set_common_registers(s)
        BY <2>6
      <3>2. s[1] \in EnvReg /\ s[2] \in Int /\ env \in [EnvReg -> Int]
        BY <1>2, StartAssumption DEF IInv, TypeOK
      <3>3. Abstract!SetRegister
        BY <3>1, <3>2
        DEF set_common_registers, hist, Abstract!SetRegister, Shown
      <3>. QED
        BY <3>3 DEF Abstract!Next
    <2>3. CASE start_operation
      BY <2>3 DEF start_operation, Goto, Abstract!vars, Shown
    <2>4. CASE finish_operation
      <3>1. /\ pc = "executed" /\ pc' = "host"
            /\ UNCHANGED <<cpu, offset, host, given>>
        BY <2>4 DEF finish_operation, Goto, hist
      <3>2. \A i \in CpuReg \ {rax, rbx} : cpu[i] = host[i]
        BY <1>2, <3>1 DEF IInv, AtExecuted
      <3>3. offset # 0
        BY <1>2, <3>1 DEF IInv, History, HasLeft
      <3>4. Abstract!Execute
        BY <1>2, <2>4, <3>1, <3>2, <3>3, Finished, ReportedExactly,
           UnchangedWithoutCode
        DEF Abstract!Execute, Abstract!Runs, Abstract!Resumes, Abstract!Reports,
            Shown
      <3>. QED
        BY <3>4 DEF Abstract!Next
    <2>5. CASE start_execute \/ User \/ exit_instructions
                 \/ (Leave /\ ~finish_operation)
      <3>1. /\ pc # "host" /\ pc' # "host"
            /\ UNCHANGED <<offset, changed, host, given>>
        BY <2>5
        DEF start_execute, User, UserWrite, UserMoveStack, UserStore,
            InUserCode, exit_instructions, Leave, Goto, hist,
            operation_end_handler, first_save_loop, SaveRegister, skip_rsp,
            second_save_loop, to_env_stack, third_save_loop, save_rsp,
            after_execution
      <3>. QED
        BY <3>1 DEF Abstract!vars, Shown
    <2>. QED
      BY <1>2, <2>1, <2>2, <2>3, <2>4, <2>5, <2>6 DEF Next, Enter
  <1>. QED
    BY <1>1, <1>2, Inductive, PTL
    DEF Spec, ImplementsContextSwitch, Abstract!Spec

=============================================================================
