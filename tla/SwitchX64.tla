----------------------------- MODULE SwitchX64 -----------------------------
(***************************************************************************)
(* The x86_64 context switch of X86_64_Executor: start_operation, the      *)
(* assembly routines start_execute and operation_end_handler, and the exit *)
(* instructions that prepare_execute appends to the user's code.           *)
(*                                                                         *)
(* The routines run on the only thread of the process, so a stretch of     *)
(* code without a branch is one action.  The three save loops take one     *)
(* step per iteration.  An address counts 8-byte words, except the         *)
(* instruction pointer, which counts bytes.  The change mask that          *)
(* operation_end_handler builds in rax is kept as the set of its one bits, *)
(* in a variable of its own.  The x87, xmm and MXCSR registers, which the  *)
(* code does not switch, are not modelled.                                 *)
(***************************************************************************)
EXTENDS Integers, Sequences

CONSTANTS
  Word,       \* values the user's instructions write into registers and memory
  Settings,   \* registers and values a client passes to set_common_registers
  HostMem,    \* word addresses of the host stack
  EnvMem,     \* word addresses the environment's code may use as a stack
  StackLow,   \* first word of m_environment_stack
  StackTop,   \* one past its last word, the initial rsp
  HostSP,     \* rsp of start_operation before its call instruction
  CodeBase,   \* m_environment_code.array
  CodeSize,   \* m_environment_code.size, in bytes
  CodeSizes,  \* sizes of the user's code, in bytes
  HostStart,  \* the processor's registers in start_operation
  EnvStart,   \* m_environment_registers after init
  MemStart,   \* what the two stacks hold then
  MaxWrites   \* bound: user instructions with an effect in one behaviour

(* Indices of common_registers_t.  rflags and rip follow r15.              *)
rax == 0
rbx == 1
rcx == 2
rdx == 3
rsi == 4
rdi == 5
rbp == 6
rsp == 7
r8 == 8
r15 == 15
rflags == 16
rip == 17
CpuReg == rax .. rflags
EnvReg == rax .. rip

(* Opaque addresses that appear as data, and the value standing for the    *)
(* leftovers of scratch computations.                                      *)
StructPtr == -1      \* &m_environment_registers
ResumeAddress == -2  \* &operation_end_handler
AfterCall == -3      \* the instruction after "call start_execute"
AfterExecution == -4 \* the popfq after "call rdx"
SlotPtr == -5        \* where the exit instructions keep the host's rsp
Scratch == -6

ExitSize == 26       \* __environment_exit_instructions_size
RemoveFromRip == 26  \* __environment_remove_from_rip

Address == HostMem \cup EnvMem

ASSUME MemAssumption ==
  /\ HostMem \subseteq Int /\ EnvMem \subseteq Int
  /\ HostMem \cap EnvMem = {}
  /\ HostSP \in Int /\ StackLow \in Int /\ StackTop \in Int
  /\ (HostSP - 30) .. (HostSP - 1) \subseteq HostMem
  /\ (StackTop - 5) .. (StackTop - 1) \subseteq EnvMem
  /\ StackLow <= StackTop
ASSUME CodeAssumption ==
  /\ CodeBase \in Nat /\ CodeSize \in Nat /\ MaxWrites \in Nat
  /\ CodeSizes \subseteq Nat \ {0}
  /\ \A n \in CodeSizes : n + ExitSize <= CodeSize
ASSUME StartAssumption ==
  /\ Word \subseteq Int /\ Settings \subseteq EnvReg \X Int
  /\ HostStart \in [CpuReg -> Int] /\ HostStart[rsp] = HostSP
  /\ EnvStart \in [EnvReg -> Int]
  /\ EnvStart[rip] = CodeBase /\ EnvStart[rsp] = StackTop
  /\ MemStart \in [Address -> Int]

VARIABLES
  pc,      \* the label the processor is at
  cpu,     \* the processor's registers
  mem,     \* the two stacks
  env,     \* m_environment_registers
  stub,    \* the two addresses patched into the inserted exit instructions
  offset,  \* m_inserted_code_offset
  mask,    \* one bits of rax while operation_end_handler builds the mask
  changed, \* m_changed_registers, handed out as modified_registers
  writes,  \* user instructions used up (bound)
  host,    \* history: cpu when start_operation calls start_execute
  given,   \* history: env at that time
  left     \* history: the registers the user's code leaves, rip included

hist == <<host, given, left>>
vars == <<pc, cpu, mem, env, stub, offset, mask, changed, writes, hist>>

-----------------------------------------------------------------------------
(* Stack and bit-mask instructions.                                        *)

(* m after pushing the values of s, in order, from stack pointer sp.       *)
PushAll(m, sp, s) ==
  [a \in DOMAIN m |-> IF sp - Len(s) <= a /\ a < sp THEN s[sp - a] ELSE m[a]]

rol(bits) == {(b + 1) % 64 : b \in bits}
ror(bits) == {(b + 63) % 64 : b \in bits}

Goto(from, to) == pc = from /\ pc' = to

(* The room the exit instructions need below the stack pointer.            *)
HasRoom(sp) == (sp - 5) .. (sp - 1) \subseteq EnvMem

Init ==
  /\ pc = "host"
  /\ cpu = HostStart /\ mem = MemStart /\ env = EnvStart
  /\ stub = [stack |-> 0, resume |-> 0]
  /\ offset = 0
  /\ mask = {} /\ changed = {} /\ writes = 0
  /\ host = HostStart /\ given = EnvStart /\ left = EnvStart

-----------------------------------------------------------------------------
(* Mutant: the exit instructions counted as the user's.                    *)
prepare_execute_CountsExit(n) ==
  /\ pc = "host"
  /\ offset' = n + ExitSize
  /\ stub' = [stack |-> 0, resume |-> 0]
  /\ env' = [env EXCEPT ![rip] = CodeBase]
  /\ UNCHANGED <<pc, cpu, mem, mask, changed, writes, hist>>

(* prepare_execute with n bytes of user code that fit: copies the code and *)
(* a fresh copy of the exit instructions, and points rip at the start.     *)
prepare_execute(n) ==
  /\ pc = "host"
  /\ offset' = n
  /\ stub' = [stack |-> 0, resume |-> 0]
  /\ env' = [env EXCEPT ![rip] = CodeBase]
  /\ UNCHANGED <<pc, cpu, mem, mask, changed, writes, hist>>

(* set_common_registers with one register in the mask, by a client that    *)
(* keeps rip in the prepared code and leaves the switch room below rsp.    *)
set_common_registers(s) ==
  /\ pc = "host" /\ writes < MaxWrites
  /\ s[1] = rip => s[2] \in CodeBase .. (CodeBase + offset)
  /\ s[1] = rsp => HasRoom(s[2])
  /\ env' = [env EXCEPT ![s[1]] = s[2]]
  /\ writes' = writes + 1
  /\ UNCHANGED <<pc, cpu, mem, stub, offset, mask, changed, hist>>

(* execute's two range checks, then start_operation up to the call.  The   *)
(* shell executes only after a successful prepare_execute (offset # 0).    *)
start_operation ==
  /\ Goto("host", "start_execute")
  /\ offset # 0
  /\ CodeBase <= env[rip] /\ env[rip] < CodeBase + CodeSize
  /\ StackLow <= env[rsp] /\ env[rsp] <= StackTop
  /\ stub' = [stub EXCEPT !.resume = ResumeAddress]
  /\ cpu' = [cpu EXCEPT ![rax] = StructPtr, ![rbx] = SlotPtr,
                        ![rsp] = @ - 1]
  /\ mem' = PushAll(mem, cpu[rsp], <<AfterCall>>)
  /\ host' = cpu /\ given' = env
  /\ UNCHANGED <<env, offset, mask, changed, writes, left>>

(* What start_execute pushes on the host's stack: the registers that       *)
(* start_operation still needs, a return address obtained by a             *)
(* call/pop/call detour and the struct pointer.                            *)
HostFrame ==
  <<cpu[rcx], cpu[rdx], cpu[rsi], cpu[rdi], cpu[rbp], cpu[r8], cpu[9],
    cpu[10], cpu[11], cpu[12], cpu[13], cpu[14], cpu[r15], cpu[rflags],
    AfterExecution, cpu[rax]>>

(* Mutant: rip passed in the word at the stack pointer, not below it.      *)
RipSlot_AtTop == env[rsp] + 1

(* rip and rflags are passed through the word below the environment's      *)
(* stack pointer.                                                          *)
RipSlot == env[rsp]

(* start_execute: saves the host's frame, stores rsp in the exit           *)
(* instructions, loads every register from the struct and returns into the *)
(* address in its rip.                                                     *)
start_execute ==
  /\ Goto("start_execute", "user")
  /\ cpu[rax] = StructPtr /\ cpu[rbx] = SlotPtr
  /\ stub' = [stub EXCEPT !.stack = cpu[rsp] - 16]
  /\ mem' = PushAll(PushAll(mem, cpu[rsp], HostFrame), RipSlot, <<env[rip]>>)
  /\ cpu' = [i \in CpuReg |-> env[i]]
  /\ UNCHANGED <<env, offset, mask, changed, writes, hist>>

(* The user's own code, absent when rip already points behind it.          *)
InUserCode == pc = "user" /\ env[rip] < CodeBase + offset /\ writes < MaxWrites

UserWrite(i, v) ==
  /\ InUserCode /\ i # rsp
  /\ cpu' = [cpu EXCEPT ![i] = v]
  /\ writes' = writes + 1
  /\ UNCHANGED <<pc, mem, env, stub, offset, mask, changed, hist>>

UserMoveStack(sp) ==
  /\ InUserCode /\ HasRoom(sp)
  /\ cpu' = [cpu EXCEPT ![rsp] = sp]
  /\ writes' = writes + 1
  /\ UNCHANGED <<pc, mem, env, stub, offset, mask, changed, hist>>

UserStore(a, v) ==
  /\ InUserCode
  /\ mem' = [mem EXCEPT ![a] = v]
  /\ writes' = writes + 1
  /\ UNCHANGED <<pc, cpu, env, stub, offset, mask, changed, hist>>

(* What the exit instructions push; their call pushes the address behind   *)
(* them.                                                                   *)
ExitEnd == CodeBase + offset + ExitSize
ExitFrame_Swapped == <<cpu[rax], cpu[rbx], cpu[rdx], cpu[rcx], ExitEnd>>
ExitFrame == <<cpu[rax], cpu[rbx], cpu[rcx], cpu[rdx], ExitEnd>>

(* The inserted exit instructions: push the frame, load the two patched    *)
(* addresses and call through rbx.                                         *)
exit_instructions ==
  /\ Goto("user", "operation_end_handler")
  /\ stub.resume = ResumeAddress
  /\ mem' = PushAll(mem, cpu[rsp], ExitFrame)
  /\ cpu' = [cpu EXCEPT ![rax] = stub.stack, ![rbx] = stub.resume,
                        ![rsp] = @ - 5]
  /\ left' = [i \in EnvReg |-> IF i = rip THEN ExitEnd ELSE cpu[i]]
  /\ UNCHANGED <<env, stub, offset, mask, changed, writes, host, given>>

-----------------------------------------------------------------------------
(* What operation_end_handler pushes on the host's stack: the              *)
(* environment's stack pointer, the registers still in the processor, rip. *)
HandlerFrame_Swapped ==
  <<cpu[rsp] + 1, cpu[rdi], cpu[rsi], cpu[rbp], cpu[r8], cpu[9], cpu[10],
    cpu[11], cpu[12], cpu[13], cpu[14], cpu[r15], cpu[rflags], mem[cpu[rsp]]>>
HandlerFrame ==
  <<cpu[rsp] + 1, cpu[rsi], cpu[rdi], cpu[rbp], cpu[r8], cpu[9], cpu[10],
    cpu[11], cpu[12], cpu[13], cpu[14], cpu[r15], cpu[rflags], mem[cpu[rsp]]>>

(* operation_end_handler before its first loop: takes rip, switches to the *)
(* host's stack, takes the struct pointer and pushes its frame.            *)
operation_end_handler ==
  LET hostSP == cpu[rax] + 1
  IN /\ Goto("operation_end_handler", "first_save_loop")
     /\ mem' = PushAll(mem, hostSP, HandlerFrame)
     /\ cpu' = [cpu EXCEPT ![rbx] = mem[cpu[rax]], ![rdx] = mem[cpu[rsp]],
                           ![rcx] = 10, ![rax] = Scratch,
                           ![rflags] = Scratch, ![rsp] = hostSP - 14]
     /\ mask' = {}
     /\ UNCHANGED <<env, stub, offset, changed, writes, hist>>

(* One iteration of a save loop: pops the value of register i, stores it   *)
(* in the struct rbx points to, notes in bit 0 whether it differs from the *)
(* value stored before, and rotates.                                       *)
SaveRegister(i) ==
  LET value == mem[cpu[rsp]] IN
  /\ cpu[rbx] = StructPtr
  /\ env' = [env EXCEPT ![i] = value]
  /\ mask' = rol(mask \cup (IF value # env[i] THEN {0} ELSE {}))
  /\ cpu' = [cpu EXCEPT ![rsi] = value, ![rdx] = Scratch,
                        ![rsp] = @ + 1, ![rcx] = @ - 1]
  /\ UNCHANGED <<mem, stub, offset, changed, writes, hist>>

(* rip, rflags and r15 down to r8.                                         *)
first_save_loop ==
  /\ pc = "first_save_loop"
  /\ SaveRegister(cpu[rcx] + 7)
  /\ pc' = IF cpu[rcx] = 1 THEN "skip_rsp" ELSE pc

(* Mutant: no bit left for rsp.                                            *)
skip_rsp_NoRotation ==
  /\ Goto("skip_rsp", "second_save_loop")
  /\ cpu' = [cpu EXCEPT ![rcx] = 3]
  /\ UNCHANGED <<mem, env, stub, offset, mask, changed, writes, hist>>

skip_rsp ==
  /\ Goto("skip_rsp", "second_save_loop")
  /\ mask' = rol(mask)
  /\ cpu' = [cpu EXCEPT ![rcx] = 3]
  /\ UNCHANGED <<mem, env, stub, offset, changed, writes, hist>>

(* rbp, rdi, rsi.                                                          *)
second_save_loop ==
  /\ pc = "second_save_loop"
  /\ SaveRegister(cpu[rcx] + 3)
  /\ pc' = IF cpu[rcx] = 1 THEN "to_env_stack" ELSE pc

(* pop rbp; xchg rbp, rsp: back to the environment's stack, the host's     *)
(* stack pointer kept in rbp.                                              *)
to_env_stack ==
  /\ Goto("to_env_stack", "third_save_loop")
  /\ cpu' = [cpu EXCEPT ![rsp] = mem[cpu[rsp]], ![rbp] = cpu[rsp] + 1,
                        ![rcx] = 4]
  /\ UNCHANGED <<mem, env, stub, offset, mask, changed, writes, hist>>

(* rdx, rcx, rbx, rax.                                                     *)
third_save_loop ==
  /\ pc = "third_save_loop"
  /\ SaveRegister(cpu[rcx] - 1)
  /\ pc' = IF cpu[rcx] = 1 THEN "save_rsp" ELSE pc

RspBit_Forgotten == {}
RspBit == IF env[rsp] # cpu[rsp] THEN {rsp} ELSE {}

(* Undoes the last rotation, saves rsp and its bit, and returns on the     *)
(* host's stack.                                                           *)
save_rsp ==
  /\ Goto("save_rsp", "after_execution")
  /\ mem[cpu[rbp]] = AfterExecution
  /\ mask' = ror(mask) \cup RspBit
  /\ env' = [env EXCEPT ![rsp] = cpu[rsp]]
  /\ cpu' = [cpu EXCEPT ![rsp] = cpu[rbp] + 1, ![rdx] = Scratch]
  /\ UNCHANGED <<mem, stub, offset, changed, writes, hist>>

(* The order in which after_execution pops.                                *)
PopOrder_NoFlags == <<r15, 14, 13, 12, 11, 10, 9, r8, rbp, rdi, rsi, rdx, rcx>>
PopOrder_Swapped ==
  <<rflags, r15, 14, 13, 12, 11, 10, 9, r8, rbp, rsi, rdi, rdx, rcx>>
PopOrder ==
  <<rflags, r15, 14, 13, 12, 11, 10, 9, r8, rbp, rdi, rsi, rdx, rcx>>

(* after_execution from popfq on: pops the host's registers and returns    *)
(* into start_operation.                                                   *)
after_execution ==
  /\ Goto("after_execution", "executed")
  /\ mem[cpu[rsp] + Len(PopOrder)] = AfterCall
  /\ cpu' = [i \in CpuReg |->
       IF i = rsp THEN cpu[rsp] + Len(PopOrder) + 1
       ELSE IF \E k \in DOMAIN PopOrder : PopOrder[k] = i
       THEN mem[cpu[rsp] - 1 + CHOOSE k \in DOMAIN PopOrder : PopOrder[k] = i]
       ELSE cpu[i]]
  /\ UNCHANGED <<mem, env, stub, offset, mask, changed, writes, hist>>

(* start_operation after the call, and execute's result.                   *)
finish_operation ==
  /\ Goto("executed", "host")
  /\ changed' = mask
  /\ env' = [env EXCEPT ![rip] = @ - RemoveFromRip]
  /\ mask' = {}
  /\ UNCHANGED <<cpu, mem, stub, offset, writes, hist>>

-----------------------------------------------------------------------------
User ==
  \/ \E i \in CpuReg, v \in Word : UserWrite(i, v)
  \/ \E sp \in EnvMem : UserMoveStack(sp)
  \/ \E a \in EnvMem, v \in Word : UserStore(a, v)

Enter == start_operation \/ start_execute
Leave ==
  \/ operation_end_handler \/ first_save_loop \/ skip_rsp
  \/ second_save_loop \/ to_env_stack \/ third_save_loop
  \/ save_rsp \/ after_execution \/ finish_operation

Next ==
  \/ \E n \in CodeSizes : prepare_execute(n)
  \/ \E s \in Settings : set_common_registers(s)
  \/ Enter \/ User \/ exit_instructions \/ Leave

Spec == Init /\ [][Next]_vars

(* The processor does not stop inside the switch.  Nothing obliges the     *)
(* user's code to reach its end, or the shell to execute again.            *)
FairSpec == Spec /\ WF_vars(start_execute) /\ WF_vars(Leave)

-----------------------------------------------------------------------------
Labels == {"host", "start_execute", "user", "operation_end_handler",
           "first_save_loop", "skip_rsp", "second_save_loop", "to_env_stack",
           "third_save_loop", "save_rsp", "after_execution", "executed"}

(* Every variable has its type; the loops stay inside the register file    *)
(* and the stacks inside their memory.                                     *)
TypeOK ==
  /\ pc \in Labels
  /\ cpu \in [CpuReg -> Int] /\ host \in [CpuReg -> Int]
  /\ mem \in [Address -> Int]
  /\ env \in [EnvReg -> Int] /\ given \in [EnvReg -> Int]
  /\ left \in [EnvReg -> Int]
  /\ stub \in [stack : Int, resume : Int]
  /\ offset \in CodeSizes \cup {0}
  /\ mask \subseteq 0 .. 63 /\ changed \subseteq 0 .. 63
  /\ writes \in Nat

(* When start_execute returns, every register the inline assembly does not *)
(* declare as clobbered (it declares rax and rbx), rsp and rflags          *)
(* included, has the value it had at the call: start_operation goes on as  *)
(* if the user's code had never used the processor.                        *)
HostRestored ==
  pc = "executed" => \A i \in CpuReg \ {rax, rbx} : cpu[i] = host[i]

(* By then the register struct holds exactly the registers the user's code *)
(* left, although they travelled over two stacks and through three loops.  *)
EnvironmentSaved == pc \in {"after_execution", "executed"} => env = left

(* execute reports exactly the registers whose value differs from the one  *)
(* before the run (rip may be reported without having changed), and moves  *)
(* rip back from behind the inserted instructions to the end of the code.  *)
ReportExact ==
  [][pc = "executed" =>
       LET differs == {i \in EnvReg : env'[i] # given[i]}
       IN /\ env'[rip] = CodeBase + offset
          /\ differs \subseteq changed'
          /\ changed' \subseteq differs \cup {rip}]_vars

(* Executing again without a new prepare_execute runs the exit             *)
(* instructions alone and leaves every register as it was.                 *)
ReExecuteIsNoOp ==
  [][pc = "executed" /\ given[rip] = CodeBase + offset => env' = given]_vars

(* The word above which each side's stack holds its live frames.           *)
EnvStackPointer ==
  IF pc \in {"host", "start_execute"} THEN env[rsp]
  ELSE IF pc = "user" THEN cpu[rsp] ELSE left[rsp]

(* The switch uses both stacks as scratch space but never writes a live    *)
(* word: not one of start_operation's callers, not one the environment's   *)
(* code has pushed.  Steps of the user's code itself are exempt.           *)
FramesKept ==
  [][writes' = writes =>
       \A a \in DOMAIN mem :
         \/ a \in HostMem /\ a >= HostSP
         \/ a \in EnvMem /\ a >= EnvStackPointer
         => mem'[a] = mem[a]]_vars

(* A switch that was entered, or left by the exit instructions, completes: *)
(* every loop ends and every ret finds the address it is meant for.        *)
SwitchCompletes == pc \notin {"host", "user"} ~> pc \in {"host", "user"}

-----------------------------------------------------------------------------
(* The switch implements the one-step execution of ContextSwitch: until    *)
(* the routine has returned, the caller sees the registers of both sides   *)
(* as they were at the call.                                               *)
Shown(now, before) == IF pc = "host" THEN now ELSE before

Abstract == INSTANCE ContextSwitch WITH
  Reg <- EnvReg, IP <- rip, Entry <- CodeBase, Sizes <- CodeSizes,
  env <- Shown(env, given), size <- offset, changed <- changed,
  host <- [i \in CpuReg \ {rax, rbx} |-> Shown(cpu[i], host[i])]

(* Every behaviour of the switch, seen at its calls and returns, is one of *)
(* the atomic specification.                                               *)
ImplementsContextSwitch == Abstract!Spec

=============================================================================
