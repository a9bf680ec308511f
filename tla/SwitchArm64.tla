---------------------------- MODULE SwitchArm64 ----------------------------
(***************************************************************************)
(* The AArch64 context switch of ARM64_Executor: start_operation with its  *)
(* inline assembly, the routines execute_asm and restore_execution, the    *)
(* instructions that prepare_execute puts around the user's code, and the  *)
(* comparison that yields the mask.                                        *)
(*                                                                         *)
(* A stretch of code without a branch is one action.  Addresses count      *)
(* 8-byte words, except those of code, which count bytes; an address whose *)
(* value does not matter is a negative number.                             *)
(*                                                                         *)
(* Two things the source leaves open are choices here.  The compiler may   *)
(* put the operands of the inline assembly into any three registers, since *)
(* it is told of no register that the assembly writes.  And the processor  *)
(* may fetch an instruction from its instruction cache although the code   *)
(* block has been written since, because nothing invalidates the cache.    *)
(*                                                                         *)
(* The code switches X0 to X30, SP and the flags.  V0 to V31, FPCR and     *)
(* FPSR, which it leaves alone, are not modelled.                          *)
(***************************************************************************)
EXTENDS Integers, Sequences

CONSTANTS
  Word,      \* values the user's instructions write into registers and memory
  Settings,  \* registers and values that a client passes to set_common_registers
  HostMem,   \* word addresses of the host stack
  EnvMem,    \* word addresses the environment's code may use as a stack
  StackLow,  \* m_environment_stack.array
  StackTop,  \* one past its last word, the initial SP
  HostSP,    \* SP of start_operation before its inline assembly
  CodeBase,  \* m_environment_code.array
  CodeSize,  \* m_environment_code.size, in bytes
  Program,   \* what the user may enter
  SizeOf,    \* the size of each program, in bytes
  NoProgram, \* nothing prepared, or nothing in the cache
  Operands,  \* registers the compiler may choose for the three operands
  HostStart, \* the processor's registers in start_operation
  EnvStart,  \* m_environment_registers after init
  MemStart,  \* what the two stacks hold then
  MaxWrites  \* bound: effects of user instructions in one behaviour

(* Indices of common_registers_t: X0 to X30, then these.                   *)
flags == 31
SP == 32
PC == 33
CpuReg == 0 .. SP
EnvReg == 0 .. PC

(* Opaque addresses that appear as data.                                   *)
StructPtr == -1     \* &m_environment_registers
ResumeAddress == -2 \* &restore_execution
AfterCall == -3     \* the instruction after "BL execute_asm"
SlotPtr == -4       \* where the exit instructions keep the host's SP

PreExecuteSize == 4       \* __environment_pre_execute_instructions_size
ExitSize == 44            \* __environment_exit_instructions_size
RemoveFromPC == 8         \* __environment_remove_from_pc
COMMON_REGISTERS_LENGTH == 34

Address == HostMem \cup EnvMem

ASSUME MemAssumption ==
  /\ HostMem \subseteq Int /\ EnvMem \subseteq Int
  /\ HostMem \cap EnvMem = {}
  /\ HostSP \in Int /\ StackLow \in Int /\ StackTop \in Int
  /\ (HostSP - 34) .. (HostSP - 1) \subseteq HostMem
  /\ StackLow <= StackTop
ASSUME CodeAssumption ==
  /\ CodeBase \in Nat /\ CodeSize \in Nat /\ MaxWrites \in Nat
  /\ NoProgram \notin Program
  /\ SizeOf \in [Program -> Nat \ {0}]
  /\ \A p \in Program : PreExecuteSize + SizeOf[p] + ExitSize <= CodeSize
ASSUME StartAssumption ==
  /\ Word \subseteq Int /\ Settings \subseteq EnvReg \X Int
  /\ Operands \subseteq [regs : 0 .. 30, code : 0 .. 30, slot : 0 .. 30]
  /\ \A o \in Operands :
       o.regs # o.code /\ o.regs # o.slot /\ o.code # o.slot
  /\ HostStart \in [CpuReg -> Int] /\ HostStart[SP] = HostSP
  /\ EnvStart \in [EnvReg -> Int]
  /\ EnvStart[PC] = CodeBase /\ EnvStart[SP] = StackTop
  /\ MemStart \in [Address -> Int]

VARIABLES
  pc,      \* the label the processor is at
  cpu,     \* the processor's registers
  mem,     \* the two stacks
  env,     \* m_environment_registers
  shadow,  \* m_environment_registers_shadow_copy
  stub,    \* the two addresses patched into the exit instructions
  program, \* the program in m_environment_code
  cached,  \* the program in the processor's instruction cache
  changed, \* m_changed_registers, handed out as modified_registers
  writes,  \* effects used up (bound)
  host,    \* history: cpu when the inline assembly starts
  given,   \* history: env at that time
  left     \* history: the registers the user's code leaves, PC included

hist == <<host, given, left>>
code == <<stub, program, cached>>
vars == <<pc, cpu, mem, env, shadow, code, changed, writes, hist>>

-----------------------------------------------------------------------------
(* m after "STP a, b, [sp, #-16]!" for each pair <<a, b>> of s, in order:  *)
(* a goes to the lower address.                                            *)
Stored(m, sp, s) ==
  [a \in DOMAIN m |->
     IF sp - 2 * Len(s) <= a /\ a < sp
     THEN s[(sp - a + 1) \div 2][1 + ((sp - a) % 2)]
     ELSE m[a]]

(* The value that "LDP a, b, [sp], #16" for each pair of registers of s,   *)
(* in order, gives register i, which occurs in one pair.                   *)
Loaded(m, sp, s, i) ==
  LET at == CHOOSE p \in (1 .. Len(s)) \X {1, 2} : s[p[1]][p[2]] = i
  IN m[sp + 2 * at[1] + at[2] - 3]
Occurs(s, i) == \E k \in 1 .. Len(s) : i \in {s[k][1], s[k][2]}

(* memcpy of a number of bytes between two arrays of words: a word the     *)
(* copy ends in takes over its lower bytes.                                *)
Copied(from, to, bytes) ==
  [i \in DOMAIN to |->
     IF 8 * (i + 1) <= bytes THEN from[i]
     ELSE IF bytes <= 8 * i THEN to[i]
     ELSE LET low == 2 ^ (8 * (bytes - 8 * i))
          IN (to[i] - (to[i] % low)) + (from[i] % low)]

Goto(from, to) == pc = from /\ pc' = to

(* The room that the inserted instructions and restore_execution need      *)
(* below an aligned stack pointer.                                         *)
Usable(sp) == sp % 2 = 0 /\ (sp - 6) .. (sp - 1) \subseteq EnvMem

Init ==
  /\ pc = "host"
  /\ cpu = HostStart /\ mem = MemStart /\ env = EnvStart
  /\ shadow = [i \in EnvReg |-> 0]
  /\ stub = [stack |-> 0, resume |-> 0]
  /\ program = NoProgram /\ cached = NoProgram
  /\ changed = {} /\ writes = 0
  /\ host = HostStart /\ given = EnvStart /\ left = EnvStart

-----------------------------------------------------------------------------
(* prepare_execute with a program that fits: the instruction in front of   *)
(* it, the program, a fresh copy of the exit instructions; PC at the start *)
(* of the block.                                                           *)
prepare_execute(p) ==
  /\ pc = "host"
  /\ program' = p
  /\ stub' = [stack |-> 0, resume |-> 0]
  /\ env' = [env EXCEPT ![PC] = CodeBase]
  /\ UNCHANGED <<pc, cpu, mem, shadow, cached, changed, writes, hist>>

(* set_common_registers with one register in the mask.  The bound it       *)
(* compares the mask with is an int 1 shifted by 35 (RegisterFile!Limit):  *)
(* a processor shifts by the remainder; a compiler may make it 0, and then *)
(* the call refuses every mask and does nothing.                           *)
set_common_registers(s) ==
  /\ pc = "host" /\ writes < MaxWrites
  /\ s[1] < (COMMON_REGISTERS_LENGTH + 1) % 32
  /\ env' = [env EXCEPT ![s[1]] = s[2]]
  /\ writes' = writes + 1
  /\ UNCHANGED <<pc, cpu, mem, shadow, code, changed, hist>>

(* Mutant: the moves in the opposite order.                                *)
Moved_Reversed(r, o) ==
  LET r2 == [r EXCEPT ![2] = r[o.slot]]
      r1 == [r2 EXCEPT ![1] = r2[o.code]]
  IN [r1 EXCEPT ![0] = r1[o.regs]]

(* The instructions in front of BL: they move the operands into X0, X1 and *)
(* X2, one after the other.                                                *)
Moved(r, o) ==
  LET r0 == [r EXCEPT ![0] = r[o.regs]]
      r1 == [r0 EXCEPT ![1] = r0[o.code]]
  IN [r1 EXCEPT ![2] = r1[o.slot]]

(* Mutant: no shadow copy is taken.                                        *)
ShadowCopy_None == shadow
ShadowCopy == Copied(env, shadow, COMMON_REGISTERS_LENGTH)

(* execute's two range checks, then start_operation up to the call: the    *)
(* resume address, the shadow copy, the operands in the registers the      *)
(* compiler chose, the two pushes and the moves.                           *)
start_operation(o) ==
  LET r == [cpu EXCEPT ![o.regs] = StructPtr, ![o.code] = CodeBase,
                       ![o.slot] = SlotPtr]
  IN /\ Goto("host", "execute_asm")
     /\ program # NoProgram
     /\ CodeBase <= env[PC] /\ env[PC] < CodeBase + CodeSize
     /\ StackLow <= env[SP] /\ env[SP] <= StackTop
     /\ stub' = [stub EXCEPT !.resume = ResumeAddress]
     /\ shadow' = ShadowCopy
     /\ mem' = Stored(mem, cpu[SP], <<<<r[0], r[1]>>, <<r[2], r[30]>>>>)
     /\ cpu' = [Moved(r, o) EXCEPT ![30] = AfterCall, ![SP] = @ - 4]
     /\ host' = r /\ given' = env
     /\ UNCHANGED <<env, program, cached, changed, writes, left>>

OperandsThere == cpu[0] = StructPtr /\ cpu[1] = CodeBase /\ cpu[2] = SlotPtr

(* Where the process would not come back: registers are loaded from, or    *)
(* the code is entered at, an address that is none, or the stack pointer   *)
(* is unaligned or points to memory that is not mapped.                    *)
goes_astray ==
  /\ pc = "execute_asm" /\ ~(OperandsThere /\ Usable(env[SP]))
  /\ pc' = "lost"
  /\ UNCHANGED <<cpu, mem, env, shadow, code, changed, writes, hist>>

(* The registers that execute_asm stores on the host's stack, by pairs.    *)
HostPairs ==
  [k \in 1 .. 13 |-> <<2 * k + 2, 2 * k + 3>>] \o <<<<30, flags>>, <<0, 3>>>>
HostFrame == [k \in 1 .. 15 |-> <<cpu[HostPairs[k][1]], cpu[HostPairs[k][2]]>>]

(* Mutant: stores without moving the stack pointer down.                   *)
EntryTop_NoDecrement == env[SP] + 2

(* Where execute_asm puts what it passes on.                               *)
EntryTop == env[SP]

(* Mutant: the environment's X29 and X30 are not passed on.                *)
EntryFrame_Host == <<<<cpu[29], cpu[30]>>>>

(* What it passes to the instruction in front of the user's code.          *)
EntryFrame == <<<<env[29], env[30]>>>>

(* execute_asm: stores the host's frame, loads every register from the     *)
(* struct, stores SP in the exit instructions and enters the code block at *)
(* the address in X1, whatever PC says.                                    *)
execute_asm ==
  /\ Goto("execute_asm", "pre_execute")
  /\ OperandsThere /\ Usable(env[SP])
  /\ mem' = Stored(Stored(mem, cpu[SP], HostFrame), EntryTop, EntryFrame)
  /\ stub' = [stub EXCEPT !.stack = cpu[SP] - 30]
  /\ cpu' = [i \in CpuReg |->
               CASE i = 29 -> env[flags] [] i = 30 -> cpu[1]
                 [] i = SP -> EntryTop - 2 [] OTHER -> env[i]]
  /\ UNCHANGED <<env, shadow, program, cached, changed, writes, hist>>

(* The instruction in front of the user's code, "LDP X29, X30, [SP], #16", *)
(* and the fetch of what follows: from memory or from the cache.           *)
pre_execute ==
  /\ Goto("pre_execute", "user")
  /\ cpu[30] = CodeBase
  /\ cpu' = [cpu EXCEPT ![29] = mem[cpu[SP]], ![30] = mem[cpu[SP] + 1],
                        ![SP] = @ + 2]
  /\ cached' \in {program, cached} \ {NoProgram}
  /\ UNCHANGED <<mem, env, shadow, stub, program, changed, writes, hist>>

-----------------------------------------------------------------------------
InUserCode == pc = "user" /\ writes < MaxWrites /\ writes' = writes + 1

UserWrite(i, v) ==
  /\ InUserCode /\ i # SP
  /\ cpu' = [cpu EXCEPT ![i] = v]
  /\ UNCHANGED <<pc, mem, env, shadow, code, changed, hist>>

UserMoveStack(sp) ==
  /\ InUserCode /\ Usable(sp)
  /\ cpu' = [cpu EXCEPT ![SP] = sp]
  /\ UNCHANGED <<pc, mem, env, shadow, code, changed, hist>>

UserStore(a, v) ==
  /\ InUserCode
  /\ mem' = [mem EXCEPT ![a] = v]
  /\ UNCHANGED <<pc, cpu, env, shadow, code, changed, hist>>

(* Mutant: the instruction in front of the program is not counted.         *)
ADR_NoPre == CodeBase + SizeOf[cached] + 4

(* What ADR, the second of the exit instructions, takes for PC.            *)
ADR == CodeBase + PreExecuteSize + SizeOf[cached] + 4

(* What the exit instructions push.                                        *)
ExitFrame == <<<<cpu[0], cpu[1]>>, <<ADR, cpu[flags]>>>>

(* The exit instructions behind the program that was fetched: they load    *)
(* the two patched addresses, which are where start_operation wrote them   *)
(* only if that program has the size of the prepared one.                  *)
exit_instructions ==
  /\ Goto("user", "restore_execution")
  /\ SizeOf[cached] = SizeOf[program]
  /\ stub.resume = ResumeAddress
  /\ mem' = Stored(mem, cpu[SP], ExitFrame)
  /\ cpu' = [cpu EXCEPT ![0] = stub.stack, ![1] = stub.resume, ![SP] = @ - 4]
  /\ left' = [i \in EnvReg |-> IF i = PC THEN ADR ELSE cpu[i]]
  /\ UNCHANGED <<env, shadow, code, changed, writes, host, given>>

(* They branch to whatever the words found elsewhere hold.                 *)
exit_astray ==
  /\ Goto("user", "lost")
  /\ SizeOf[cached] # SizeOf[program]
  /\ UNCHANGED <<cpu, mem, env, shadow, code, changed, writes, hist>>

-----------------------------------------------------------------------------
(* The registers of the environment that restore_execution finds on its    *)
(* stack, in the order in which it loads them, after it has pushed X2 and  *)
(* X3 itself.                                                              *)
EnvPairs_Swapped == <<<<2, 3>>, <<PC, flags>>, <<1, 0>>>>
EnvPairs == <<<<2, 3>>, <<PC, flags>>, <<0, 1>>>>

(* restore_execution up to the switch of stacks: everything goes into the  *)
(* struct, whose address and the host's X3 come from the host's stack.     *)
restore_execution ==
  LET m == Stored(mem, cpu[SP], <<<<cpu[2], cpu[3]>>>>)
      low == cpu[SP] - 2
  IN /\ Goto("restore_execution", "switch_stacks")
     /\ mem[cpu[0]] = StructPtr
     /\ mem' = m
     /\ env' = [i \in EnvReg |->
                  IF Occurs(EnvPairs, i) THEN Loaded(m, low, EnvPairs, i)
                  ELSE IF i = SP THEN low + 2 * Len(EnvPairs)
                  ELSE cpu[i]]
     /\ cpu' = [cpu EXCEPT ![0] = @ + 2, ![3] = mem[cpu[0] + 1],
                           ![SP] = low + 2 * Len(EnvPairs)]
     /\ UNCHANGED <<shadow, code, changed, writes, hist>>

(* The order in which the registers of the host are loaded again.          *)
LoadPairs_Swapped ==
  <<<<30, flags>>>> \o [k \in 1 .. 13 |-> <<31 - 2 * k, 30 - 2 * k>>]
LoadPairs_NoLR ==
  <<<<flags, 30>>>> \o [k \in 1 .. 13 |-> <<30 - 2 * k, 31 - 2 * k>>]
LoadPairs ==
  <<<<30, flags>>>> \o [k \in 1 .. 13 |-> <<30 - 2 * k, 31 - 2 * k>>]

(* The rest of restore_execution, on the host's stack.                     *)
switch_stacks ==
  /\ Goto("switch_stacks", "after_call")
  /\ Loaded(mem, cpu[0], LoadPairs, 30) = AfterCall
  /\ cpu' = [i \in CpuReg |->
               IF Occurs(LoadPairs, i) THEN Loaded(mem, cpu[0], LoadPairs, i)
               ELSE IF i = SP THEN cpu[0] + 2 * Len(LoadPairs)
               ELSE cpu[i]]
  /\ UNCHANGED <<mem, env, shadow, code, changed, writes, hist>>

(* The two loads behind BL.                                                *)
CallPairs == <<<<2, 30>>, <<0, 1>>>>
after_call ==
  /\ Goto("after_call", "executed")
  /\ cpu' = [i \in CpuReg |->
               IF Occurs(CallPairs, i) THEN Loaded(mem, cpu[SP], CallPairs, i)
               ELSE IF i = SP THEN cpu[SP] + 2 * Len(CallPairs)
               ELSE cpu[i]]
  /\ UNCHANGED <<mem, env, shadow, code, changed, writes, hist>>

(* Mutant: every bit one position too high.                                *)
calculate_modified_registers_Shifted(now) ==
  {i \in 1 .. COMMON_REGISTERS_LENGTH : now[i - 1] # shadow[i - 1]}

calculate_modified_registers(now) ==
  {i \in 0 .. (COMMON_REGISTERS_LENGTH - 1) : now[i] # shadow[i]}

(* The end of start_operation and of execute: PC goes back to the end of   *)
(* the user's code, counted without the instruction in front of it.        *)
finish_operation ==
  /\ Goto("executed", "host")
  /\ env' = [env EXCEPT ![PC] = @ - RemoveFromPC]
  /\ changed' = calculate_modified_registers(env')
  /\ UNCHANGED <<cpu, mem, shadow, code, writes, hist>>

-----------------------------------------------------------------------------
User ==
  \/ \E i \in CpuReg, v \in Word : UserWrite(i, v)
  \/ \E sp \in EnvMem : UserMoveStack(sp)
  \/ \E a \in EnvMem, v \in Word : UserStore(a, v)

Enter == execute_asm \/ goes_astray \/ pre_execute
Leave == restore_execution \/ switch_stacks \/ after_call \/ finish_operation

Next ==
  \/ \E p \in Program : prepare_execute(p)
  \/ \E s \in Settings : set_common_registers(s)
  \/ \E o \in Operands : start_operation(o)
  \/ Enter \/ User \/ exit_instructions \/ exit_astray \/ Leave

Spec == Init /\ [][Next]_vars

(* The processor does not stop inside the switch.  Nothing obliges the     *)
(* user's code to reach its end, or a client to execute again.             *)
FairSpec == Spec /\ WF_vars(Enter) /\ WF_vars(Leave)

-----------------------------------------------------------------------------
Labels == {"host", "execute_asm", "pre_execute", "user", "restore_execution",
           "switch_stacks", "after_call", "executed", "lost"}

(* Every variable has its type; what is stored stays inside the stacks.    *)
TypeOK ==
  /\ pc \in Labels
  /\ cpu \in [CpuReg -> Int] /\ host \in [CpuReg -> Int]
  /\ mem \in [Address -> Int]
  /\ env \in [EnvReg -> Int] /\ shadow \in [EnvReg -> Int]
  /\ given \in [EnvReg -> Int] /\ left \in [EnvReg -> Int]
  /\ stub \in [stack : Int, resume : Int]
  /\ program \in Program \cup {NoProgram} /\ cached \in Program \cup {NoProgram}
  /\ changed \subseteq EnvReg
  /\ writes \in Nat

(* After the inline assembly every register from X0 to X30, SP and the     *)
(* flags have the values they had before, as the compiler, which is told   *)
(* of no clobbered register, relies on.                                    *)
HostRestored == pc = "executed" => cpu = host

(* By then the struct holds exactly the registers the user's code left,    *)
(* although some of them travelled over its stack.                         *)
EnvironmentSaved ==
  pc \in {"switch_stacks", "after_call", "executed"} => env = left

(* The user's code starts with the registers of the struct, although X29   *)
(* and X30 are used to carry the flags and the entry address.              *)
EnvironmentLoaded ==
  [][pc = "pre_execute" => \A i \in CpuReg : cpu'[i] = given[i]]_vars

(* X0 to X3, whose shadow copies are whole, are reported exactly.          *)
LowReportExact ==
  [][pc = "executed" => \A i \in 0 .. 3 :
                          i \in changed' <=> env'[i] # given[i]]_vars

(* The word above which each side's stack holds its live frames.           *)
EnvStackPointer ==
  IF pc \in {"host", "execute_asm", "pre_execute", "lost"} THEN env[SP]
  ELSE IF pc = "user" THEN cpu[SP] ELSE left[SP]

(* The switch never writes a live word of either stack: not one of the     *)
(* host's callers, not one the environment's code has pushed.  Steps of    *)
(* the user's code itself are exempt.                                      *)
FramesKept ==
  [][writes' = writes =>
       \A a \in DOMAIN mem :
         \/ a \in HostMem /\ a >= HostSP
         \/ a \in EnvMem /\ a >= EnvStackPointer
         => mem'[a] = mem[a]]_vars

(* A switch that was entered, or left by the exit instructions, completes  *)
(* or is lost: because the moves destroyed an operand, because a program   *)
(* of another size came from the instruction cache, or because the         *)
(* environment's SP could not be used.                                     *)
Outside == pc \in {"host", "user", "lost"}
SwitchCompletes == ~Outside ~> Outside

(* The operands reach X0, X1 and X2, as execute_asm requires, exactly if   *)
(* the compiler kept neither of the later two in a register that an        *)
(* earlier move overwrites.                                                *)
OperandsArrive ==
  [][\A o \in Operands :
       start_operation(o) =>
         (OperandsThere' <=> o.code # 0 /\ o.slot \notin {0, 1})]_vars

(* The promise of execute: it reports exactly the registers whose value    *)
(* differs from the one before the run.                                    *)
ReportExact ==
  [][pc = "executed" => changed' = {i \in EnvReg : env'[i] # given[i]}]_vars

-----------------------------------------------------------------------------
(* Seen at its calls and returns, the switch is an atomic execution, but   *)
(* one that resumes nowhere and whose mask is not exact.  The compiler     *)
(* overwrites the registers it chooses for the operands by itself.         *)
Shown(now, before) == IF pc = "host" THEN now ELSE before
OperandRegs == UNION {{o.regs, o.code, o.slot} : o \in Operands}

Abstract == INSTANCE ContextSwitch WITH
  Reg <- EnvReg, IP <- PC, Entry <- CodeBase,
  Sizes <- {SizeOf[p] : p \in Program},
  env <- Shown(env, given),
  size <- IF program = NoProgram THEN 0 ELSE SizeOf[program],
  changed <- changed,
  host <- [i \in CpuReg \ OperandRegs |-> Shown(cpu[i], host[i])]

ImplementsRuns == Abstract!RunsSpec

=============================================================================
