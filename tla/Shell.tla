------------------------------- MODULE Shell -------------------------------
(***************************************************************************)
(* The program: main reads a line, has a KeystoneAssembler assemble it,    *)
(* has the executor prepare and execute the opcodes and prints the         *)
(* registers that changed.  The assembler's state and operations are those *)
(* of KeystoneAssembler.  Of the executor, this module sees the registers, *)
(* the size of the prepared code and the mask; one execution is one step,  *)
(* which SwitchX64 and SwitchArm64 implement.                              *)
(***************************************************************************)
EXTENDS Integers

CONSTANTS
  Architecture, Supported, KsVersion, Engine, Buffer, OpcodeSizes, Null,
  Target,   \* architectures main can be compiled for
  Dialect,  \* the syntax it asks for in each build
  Reg,      \* indices of common_registers_t
  IP, SP,   \* the instruction and the stack pointer, two of them
  Watched,  \* registers whose value before a run the mask is computed from,
            \* in each build
  Value,    \* values the user's code may leave in a register
  OnStack,  \* values of SP that execute accepts
  CodeBase, \* m_environment_code.array
  EnvStart  \* m_environment_registers after init

VARIABLES
  engine, opened, syntax, live, opcodes, asked, result, \* the assembler's
  target,  \* the architecture main is compiled for
  pc,      \* where main is
  env,     \* m_environment_registers
  ended,   \* the last line was read and had no newline at its end
  size,    \* m_inserted_code_offset
  changed, \* m_changed_registers
  changed_registers, \* main's copy of the mask
  before,  \* history: env when the line was entered
  ran,     \* history: has the line been executed?
  kept     \* history: buffers of lines that could not be prepared

assembler == <<engine, opened, syntax, live, opcodes, asked, result>>
executor == <<env, size, changed>>
hist == <<before, ran, kept>>
vars == <<assembler, target, pc, ended, executor, changed_registers, hist>>

Assembler == INSTANCE KeystoneAssembler

ASSUME ShellAssumption ==
  /\ Target \subseteq Architecture /\ Supported \subseteq Architecture
  /\ Null \notin Engine \cup Buffer /\ OpcodeSizes \subseteq Nat
  /\ Dialect \in [Target -> Assembler!Syntax]
  /\ Watched \in [Target -> SUBSET Reg]
  /\ IP \in Reg /\ SP \in Reg /\ IP # SP
  /\ Value \subseteq Int /\ CodeBase \in Nat
  /\ EnvStart \in [Reg -> Int]
  /\ EnvStart[IP] = CodeBase /\ EnvStart[SP] \in OnStack

Goto(from, to) == pc = from /\ pc' = to

Init ==
  /\ Assembler!Init /\ target \in Target
  /\ pc = "init_assembler" /\ ended = FALSE
  /\ env = EnvStart /\ size = 0 /\ changed = {}
  /\ changed_registers = {}
  /\ before = EnvStart /\ ran = FALSE /\ kept = {}

-----------------------------------------------------------------------------
init_assembler ==
  /\ pc = "init_assembler"
  /\ Assembler!init(target, Dialect[target])
  /\ pc' = IF result' THEN "init_executor" ELSE "return"
  /\ UNCHANGED <<ended, executor, changed_registers, hist>>

(* executor.init() may throw.                                              *)
init_executor ==
  /\ pc = "init_executor" /\ pc' \in {"prompt", "return"}
  /\ UNCHANGED <<assembler, ended, executor, changed_registers, hist>>

(* A line that is not empty, with or without a newline at its end.         *)
read_line ==
  /\ Goto("prompt", "assemble")
  /\ ~ended /\ ended' \in BOOLEAN
  /\ before' = env /\ ran' = FALSE
  /\ UNCHANGED <<assembler, executor, changed_registers, kept>>

(* The input ended with a line that had no newline: getline fails before   *)
(* it erases its string, whose size is all that main looks at, so the same *)
(* line is taken again.                                                    *)
repeat_line ==
  /\ Goto("prompt", "assemble")
  /\ ended /\ UNCHANGED ended
  /\ before' = env /\ ran' = FALSE
  /\ UNCHANGED <<assembler, executor, changed_registers, kept>>

(* An empty line, or the end of the input behind a newline.                *)
empty_line ==
  /\ Goto("prompt", "return")
  /\ ~ended /\ UNCHANGED ended
  /\ UNCHANGED <<assembler, executor, changed_registers, hist>>

assemble_line ==
  /\ Goto("assemble", "prepare")
  /\ \E b \in Buffer, n \in OpcodeSizes : Assembler!assemble(b, n)
  /\ UNCHANGED <<ended, executor, changed_registers, hist>>

(* Mutant: goes on with the opcodes of an earlier line.                    *)
assemble_line_fails_Continues ==
  /\ Goto("assemble", "prepare")
  /\ Assembler!assemble_fails
  /\ UNCHANGED <<ended, executor, changed_registers, hist>>

assemble_line_fails ==
  /\ Goto("assemble", "prompt")
  /\ Assembler!assemble_fails
  /\ UNCHANGED <<ended, executor, changed_registers, hist>>

(* Mutant: the inserted instructions counted as opcodes.                   *)
prepare_execute_CountsExit ==
  /\ Goto("prepare", "free")
  /\ opcodes.size # 0
  /\ size' = opcodes.size + 26
  /\ env' = [env EXCEPT ![IP] = CodeBase]
  /\ UNCHANGED <<assembler, ended, changed, changed_registers, hist>>

(* Mutant: IP is left behind the previous line's code.                    *)
prepare_execute_KeepsRip ==
  /\ Goto("prepare", "free")
  /\ opcodes.size # 0
  /\ size' = opcodes.size
  /\ UNCHANGED <<assembler, ended, env, changed, changed_registers, hist>>

(* prepare_execute copies the opcodes.                                     *)
prepare_execute ==
  /\ Goto("prepare", "free")
  /\ opcodes.size # 0
  /\ size' = opcodes.size
  /\ env' = [env EXCEPT ![IP] = CodeBase]
  /\ UNCHANGED <<assembler, ended, changed, changed_registers, hist>>

(* Mutant: tries again for ever.                                           *)
prepare_execute_fails_Retries ==
  /\ pc = "prepare" /\ UNCHANGED pc
  /\ kept' = kept \cup {opcodes.array}
  /\ UNCHANGED <<assembler, ended, executor, changed_registers, before, ran>>

(* There are no opcodes, or no memory for them; main does not free them.   *)
prepare_execute_fails ==
  /\ Goto("prepare", "print")
  /\ kept' = kept \cup {opcodes.array}
  /\ UNCHANGED <<assembler, ended, executor, changed_registers, before, ran>>

(* Mutant: frees nothing.                                                  *)
free_opcodes_Null ==
  /\ Goto("free", "execute")
  /\ Assembler!free(Null)
  /\ UNCHANGED <<ended, executor, changed_registers, hist>>

free_opcodes ==
  /\ Goto("free", "execute")
  /\ Assembler!free(opcodes.array)
  /\ UNCHANGED <<ended, executor, changed_registers, hist>>

(* What the register's value after a run is compared with: a register that *)
(* is not copied before the run is compared with zero.                     *)
Shadow == [r \in Reg |-> IF r \in Watched[target] THEN env[r] ELSE 0]

(* Mutant: the mask is not cleared before a run.                           *)
execute_Accumulates ==
  /\ Goto("execute", "print")
  /\ env[SP] \in OnStack
  /\ \E new \in [Reg \ {IP} -> Value] :
       env' = [r \in Reg |-> IF r = IP THEN CodeBase + size ELSE new[r]]
  /\ changed' = changed \cup {r \in Reg : env'[r] # Shadow[r]}
  /\ changed_registers' = changed'
  /\ ran' = TRUE
  /\ UNCHANGED <<assembler, ended, size, before, kept>>

(* The user's code writes any registers and ends behind its last           *)
(* instruction; IP may be reported although it has not changed.            *)
execute ==
  /\ Goto("execute", "print")
  /\ env[SP] \in OnStack
  /\ \E new \in [Reg \ {IP} -> Value] :
       env' = [r \in Reg |-> IF r = IP THEN CodeBase + size ELSE new[r]]
  /\ \E more \in SUBSET {IP} :
       changed' = {r \in Reg : env'[r] # Shadow[r]} \cup more
  /\ changed_registers' = changed'
  /\ ran' = TRUE
  /\ UNCHANGED <<assembler, ended, size, before, kept>>

(* The stack pointer is outside the environment's stack.                   *)
execute_fails ==
  /\ Goto("execute", "print")
  /\ env[SP] \notin OnStack
  /\ UNCHANGED <<assembler, ended, executor, changed_registers, hist>>

(* The user's code runs in the process and may end it.                     *)
execute_kills ==
  /\ Goto("execute", "killed")
  /\ env[SP] \in OnStack
  /\ UNCHANGED <<assembler, ended, executor, changed_registers, hist>>

(* What print_registers prints.                                            *)
Printed == [r \in changed_registers |-> env[r]]

print_registers ==
  /\ Goto("print", "prompt")
  /\ UNCHANGED <<assembler, ended, executor, changed_registers, hist>>

(* Mutant: no destructor closes the engine.                                *)
return_Forgets ==
  /\ Goto("return", "ended")
  /\ UNCHANGED <<assembler, ended, executor, changed_registers, hist>>

(* main returns: the destructors run.                                      *)
return ==
  /\ Goto("return", "ended")
  /\ Assembler!destructor
  /\ UNCHANGED <<ended, executor, changed_registers, hist>>

-----------------------------------------------------------------------------
Main ==
  \/ init_assembler \/ init_executor \/ repeat_line
  \/ assemble_line \/ assemble_line_fails
  \/ prepare_execute \/ prepare_execute_fails
  \/ free_opcodes \/ execute_fails \/ print_registers \/ return

User == read_line \/ empty_line \/ execute \/ execute_kills

Next == (Main \/ User) /\ UNCHANGED target

Spec == Init /\ [][Next]_vars

(* main does not stop; nothing obliges the user to enter a line, or the    *)
(* user's code to end.                                                     *)
FairSpec == Spec /\ WF_vars(Main /\ UNCHANGED target)

-----------------------------------------------------------------------------
(* Every variable has its type.                                            *)
TypeOK ==
  /\ Assembler!TypeOK /\ target \in Target
  /\ pc \in {"init_assembler", "init_executor", "prompt", "assemble",
             "prepare", "free", "execute", "print", "return", "ended",
             "killed"}
  /\ env \in [Reg -> Int] /\ before \in [Reg -> Int]
  /\ size \in OpcodeSizes \cup {0}
  /\ changed \subseteq Reg /\ changed_registers \subseteq Reg
  /\ ended \in BOOLEAN /\ ran \in BOOLEAN /\ kept \subseteq Buffer

(* prepare_execute never reads, and free is never given, a buffer that has *)
(* been freed or was never allocated.                                      *)
OpcodesLive == pc \in {"prepare", "free"} => opcodes.array \in live

(* A line whose opcodes were prepared leaves no buffer allocated, whatever *)
(* happened to it or to earlier lines.                                     *)
PreparedAreFreed == pc = "prompt" => live = kept

(* From init to the end of main one engine is open, parsing the syntax of  *)
(* the build, Intel's where it names none; when main has returned none is. *)
EngineHeld ==
  /\ pc \notin {"init_assembler", "return", "ended"} =>
       /\ engine # Null /\ opened = {engine}
       /\ syntax = Assembler!Chosen(Dialect[target])
  /\ pc = "ended" => opened = {}

(* After a line that was executed, main prints the watched registers that  *)
(* differ from those before the line, and no others of them except IP.     *)
PrintsTheChanges ==
  pc = "print" /\ ran =>
    LET differs == {r \in Watched[target] : env[r] # before[r]}
    IN /\ differs \subseteq DOMAIN Printed
       /\ DOMAIN Printed \cap Watched[target] \subseteq differs \cup {IP}

(* main comes back to the prompt, hands over to the user's code or ends.   *)
Waiting ==
  \/ pc \in {"prompt", "ended", "killed"}
  \/ pc = "execute" /\ env[SP] \in OnStack
LineAnswered == ~Waiting ~> Waiting

(* The executor that main uses does what ContextSwitch specifies, which    *)
(* the context switches have been shown to implement; the mask need be     *)
(* exact only in a build that watches every register.                      *)
Promised == INSTANCE ContextSwitch WITH
  Entry <- CodeBase, Sizes <- OpcodeSizes \ {0}, host <- 0
ExecutorAsPromised ==
  /\ Promised!Init
  /\ [][IF Watched[target] = Reg THEN Promised!Next
        ELSE Promised!RunsNext]_(Promised!vars)

(* The interface's promise: execute sets the mask to zero first, so one    *)
(* that fails reports no register.                                         *)
FailedReportsNothing ==
  [][execute_fails => changed_registers' = {}]_vars

(* The interface's promise: an array that assemble returned is freed.      *)
OpcodesFreed == pc = "prompt" => live = {}

=============================================================================
