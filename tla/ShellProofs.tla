---------------------------- MODULE ShellProofs ----------------------------
(***************************************************************************)
(* Proofs about Shell, for every set of architectures, registers, values   *)
(* and encodings, and for lines that fail in any way.                      *)
(***************************************************************************)
EXTENDS Shell, TLAPS

USE DEF Goto, assembler, executor, hist

(* Which engine is open, label by label.                                   *)
EngineInv ==
  /\ opened = {engine} \ {Null}
  /\ pc \in {"init_assembler", "ended"} => engine = Null
  /\ pc \notin {"init_assembler", "return", "ended"} =>
       engine # Null /\ syntax = Assembler!Chosen(Dialect[target])

(* Which buffers are allocated: those of the lines that failed, and the    *)
(* one of the current line.                                                *)
BufferInv ==
  IF pc \in {"prepare", "free"}
  THEN live = kept \cup {opcodes.array} /\ opcodes.array \notin kept
  ELSE live = kept

(* What the current line has done so far.                                  *)
LineInv ==
  /\ pc \in {"assemble", "prepare", "free", "execute"} =>
       ~ran /\ \A r \in Reg \ {IP} : env[r] = before[r]
  /\ pc \in {"free", "execute"} => env[IP] = CodeBase /\ size # 0

IInv == TypeOK /\ EngineInv /\ BufferInv /\ LineInv /\ PrintsTheChanges

-----------------------------------------------------------------------------
LEMMA ChosenIsSyntax ==
  ASSUME NEW s \in Assembler!Syntax
  PROVE  Assembler!Chosen(s) \in Assembler!Syntax \ {"NONE"}
  BY DEF Assembler!Chosen, Assembler!Syntax

LEMMA InitHolds == Init => IInv
  <1> SUFFICES ASSUME Init PROVE IInv
    OBVIOUS
  <1>1. Assembler!TypeOK
    BY DEF Init, Assembler!Init, Assembler!TypeOK, Assembler!Syntax
  <1>2. TypeOK
    BY <1>1, ShellAssumption DEF Init, TypeOK
  <1>3. EngineInv /\ BufferInv
    BY DEF Init, Assembler!Init, EngineInv, BufferInv
  <1>4. LineInv /\ PrintsTheChanges
    BY DEF Init, LineInv, PrintsTheChanges
  <1> QED BY <1>2, <1>3, <1>4 DEF IInv

(* A first init leaves its engine open and parsing the build's syntax, or  *)
(* none.                                                                   *)
LEMMA FirstInit ==
  ASSUME engine = Null, opened = {}, syntax \in Assembler!Syntax \ {"NONE"},
         target \in Target, Assembler!init(target, Dialect[target])
  PROVE  /\ result' \in BOOLEAN
         /\ syntax' \in Assembler!Syntax \ {"NONE"}
         /\ asked' \in {asked, Assembler!Chosen(Dialect[target])}
         /\ IF result'
            THEN /\ engine' \in Engine /\ opened' = {engine'}
                 /\ syntax' = Assembler!Chosen(Dialect[target])
            ELSE engine' = Null /\ opened' = {}
  <1> DEFINE s == Dialect[target]
  <1>1. s \in Assembler!Syntax
    BY ShellAssumption
  <1>2. PICK r \in Assembler!Attempt(target, s) :
          /\ result' = r.ok
          /\ engine' = IF r.ok THEN r.engine ELSE Null
          /\ opened' = IF r.ok \/ r.engine = Null THEN r.opened
                       ELSE r.opened \ {r.engine}
          /\ syntax' = r.syntax
          /\ asked' = IF r.ok THEN Assembler!Chosen(s) ELSE asked
    BY DEF Assembler!init
  <1>3. Assembler!Chosen(s) \in Assembler!Syntax \ {"NONE"}
    BY <1>1, ChosenIsSyntax
  <1> HIDE DEF s
  <1>4. CASE r = [engine |-> engine, opened |-> opened, syntax |-> syntax,
                  ok |-> FALSE]
    BY <1>2, <1>4 DEF s
  <1>5. CASE /\ r.engine \in Engine /\ r.opened = opened \cup {r.engine}
             /\ r.ok \in BOOLEAN
             /\ r.syntax = IF r.ok THEN Assembler!Chosen(s) ELSE "INTEL"
    <2>1. r.engine # Null
      BY <1>5, ShellAssumption
    <2>2. "INTEL" \in Assembler!Syntax \ {"NONE"}
      BY DEF Assembler!Syntax
    <2> QED BY <1>2, <1>3, <1>5, <2>1, <2>2 DEF s
  <1> QED BY <1>2, <1>4, <1>5 DEF Assembler!Attempt, Assembler!Accepted

LEMMA InitAssemblerStep ==
  ASSUME IInv, init_assembler, UNCHANGED target
  PROVE  IInv'
  <1>1. engine = Null /\ opened = {} /\ syntax \in Assembler!Syntax \ {"NONE"}
    BY DEF IInv, EngineInv, TypeOK, Assembler!TypeOK, init_assembler
  <1>2. target \in Target
    BY DEF IInv, TypeOK
  <1>3. /\ result' \in BOOLEAN
        /\ syntax' \in Assembler!Syntax \ {"NONE"}
        /\ asked' \in {asked, Assembler!Chosen(Dialect[target])}
        /\ IF result'
           THEN /\ engine' \in Engine /\ opened' = {engine'}
                /\ syntax' = Assembler!Chosen(Dialect[target])
           ELSE engine' = Null /\ opened' = {}
    BY <1>1, <1>2, FirstInit DEF init_assembler
  <1>4. UNCHANGED <<live, opcodes>>
    BY DEF init_assembler, Assembler!init
  <1>5. Assembler!Chosen(Dialect[target]) \in Assembler!Syntax \ {"NONE"}
    BY <1>2, ChosenIsSyntax, ShellAssumption
  <1>6. Assembler!TypeOK'
    BY <1>3, <1>4, <1>5 DEF IInv, TypeOK, Assembler!TypeOK
  <1>7. TypeOK'
    BY <1>6 DEF IInv, TypeOK, init_assembler
  <1>8. EngineInv'
    BY <1>3, ShellAssumption DEF EngineInv, init_assembler
  <1>9. BufferInv' /\ LineInv' /\ PrintsTheChanges'
    BY <1>4
    DEF IInv, BufferInv, LineInv, PrintsTheChanges, Printed, init_assembler
  <1> QED BY <1>7, <1>8, <1>9 DEF IInv

(* The steps of main that leave the assembler alone.                       *)
LEMMA MainStep ==
  ASSUME IInv, UNCHANGED target,
         \/ init_executor \/ read_line \/ repeat_line \/ empty_line
         \/ prepare_execute_fails
         \/ execute_fails \/ execute_kills \/ print_registers
  PROVE  IInv'
  <1>1. TypeOK'
    <2>1. Assembler!TypeOK'
      BY DEF IInv, TypeOK, Assembler!TypeOK, init_executor, read_line, repeat_line,
             empty_line, prepare_execute_fails, execute_fails, execute_kills,
             print_registers
    <2>2. kept' \subseteq Buffer
      BY DEF IInv, TypeOK, Assembler!TypeOK, BufferInv, init_executor,
             read_line, repeat_line, empty_line, prepare_execute_fails, execute_fails,
             execute_kills, print_registers
    <2> QED
      BY <2>1, <2>2
      DEF IInv, TypeOK, init_executor, read_line, repeat_line, empty_line,
          prepare_execute_fails, execute_fails, execute_kills, print_registers
  <1>2. EngineInv'
    BY DEF IInv, EngineInv, init_executor, read_line, repeat_line, empty_line,
           prepare_execute_fails, execute_fails, execute_kills, print_registers
  <1>3. BufferInv'
    BY DEF IInv, BufferInv, init_executor, read_line, repeat_line, empty_line,
           prepare_execute_fails, execute_fails, execute_kills, print_registers
  <1>4. LineInv'
    BY DEF IInv, LineInv, init_executor, read_line, repeat_line, empty_line,
           prepare_execute_fails, execute_fails, execute_kills, print_registers
  <1>5. PrintsTheChanges'
    BY DEF IInv, LineInv, PrintsTheChanges, init_executor, read_line, repeat_line,
           empty_line, prepare_execute_fails, execute_fails, execute_kills,
           print_registers
  <1> QED BY <1>1, <1>2, <1>3, <1>4, <1>5 DEF IInv

(* The steps in which the assembler allocates, frees or closes.            *)
LEMMA AssemblerStep ==
  ASSUME IInv, UNCHANGED target,
         assemble_line \/ assemble_line_fails \/ free_opcodes \/ return
  PROVE  IInv'
  <1>1. CASE assemble_line
    <2>1. PICK b \in Buffer, n \in OpcodeSizes : Assembler!assemble(b, n)
      BY <1>1 DEF assemble_line
    <2>2. Assembler!TypeOK'
      BY <2>1 DEF IInv, TypeOK, Assembler!TypeOK, Assembler!assemble
    <2>3. TypeOK'
      BY <1>1, <2>2 DEF IInv, TypeOK, assemble_line
    <2>4. EngineInv' /\ BufferInv' /\ LineInv' /\ PrintsTheChanges'
      BY <1>1, <2>1
      DEF IInv, EngineInv, BufferInv, LineInv, PrintsTheChanges,
          assemble_line, Assembler!assemble
    <2> QED BY <2>3, <2>4 DEF IInv
  <1>2. CASE assemble_line_fails
    <2>1. Assembler!TypeOK'
      BY <1>2 DEF IInv, TypeOK, Assembler!TypeOK, assemble_line_fails,
                  Assembler!assemble_fails
    <2>2. TypeOK'
      BY <1>2, <2>1 DEF IInv, TypeOK, assemble_line_fails
    <2>3. EngineInv' /\ BufferInv' /\ LineInv' /\ PrintsTheChanges'
      BY <1>2
      DEF IInv, EngineInv, BufferInv, LineInv, PrintsTheChanges,
          assemble_line_fails, Assembler!assemble_fails
    <2> QED BY <2>2, <2>3 DEF IInv
  <1>3. CASE free_opcodes
    <2>1. Assembler!TypeOK'
      BY <1>3 DEF IInv, TypeOK, Assembler!TypeOK, free_opcodes, Assembler!free
    <2>2. TypeOK'
      BY <1>3, <2>1 DEF IInv, TypeOK, free_opcodes
    <2>3. opcodes.array # Null
      BY <1>3, ShellAssumption
      DEF IInv, TypeOK, Assembler!TypeOK, BufferInv, free_opcodes, Goto
    <2>4. live' = live \ {opcodes.array} /\ UNCHANGED <<engine, opened, syntax, opcodes>>
      BY <1>3, <2>3 DEF free_opcodes, Assembler!free
    <2>5. EngineInv' /\ BufferInv' /\ LineInv' /\ PrintsTheChanges'
      BY <1>3, <2>4
      DEF IInv, EngineInv, BufferInv, LineInv, PrintsTheChanges,
          free_opcodes
    <2> QED BY <2>2, <2>5 DEF IInv
  <1>4. CASE return
    <2>1. Assembler!TypeOK'
      BY <1>4
      DEF IInv, TypeOK, Assembler!TypeOK, return, Assembler!destructor
    <2>2. TypeOK'
      BY <1>4, <2>1 DEF IInv, TypeOK, return
    <2>3. EngineInv' /\ BufferInv' /\ LineInv' /\ PrintsTheChanges'
      BY <1>4
      DEF IInv, EngineInv, BufferInv, LineInv, PrintsTheChanges, return,
          Assembler!destructor
    <2> QED BY <2>2, <2>3 DEF IInv
  <1> QED BY <1>1, <1>2, <1>3, <1>4

LEMMA PrepareStep ==
  ASSUME IInv, prepare_execute, UNCHANGED target
  PROVE  IInv'
  <1>1. opcodes.size \in OpcodeSizes \cup {0} /\ env \in [Reg -> Int]
    BY DEF IInv, TypeOK, Assembler!TypeOK
  <1>2. env' \in [Reg -> Int] /\ env'[IP] = CodeBase
    BY <1>1, ShellAssumption DEF prepare_execute
  <1>3. TypeOK'
    <2>1. Assembler!TypeOK'
      BY DEF IInv, TypeOK, Assembler!TypeOK, prepare_execute
    <2> QED BY <1>1, <1>2, <2>1 DEF IInv, TypeOK, prepare_execute
  <1>4. EngineInv' /\ BufferInv' /\ PrintsTheChanges'
    BY DEF IInv, EngineInv, BufferInv, PrintsTheChanges, prepare_execute
  <1>5. LineInv'
    BY <1>1, <1>2 DEF IInv, LineInv, prepare_execute
  <1> QED BY <1>3, <1>4, <1>5 DEF IInv

(* The registers a run leaves are integers, IP among them.                 *)
LEMMA RunTyped ==
  ASSUME NEW new \in [Reg \ {IP} -> Value], NEW ip \in Int
  PROVE  [r \in Reg |-> IF r = IP THEN ip ELSE new[r]] \in [Reg -> Int]
  <1>1. \A r \in Reg : (IF r = IP THEN ip ELSE new[r]) \in Int
    <2> SUFFICES ASSUME NEW r \in Reg
                 PROVE  (IF r = IP THEN ip ELSE new[r]) \in Int
      OBVIOUS
    <2>1. CASE r = IP
      BY <2>1
    <2>2. CASE r # IP
      <3>1. r \in Reg \ {IP}
        BY <2>2
      <3>2. new[r] \in Value
        BY <3>1
      <3>3. Value \subseteq Int
        BY ShellAssumption
      <3> QED BY <2>2, <3>2, <3>3
    <2> QED BY <2>1, <2>2
  <1> QED BY <1>1

(* What a run leaves: the mask, as far as registers are watched, names     *)
(* those that differ from before the line.                                 *)
LEMMA ExecuteStep ==
  ASSUME IInv, execute, UNCHANGED target
  PROVE  IInv'
  <1>1. PICK new \in [Reg \ {IP} -> Value] :
          env' = [r \in Reg |-> IF r = IP THEN CodeBase + size ELSE new[r]]
    BY DEF execute
  <1>2. PICK more \in SUBSET {IP} :
          changed' = {r \in Reg : env'[r] # Shadow[r]} \cup more
    BY DEF execute
  <1>3. /\ size \in Nat \ {0} /\ env[IP] = CodeBase
        /\ env'[IP] = CodeBase + size /\ env'[IP] # env[IP]
    BY <1>1, ShellAssumption DEF IInv, TypeOK, LineInv, execute
  <1>4. env' \in [Reg -> Int]
    <2>1. CodeBase + size \in Int
      BY <1>3, ShellAssumption
    <2> QED BY <1>1, <2>1, RunTyped
  <1>5. changed' \subseteq Reg /\ changed_registers' = changed'
    BY <1>2, ShellAssumption DEF execute
  <1>6. TypeOK'
    <2>1. Assembler!TypeOK'
      BY DEF IInv, TypeOK, Assembler!TypeOK, execute
    <2> QED BY <1>4, <1>5, <2>1 DEF IInv, TypeOK, execute
  <1>7. EngineInv' /\ BufferInv' /\ LineInv'
    BY DEF IInv, EngineInv, BufferInv, LineInv, execute
  <1>8. PrintsTheChanges'
    <2>1. Watched[target] \subseteq Reg
      BY ShellAssumption DEF IInv, TypeOK
    <2>2. \A r \in Watched[target] \ {IP} : Shadow[r] = before[r]
      BY <2>1 DEF IInv, LineInv, Shadow, execute
    <2>3. IP \in Watched[target] => IP \in changed'
      BY <1>2, <1>3, ShellAssumption DEF Shadow
    <2>4. \A r \in Watched[target] \ {IP} :
            r \in changed' <=> env'[r] # before[r]
      BY <1>2, <2>1, <2>2
    <2>5. before' = before /\ DOMAIN Printed' = changed'
      BY <1>5 DEF execute, Printed
    <2> QED BY <2>1, <2>3, <2>4, <2>5 DEF PrintsTheChanges
  <1> QED BY <1>6, <1>7, <1>8 DEF IInv

LEMMA NextStep == IInv /\ [Next]_vars => IInv'
  <1>1. IInv /\ UNCHANGED vars => IInv'
    BY DEF vars, IInv, TypeOK, Assembler!TypeOK, EngineInv, BufferInv, LineInv,
           PrintsTheChanges, Printed
  <1> QED
    BY <1>1, InitAssemblerStep, MainStep, AssemblerStep, PrepareStep,
       ExecuteStep
    DEF Next, Main, User

-----------------------------------------------------------------------------
(* The inductive invariant holds in every reachable state.                 *)
THEOREM ShellInductive == Spec => []IInv
  BY InitHolds, NextStep, PTL DEF Spec

(* Every variable keeps its type.                                          *)
THEOREM ShellTypeCorrect == Spec => []TypeOK
  <1>1. IInv => TypeOK
    BY DEF IInv
  <1> QED BY <1>1, ShellInductive, PTL

(* Opcodes are read and freed only while they are allocated.               *)
THEOREM OpcodesAreLive == Spec => []OpcodesLive
  <1>1. IInv => OpcodesLive
    BY DEF IInv, BufferInv, OpcodesLive
  <1> QED BY <1>1, ShellInductive, PTL

(* The lines that were prepared leave no buffer behind.                    *)
THEOREM PreparedLinesAreFreed == Spec => []PreparedAreFreed
  <1>1. IInv => PreparedAreFreed
    BY DEF IInv, BufferInv, PreparedAreFreed
  <1> QED BY <1>1, ShellInductive, PTL

(* One engine is open while main runs, none afterwards.                    *)
THEOREM EngineIsHeld == Spec => []EngineHeld
  <1>1. IInv => EngineHeld
    BY DEF IInv, EngineInv, EngineHeld
  <1> QED BY <1>1, ShellInductive, PTL

(* What is printed after a line is what changed.                           *)
THEOREM ChangesArePrinted == Spec => []PrintsTheChanges
  <1>1. IInv => PrintsTheChanges
    BY DEF IInv
  <1> QED BY <1>1, ShellInductive, PTL

(* main uses an executor that does what the context switches do.           *)
THEOREM ExecutorRefinement == Spec => ExecutorAsPromised
  <1> DEFINE Step == IF Watched[target] = Reg THEN Promised!Next
                     ELSE Promised!RunsNext
  <1>1. Init => Promised!Init
    BY ShellAssumption DEF Init, Promised!Init
  <1>2. ASSUME IInv, Next, ~UNCHANGED Promised!vars
        PROVE  Step
    <2>1. prepare_execute \/ execute
      BY <1>2
      DEF Next, Main, User, Promised!vars, init_assembler, init_executor,
          read_line, repeat_line, empty_line, assemble_line, assemble_line_fails,
          prepare_execute_fails, free_opcodes, execute_fails, execute_kills,
          print_registers, return
    <2>2. CASE prepare_execute
      <3>1. Promised!Prepare
        BY <1>2, <2>2 DEF prepare_execute, Promised!Prepare, IInv, TypeOK,
                          Assembler!TypeOK
      <3> QED BY <3>1 DEF Promised!Next, Promised!RunsNext
    <2>3. CASE execute
      <3>1. PICK new \in [Reg \ {IP} -> Value] :
              env' = [r \in Reg |-> IF r = IP THEN CodeBase + size ELSE new[r]]
        BY <2>3 DEF execute
      <3>2. PICK more \in SUBSET {IP} :
              changed' = {r \in Reg : env'[r] # Shadow[r]} \cup more
        BY <2>3 DEF execute
      <3>3. size \in Nat \ {0} /\ env[IP] = CodeBase
        BY <1>2, <2>3, ShellAssumption DEF IInv, TypeOK, LineInv, execute
      <3>4. env' \in [Reg -> Int] /\ env'[IP] = CodeBase + size
        <4>1. CodeBase + size \in Int
          BY <3>3, ShellAssumption
        <4>2. IP \in Reg
          BY ShellAssumption
        <4> QED BY <3>1, <4>1, <4>2, RunTyped
      <3>5. Promised!Runs
        BY <2>3, <3>3, <3>4 DEF execute, Promised!Runs
      <3>6. changed' \subseteq Reg
        BY <3>2, ShellAssumption
      <3>7. Promised!Resumes
        BY <3>3, ShellAssumption DEF Promised!Resumes
      <3>8. ASSUME Watched[target] = Reg
            PROVE  Promised!Reports
        BY <3>2, <3>8 DEF Shadow, Promised!Reports
      <3> QED
        BY <3>5, <3>6, <3>7, <3>8
        DEF Promised!Next, Promised!RunsNext, Promised!Execute
    <2> QED BY <2>1, <2>2, <2>3
  <1>3. IInv /\ [Next]_vars => [Step]_(Promised!vars)
    <2>1. UNCHANGED vars => UNCHANGED Promised!vars
      BY DEF vars, Promised!vars
    <2> QED BY <1>2, <2>1
  <1> QED
    BY <1>1, <1>3, ShellInductive, PTL DEF Spec, ExecutorAsPromised

=============================================================================
