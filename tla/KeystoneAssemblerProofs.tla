----------------------- MODULE KeystoneAssemblerProofs -----------------------
(***************************************************************************)
(* Proofs about KeystoneAssembler, for every set of engines, buffers and   *)
(* architectures, and for a library of any version.                        *)
(***************************************************************************)
EXTENDS KeystoneAssembler, TLAPS

(* The invariant is inductive: what is open decides what init closes.      *)
IInv == TypeOK /\ EngineAccounted /\ SyntaxInForce

(* The states from which init goes through its cleanup: the old one, or    *)
(* one with a new engine where there was none.                             *)
LEMMA AttemptShape ==
  ASSUME IInv, NEW a \in Architecture, NEW s \in Syntax,
         NEW r, r \in Attempt(a, s)
  PROVE  \/ /\ r.engine = engine /\ r.opened = opened
            /\ r.syntax = syntax /\ r.ok = FALSE
         \/ /\ engine = Null /\ r.engine \in Engine
            /\ r.opened = {r.engine} /\ r.ok \in BOOLEAN
            /\ r.syntax = IF r.ok THEN Chosen(s) ELSE "INTEL"
  <1>1. CASE r = [engine |-> engine, opened |-> opened, syntax |-> syntax,
                  ok |-> FALSE]
    BY <1>1
  <1>2. CASE /\ engine = Null /\ r.engine \in Engine
             /\ r.opened = opened \cup {r.engine} /\ r.ok \in BOOLEAN
             /\ r.syntax = IF r.ok THEN Chosen(s) ELSE "INTEL"
    <2>1. opened = {}
      BY <1>2 DEF IInv, EngineAccounted
    <2> QED BY <1>2, <2>1
  <1> QED BY <1>1, <1>2 DEF Attempt, Accepted

LEMMA InitStep ==
  ASSUME IInv, NEW a \in Architecture, NEW s \in Syntax, init(a, s)
  PROVE  IInv'
  <1>1. PICK r \in Attempt(a, s) :
          /\ result' = r.ok
          /\ engine' = IF r.ok THEN r.engine ELSE Null
          /\ opened' = IF r.ok \/ r.engine = Null THEN r.opened
                       ELSE r.opened \ {r.engine}
          /\ syntax' = r.syntax
          /\ asked' = IF r.ok THEN Chosen(s) ELSE asked
          /\ UNCHANGED <<live, opcodes>>
    BY DEF init
  <1>2. CASE /\ r.engine = engine /\ r.opened = opened
             /\ r.syntax = syntax /\ r.ok = FALSE
    BY <1>1, <1>2 DEF IInv, TypeOK, EngineAccounted, SyntaxInForce
  <1>3. CASE /\ engine = Null /\ r.engine \in Engine
             /\ r.opened = {r.engine} /\ r.ok \in BOOLEAN
             /\ r.syntax = IF r.ok THEN Chosen(s) ELSE "INTEL"
    <2>1. r.engine # Null
      BY <1>3, KeystoneAssumption
    <2>2. Chosen(s) \in Syntax \ {"NONE"}
      BY DEF Chosen, Syntax
    <2>3. TypeOK'
      BY <1>1, <1>3, <2>2 DEF IInv, TypeOK, Syntax
    <2>4. EngineAccounted'
      BY <1>1, <1>3, <2>1 DEF EngineAccounted
    <2>5. SyntaxInForce'
      BY <1>1, <1>3 DEF SyntaxInForce
    <2> QED BY <2>3, <2>4, <2>5 DEF IInv
  <1> QED BY <1>1, <1>2, <1>3, AttemptShape

LEMMA SetSyntaxStep ==
  ASSUME IInv, NEW s \in Syntax, set_syntax(s)
  PROVE  IInv'
  <1>1. result' \in BOOLEAN /\ (result' => s # "NONE")
    BY DEF set_syntax, Accepted
  <1> QED BY <1>1 DEF IInv, TypeOK, EngineAccounted, SyntaxInForce, set_syntax

LEMMA BufferStep ==
  ASSUME IInv,
         \/ \E b \in Buffer, n \in OpcodeSizes : assemble(b, n)
         \/ assemble_fails
         \/ \E b \in live \cup {Null} : free(b)
  PROVE  IInv'
  <1>1. ASSUME NEW b \in Buffer, NEW n \in OpcodeSizes, assemble(b, n)
        PROVE  IInv'
    BY <1>1 DEF IInv, TypeOK, EngineAccounted, SyntaxInForce, assemble
  <1>2. CASE assemble_fails
    BY <1>2 DEF IInv, TypeOK, EngineAccounted, SyntaxInForce, assemble_fails
  <1>3. ASSUME NEW b \in live \cup {Null}, free(b)
        PROVE  IInv'
    BY <1>3 DEF IInv, TypeOK, EngineAccounted, SyntaxInForce, free
  <1> QED BY <1>1, <1>2, <1>3

LEMMA DestructorStep ==
  ASSUME IInv, destructor
  PROVE  IInv'
  BY DEF IInv, TypeOK, EngineAccounted, SyntaxInForce, destructor

(* The inductive invariant holds in every reachable state.                 *)
THEOREM AssemblerInductive == Spec => []IInv
  <1>1. Init => IInv
    <2> SUFFICES ASSUME Init PROVE IInv
      OBVIOUS
    <2>1. TypeOK
      BY DEF Init, TypeOK, Syntax
    <2>2. EngineAccounted /\ SyntaxInForce
      BY DEF Init, EngineAccounted, SyntaxInForce
    <2> QED BY <2>1, <2>2 DEF IInv
  <1>2. IInv /\ [Next]_vars => IInv'
    <2>1. IInv /\ UNCHANGED vars => IInv'
      BY DEF IInv, TypeOK, EngineAccounted, SyntaxInForce, vars
    <2> QED
      BY <2>1, InitStep, SetSyntaxStep, BufferStep, DestructorStep DEF Next
  <1> QED BY <1>1, <1>2, PTL DEF Spec

(* The engine held is the one engine that is open, after any sequence of   *)
(* calls, failing or not.                                                  *)
THEOREM EngineIsAccounted == Spec => []EngineAccounted
  <1>1. IInv => EngineAccounted
    BY DEF IInv
  <1> QED BY <1>1, AssemblerInductive, PTL

(* An engine parses the syntax of the last request answered with true.     *)
THEOREM SyntaxIsInForce == Spec => []SyntaxInForce
  <1>1. IInv => SyntaxInForce
    BY DEF IInv
  <1> QED BY <1>1, AssemblerInductive, PTL

(* init returns true exactly if it leaves an engine to assemble with.      *)
THEOREM InitIsTruthful == Spec => InitTruthful
  <1>1. ASSUME IInv, NEW a \in Architecture, NEW s \in Syntax, init(a, s)
        PROVE  result' <=> engine' # Null
    <2>1. PICK r \in Attempt(a, s) :
            result' = r.ok /\ engine' = IF r.ok THEN r.engine ELSE Null
      BY <1>1 DEF init
    <2>2. r.ok => r.engine \in Engine
      BY <1>1, AttemptShape
    <2>3. r.ok \in BOOLEAN
      BY <1>1, AttemptShape
    <2> QED BY <2>1, <2>2, <2>3, KeystoneAssumption
  <1>2. IInv => [\A a \in Architecture, s \in Syntax :
                   init(a, s) => (result' <=> engine' # Null)]_vars
    BY <1>1
  <1> QED BY <1>2, AssemblerInductive, PTL DEF InitTruthful

=============================================================================
