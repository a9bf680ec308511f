------------------------- MODULE KeystoneAssembler -------------------------
(***************************************************************************)
(* The class KeystoneAssembler: one engine of the keystone library, opened *)
(* by init and closed by the destructor or by an init that fails, and the  *)
(* opcode buffers that assemble obtains from the library.                  *)
(*                                                                         *)
(* The library is external.  Its part of the state is the set of engines   *)
(* that are open, the syntax of the open engine and the buffers that are   *)
(* allocated; what ks_open, ks_option and ks_asm answer is a               *)
(* nondeterministic choice.                                                *)
(***************************************************************************)
EXTENDS Integers

CONSTANTS
  Architecture, \* values of architecture_e
  Supported,    \* those that ks_arch_supported accepts
  KsVersion,    \* what ks_version returns
  Engine,       \* addresses of engines
  Buffer,       \* addresses of opcode buffers
  OpcodeSizes,  \* sizes of an encoding, 0 included
  Null

COMPATIBLE_KEYSTONE_VERSION == 9
Syntax == {"NONE", "INTEL", "ATNT", "GNU", "NASM"}

ASSUME KeystoneAssumption ==
  /\ Supported \subseteq Architecture
  /\ Null \notin Engine \cup Buffer
  /\ OpcodeSizes \subseteq Nat

VARIABLES
  engine,  \* m_keystone_engine
  opened,  \* external: engines that are open
  syntax,  \* external: the syntax the open engine parses
  live,    \* external: buffers allocated by ks_asm and not freed
  opcodes, \* the array that assemble fills
  asked,   \* history: the syntax of the last call that returned true
  result   \* what the last call of init, set_syntax or free returned

vars == <<engine, opened, syntax, live, opcodes, asked, result>>

Init ==
  /\ engine = Null /\ opened = {} /\ live = {}
  /\ syntax = "INTEL" /\ asked = "INTEL"
  /\ opcodes = [array |-> Null, size |-> 0]
  /\ result = FALSE

-----------------------------------------------------------------------------
(* ks_option with the converted syntax: NONE has no counterpart, and the   *)
(* library may refuse the others.  What set_syntax can return.             *)
Accepted(s) == IF s = "NONE" THEN {FALSE} ELSE BOOLEAN

is_compatible_with_keystone_abi == KsVersion = COMPATIBLE_KEYSTONE_VERSION

(* The syntax in force after init was asked for s: with NONE it does not   *)
(* call set_syntax, and the engine keeps keystone's default.               *)
Chosen(s) == IF s = "NONE" THEN "INTEL" ELSE s

(* Mutant: the requested syntax is not passed on.                          *)
Attempt_NoSyntax(a, s) ==
  {[engine |-> engine, opened |-> opened, syntax |-> syntax, ok |-> FALSE]}
  \cup {r \in [engine : Engine \ opened, opened : SUBSET Engine,
               syntax : Syntax, ok : IF s = "NONE" THEN {TRUE} ELSE Accepted(s)] :
          /\ engine = Null
          /\ is_compatible_with_keystone_abi /\ a \in Supported
          /\ r.opened = opened \cup {r.engine}
          /\ r.syntax = "INTEL"}

(* The states in which init can reach its cleanup label.  A new engine     *)
(* parses the Intel syntax until set_syntax succeeds.                      *)
Attempt(a, s) ==
  {[engine |-> engine, opened |-> opened, syntax |-> syntax, ok |-> FALSE]}
  \cup {r \in [engine : Engine \ opened, opened : SUBSET Engine,
               syntax : Syntax, ok : IF s = "NONE" THEN {TRUE} ELSE Accepted(s)] :
          /\ engine = Null
          /\ is_compatible_with_keystone_abi /\ a \in Supported
          /\ r.opened = opened \cup {r.engine}
          /\ r.syntax = IF r.ok THEN Chosen(s) ELSE "INTEL"}

(* Mutant: the closed engine is still held.                                *)
init_NoReset(a, s) ==
  \E r \in Attempt(a, s) :
    /\ result' = r.ok
    /\ engine' = r.engine
    /\ opened' = IF r.ok \/ r.engine = Null THEN r.opened
                 ELSE r.opened \ {r.engine}
    /\ syntax' = r.syntax
    /\ asked' = IF r.ok THEN Chosen(s) ELSE asked
    /\ UNCHANGED <<live, opcodes>>

(* Mutant: an engine that refuses the syntax is kept.                      *)
init_NoCleanup(a, s) ==
  \E r \in Attempt(a, s) :
    /\ result' = r.ok
    /\ engine' = r.engine /\ opened' = r.opened
    /\ syntax' = r.syntax
    /\ asked' = IF r.ok THEN Chosen(s) ELSE asked
    /\ UNCHANGED <<live, opcodes>>

(* init: after any failure the cleanup closes the engine, also one that an *)
(* earlier init had opened.                                                *)
init(a, s) ==
  \E r \in Attempt(a, s) :
    /\ result' = r.ok
    /\ engine' = IF r.ok THEN r.engine ELSE Null
    /\ opened' = IF r.ok \/ r.engine = Null THEN r.opened
                 ELSE r.opened \ {r.engine}
    /\ syntax' = r.syntax
    /\ asked' = IF r.ok THEN Chosen(s) ELSE asked
    /\ UNCHANGED <<live, opcodes>>

set_syntax(s) ==
  /\ engine # Null
  /\ result' \in Accepted(s)
  /\ syntax' = IF result' THEN s ELSE syntax
  /\ asked' = IF result' THEN s ELSE asked
  /\ UNCHANGED <<engine, opened, live, opcodes>>

(* assemble returns true: the library has allocated the buffer.            *)
assemble(b, n) ==
  /\ engine # Null
  /\ b \in Buffer \ live /\ n \in OpcodeSizes
  /\ live' = live \cup {b}
  /\ opcodes' = [array |-> b, size |-> n]
  /\ UNCHANGED <<engine, opened, syntax, asked, result>>

(* assemble returns false: the pointer may have been reset, the size has   *)
(* not.                                                                    *)
assemble_fails ==
  /\ engine # Null
  /\ \E a \in {opcodes.array, Null} : opcodes' = [opcodes EXCEPT !.array = a]
  /\ UNCHANGED <<engine, opened, syntax, live, asked, result>>

(* free refuses the null pointer.                                          *)
free(b) ==
  /\ result' = (b # Null)
  /\ live' = IF result' THEN live \ {b} ELSE live
  /\ UNCHANGED <<engine, opened, syntax, opcodes, asked>>

destructor ==
  /\ engine' = Null
  /\ opened' = opened \ {engine}
  /\ UNCHANGED <<syntax, live, opcodes, asked, result>>

-----------------------------------------------------------------------------
(* A client that keeps to the interface: it assembles only while it has an *)
(* engine and frees only what assemble returned, or the null pointer that  *)
(* a failed assemble may leave.  After the destructor it may construct     *)
(* another assembler, which starts without an engine.                      *)
Next ==
  \/ \E a \in Architecture, s \in Syntax : init(a, s)
  \/ \E s \in Syntax : set_syntax(s)
  \/ \E b \in Buffer, n \in OpcodeSizes : assemble(b, n)
  \/ assemble_fails
  \/ \E b \in live \cup {Null} : free(b)
  \/ destructor

Spec == Init /\ [][Next]_vars

-----------------------------------------------------------------------------
(* Every variable has its type.                                            *)
TypeOK ==
  /\ engine \in Engine \cup {Null} /\ opened \subseteq Engine
  /\ syntax \in Syntax \ {"NONE"} /\ asked \in Syntax \ {"NONE"}
  /\ live \subseteq Buffer
  /\ opcodes \in [array : Buffer \cup {Null}, size : OpcodeSizes \cup {0}]
  /\ result \in BOOLEAN

(* The engine that is held is the one that is open in the library: none    *)
(* leaks when init fails halfway, is called again or follows a destructor, *)
(* and no pointer to a closed engine remains.                              *)
EngineAccounted == opened = {engine} \ {Null}

(* What init returns tells whether assemble may be called.                 *)
InitTruthful ==
  [][\A a \in Architecture, s \in Syntax :
       init(a, s) => (result' <=> engine' # Null)]_vars

(* The engine parses the syntax of the last request that was answered with *)
(* true; a refused request changes nothing.                                *)
SyntaxInForce == engine # Null => syntax = asked

=============================================================================
