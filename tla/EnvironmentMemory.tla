------------------------- MODULE EnvironmentMemory -------------------------
(***************************************************************************)
(* What an executor promises about the memory of its environment.  There   *)
(* is a code block, a stack and a list of loaded modules, each a range of  *)
(* pages nobody else uses.  An operation adds a module whole or not at     *)
(* all, and code grows only at its end, so every address handed out stays  *)
(* valid until the executor is destroyed.                                  *)
(***************************************************************************)
EXTENDS Integers, Sequences

VARIABLES
  code,    \* the block that code is copied into
  stack,   \* the environment's stack
  modules, \* the loaded modules, oldest first
  access,  \* pages the environment can use
  foreign, \* pages the rest of the process uses
  alive    \* the executor has not been destroyed

vars == <<code, stack, modules, access, foreign, alive>>

NoBlock == [base |-> 0, size |-> 0]
PagesOf(b) == b.base .. (b.base + b.size - 1)

Init ==
  /\ code = NoBlock /\ stack = NoBlock /\ modules = <<>>
  /\ access = {} /\ foreign = {} /\ alive = TRUE

(* New pages belong to nobody, and become accessible at once.              *)
Gain(pages) ==
  /\ pages \cap (access \cup foreign) = {}
  /\ access' = access \cup pages

ObtainCode ==
  /\ code = NoBlock /\ Gain(PagesOf(code'))
  /\ UNCHANGED <<stack, modules, foreign, alive>>

ObtainStack ==
  /\ stack = NoBlock /\ Gain(PagesOf(stack'))
  /\ UNCHANGED <<code, modules, foreign, alive>>

GrowCode ==
  /\ code'.base = code.base /\ code'.size > code.size
  /\ Gain(PagesOf(code') \ PagesOf(code))
  /\ UNCHANGED <<stack, modules, foreign, alive>>

Load ==
  /\ Len(modules') = Len(modules) + 1
  /\ SubSeq(modules', 1, Len(modules)) = modules
  /\ Gain(PagesOf(modules'[Len(modules')]))
  /\ UNCHANGED <<code, stack, foreign, alive>>

(* The rest of the process takes pages that are free.                      *)
Others ==
  /\ foreign \subseteq foreign' /\ foreign' \cap access = {}
  /\ UNCHANGED <<code, stack, modules, access, alive>>

Destroy ==
  /\ alive' = FALSE
  /\ UNCHANGED <<code, stack, modules, access, foreign>>

Release ==
  /\ ~alive /\ access' \subseteq access
  /\ UNCHANGED <<code, stack, modules, foreign, alive>>

Next ==
  \/ alive /\ (ObtainCode \/ ObtainStack \/ GrowCode \/ Load \/ Others \/ Destroy)
  \/ Release

Spec == Init /\ [][Next]_vars

=============================================================================
