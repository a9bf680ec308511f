--------------------------- MODULE ContextSwitch ---------------------------
(***************************************************************************)
(* What the context switch of an executor promises its caller: code runs   *)
(* between two states of the environment's registers as if in one step,    *)
(* the caller's registers are not affected, and the mask handed out names  *)
(* the registers that changed.                                             *)
(***************************************************************************)
EXTENDS Integers

CONSTANTS
  Reg,     \* the environment's registers
  IP,      \* the instruction pointer, one of them
  Entry,   \* where prepared code starts
  Sizes    \* sizes the prepared code may have

VARIABLES
  env,     \* the environment's registers
  size,    \* size of the prepared code, 0 before the first
  changed, \* the mask of the last execution
  host     \* the caller's registers

vars == <<env, size, changed, host>>

Init ==
  /\ env \in [Reg -> Int] /\ env[IP] = Entry
  /\ size = 0
  /\ changed = {}

(* The instruction pointer is set to the start of the code.                *)
Prepare ==
  /\ size' \in Sizes
  /\ env' = [env EXCEPT ![IP] = Entry]
  /\ UNCHANGED <<changed, host>>

(* The code runs and ends behind its last instruction.                     *)
Runs ==
  /\ size # 0
  /\ env' \in [Reg -> Int]
  /\ env'[IP] = Entry + size
  /\ UNCHANGED <<size, host>>

(* It runs from the instruction pointer on; with nothing left to run no    *)
(* register changes.                                                       *)
Resumes == env[IP] = Entry + size => env' = env

(* The mask names the registers that changed; the instruction pointer may  *)
(* be in it without a change.                                              *)
Reports ==
  LET differs == {i \in Reg : env'[i] # env[i]}
  IN /\ differs \subseteq changed'
     /\ changed' \subseteq differs \cup {IP}

Execute == Runs /\ Resumes /\ Reports

(* The client sets a register itself.                                      *)
SetRegister ==
  /\ env' \in [Reg -> Int]
  /\ \E r \in Reg : \A s \in Reg \ {r} : env'[s] = env[s]
  /\ UNCHANGED <<size, changed, host>>

Next == Prepare \/ SetRegister \/ Execute

Spec == Init /\ [][Next]_vars

-----------------------------------------------------------------------------
(* A weaker promise, for an executor that starts prepared code over and    *)
(* whose mask is not exact.                                                *)
RunsNext == Prepare \/ SetRegister \/ (Runs /\ changed' \subseteq Reg)

RunsSpec == Init /\ [][RunsNext]_vars

=============================================================================
