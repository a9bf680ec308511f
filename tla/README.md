# Verification of intersembly

intersembly is an interactive assembly shell: it reads a line of assembly,
assembles it with the keystone library and executes the opcodes in its own
process, with a context switch that saves and restores the general registers,
the stack pointer and the flags around the user's code (not the floating-point
and vector registers, see *Not modelled*).  This directory holds TLA+ modules
for its parts, the TLC configurations that check them, and proofs, for every
value of the constants, of the safety properties and refinements of all
components.

Running everything needs TLC, SANY and tlapm:

    tlc -config SwitchX64.cfg MCSwitchX64
    tlapm ExecutorMemoryProofs.tla

## The system

| Component | Source (under `source/`) | State | Operations |
|---|---|---|---|
| Context switch x86_64 | `core/execute/usermode/x86_64/switch_modes.S`, `usermode_x86_64_executor.{h,cpp}` | the processor's registers, the host's stack, the environment's stack, `m_environment_registers`, the two addresses patched into the exit instructions, the mask | `start_operation`, `start_execute`, the exit instructions, `operation_end_handler`, `after_execution` |
| Executor memory | `usermode_executor.{h,cpp}`, `usermode_x86_64_executor.cpp` (the ARM64 file has the same code) | `m_environment_code`, `m_environment_stack`, `m_environment_pages`, the kernel's mappings | `init`, `allocate_room_for`, `prepare_execute`, `load_static_module_to_memory`, destructor |
| Register access | `executor.h`, both executors | `m_environment_registers`, the caller's struct | `get_common_registers`, `set_common_registers` |
| ARM64 executor and context switch | `core/execute/usermode/armv8/` | as x86_64, and a shadow copy of the registers | `start_operation` with its inline assembly, `execute_asm`, the inserted instructions, `restore_execution`, `calculate_modified_registers` |
| Keystone assembler | `core/assemble/` | `m_keystone_engine`, the library's engines and buffers | `init`, `set_syntax`, `assemble`, `free`, destructor |
| Shell | `usermode/main.cpp` | `opcodes`, `changed_registers` | the loop of `main`, `print_registers` |
| Hexadecimal output | `usermode/main.cpp` | the position in the array, the rest of the mask | `print_in_hex`, the loop of `print_registers` |
| Common types, build, CI | `include/common.h`, CMake files | none | |

`main` owns an assembler and an executor.  A line goes through
`assembler.assemble`, which returns a buffer of the library's,
`executor.prepare_execute`, which copies it behind the code pointer and appends
the exit instructions, `assembler.free`, and `executor.execute`, which switches
to the user's code.  The user's code comes back through the exit instructions,
which jump to `operation_end_handler`; that saves the registers, computes the
mask of changed ones and returns to `start_operation` on the host's stack.  The
ARM64 switch does the same with other means: an instruction in front of the
user's code loads the two registers that entering it needs, `restore_execution`
saves the registers, and `start_operation` computes the mask in C++ from a copy
it took before.  `print_registers` reads the registers in the mask.

The program has one thread.  What makes it hard is not concurrency but
coroutine-like control between two register files and two stacks, where the
wrong slot or one rotation too few shows only for particular values; kernel
calls that fail or answer elsewhere after part of the work is done; and
sequences of legal calls whose first failure leaves something behind.
`PROJECT.json` lists these hazards at their lines.

What makes each part correct:

* switch: the host gets its registers back, the struct holds what the user's
  code left, the mask is exact, live words of both stacks survive;
* memory: mapped pages and recorded blocks agree whatever fails, blocks are
  disjoint, the program and its exit instructions fit, nothing foreign is
  unmapped, and all is freed in the end;
* register access: registers are not mixed up, masks with a bit outside the
  struct are refused, the others accepted;
* assembler: one engine while it is initialised, none otherwise, buffers used
  only while allocated;
* output: the text reads back as the bytes, each register of the mask is printed
  once with its own value;
* shell: each line is answered with the registers it changed, and no failure
  breaks the lines after it.

## Modules

| Module | What it is |
|---|---|
| `ContextSwitch` | what an execution promises: atomic, exact mask, host unaffected; and a weaker promise (`RunsSpec`) for an executor that resumes nowhere and reports inexactly |
| `SwitchX64` | the x86_64 switch, instruction group by instruction group; implements `ContextSwitch` |
| `SwitchArm64` | the ARM64 switch at the same level; implements the weaker promise |
| `EnvironmentMemory` | what an executor promises about its memory: operations are whole or nothing, addresses stay valid |
| `ExecutorMemory` | blocks and pages of an executor over mmap and munmap; implements `EnvironmentMemory` |
| `RegisterFile` | get and set with bit masks, for both architectures |
| `Output` | `print_in_hex` and `print_registers`, composed with `RegisterFile` |
| `KeystoneAssembler` | the class over the external library |
| `Shell` | `main` in both builds, composed of `KeystoneAssembler` and the executor as in `ContextSwitch` |
| `...Proofs` | theorems about the module of that name |
| `OutputTextProofs` | the theorems about what `Output` prints, on top of `OutputProofs` |
| `MC...` | values of the constants for TLC |

### SwitchX64

`cpu` is the processor's register file, `env` the struct
`m_environment_registers`, `mem` the words of both stacks.  Indices are those of
`common_registers_t`.  One action is a stretch of instructions without a branch;
`pc` is the label it starts at.  Each iteration of the three save loops is a
step (`SaveRegister`).  Pushes are kept as sequences in the order of the
instructions (`HostFrame`, `ExitFrame`, `HandlerFrame`, `PopOrder`), so the order
is data that can be compared with the assembly line by line.  A `ret` is a guard:
it is enabled only if the word it pops is the address the routine expects, so a
switch that returns elsewhere is stuck and violates `SwitchCompletes` (and the
theorem `NeverStuck`).

The mask that `operation_end_handler` builds in rax is a variable `mask` holding
the set of its one bits; `rol` and `ror` act on it modulo 64.  rip counts bytes,
all other addresses count 8-byte words.  The user's code is any sequence of
register writes, moves of rsp that leave room for the five words the exit
instructions push, and stores to the environment's stack.  It cannot write the
host's stack, the struct or the inserted instructions: it runs unprotected in
the same process, and nothing holds of code that does.  Segment registers
are never switched (`switch_modes.S:95`) and are left out, as are the
flags' individual bits.

History variables `host`, `given` and `left` record the host's registers at the
call, the struct at the call, and the registers the user's code left.

Between executions a client may set one register (`set_common_registers`):
rip back to the start of the code, which then runs again or from there, or rsp,
as long as there is room.

### SwitchArm64

The variables are those of `SwitchX64` with `shadow`, the copy that
`start_operation` takes of the struct, and `program` and `cached`, see below.
`STP` and `LDP` of pairs of registers are sequences of pairs (`HostPairs`,
`EnvPairs`, `LoadPairs`, `CallPairs`) in the order of the instructions; `Stored` and
`Loaded` say what a run of them does.  `execute_asm`, `pre_execute` and
`exit_instructions` enter and leave the user's code; `restore_execution`,
`switch_stacks` and `after_call` are the way back, the second being the part that
runs on the host's stack; `finish_operation` is the C++ behind it.

`Copied` is `memcpy`, in bytes over words: the copy is of 34 bytes, so the shadow
holds X0 to X3 and the low 16 bits of X4, and zero elsewhere.  The block is
entered at its start, whatever PC holds, because the address comes from the
operand `code` and the struct's PC is not used; a second `execute` runs the program
again.  The process is `lost` where it would branch or load registers through an
address that is none.  `SwitchCompletes` says that a switch completes or is lost;
there are three ways to be lost: the moves destroyed an operand, a program of
another size came from the instruction cache, or the environment's SP could not be
used.  The last is ruled out by the assumption that the user's code leaves SP
aligned and with room (`Usable`) or outside the stack, where `execute` refuses it.

`set_common_registers` has the bound of the code, a 32-bit 1 shifted by 35
(disagreement 5), so a client can set X0 to X2 at best, and neither SP nor PC.

Two things that the source leaves open are choices:

* The inline assembly (`usermode_arm64_executor.cpp:99`) has three input
  operands in registers and moves them to X0, X1 and X2 one after the other, but
  names no register it writes.  The compiler may give it X1 for the first and X0
  for the second, and the first move then destroys an operand.  `Operands` are the
  allocations considered, each to three different registers, as a compiler
  allocates inputs; `OperandsArrive` says of the step that moves them which
  allocations work.  It does not say that the compiler chooses one of these: the
  hazard does happen in the model, and ends in `lost`.
* Nothing invalidates the instruction cache when the code block is rewritten
  (`:202`).  `pre_execute` fetches the program in memory or the one that ran
  before.  An old program of another size looks for the two patched words in
  the wrong place (`exit_astray`).

`ImplementsRuns` is a weak promise.  It permits a stale program of the same size,
and it permits a second `execute` to run the program again.  What it excludes is a
run that leaves PC elsewhere than behind the prepared code, that is visible half
done, or that changes the host.

### ExecutorMemory

Pages of 4KB are numbers, 0 is the null address.  mmap may place pages wherever
they are unused or refuse; munmap refuses an empty range and otherwise unmaps
whatever is there, so unmapping a wrong range shows in `mapped` or `foreign`.
`allocate_room_for` takes one step per mmap; the page-size decision is `Chunk`,
the rounding `PagesFor`.  `allocate_at` is the end of the block throughout and is
therefore `End(Current)`.  The two mmap attempts of `allocate_page` (with and
without the huge-page flag) have the same outcomes and are one choice.  A throw
goes to the handler `catch`.  munmap is assumed to succeed on a nonempty range
the executor has mapped; where it fails inside a handler of a `noexcept`
function the process would end.

`EnvironmentMemory` sees fewer steps.  The pages of a module belong to the
environment (`access`) once the module is recorded, all at once; a load that fails
on any page leaves no trace.  The code block may grow page by page and keep what
it has gained when a later page is refused, but it only grows, at its end, and
stays where it is.

The handling is the same in `ARM64_Executor`, where `InsertedSize` is the size of
the exit instructions and of the one instruction in front of the user's code.

### RegisterFile

A struct has `Words` words and is followed by one word of another object, so a
copy outside the struct is visible.  The bound is computed as in the code: 1 of
width 32 or 64 shifted by `COMMON_REGISTERS_LENGTH + 1`; where the shift is longer
than the type, the result is a choice between what compilers and processors
make of it.  On x86_64 `COMMON_REGISTERS_LENGTH` is 23 while the struct has 24 words
(cs to gs are six), so the bound that is one too large happens to be right.

### Output

`Output` extends `RegisterFile`: a print of registers is a read with a mask,
then a loop that shifts the mask and counts the index, and for each bit a call
of `print_in_hex` with the eight bytes of the value, backwards.  Text is a
sequence of character codes.  `ReadsAs` is the reference, a reader of hexadecimal
text that knows nothing of how it was written: it looks only at the digits, and
a digit with `n` digits before it is a half of byte `n \div 2`.  Names, colours and
messages are left out.

The branch of the separator for reversed arrays compares a remainder modulo 16
with 16 and so never breaks the line.  The program prints only the eight bytes
of a value backwards, so no line of its own gets too long and `TextReadsBack`,
which speaks of the program, holds with its limit of sixteen bytes to a line.  A
longer reversed array would not be broken.  `HexSpec` is one call of `print_in_hex`
by itself with any array in either direction, and `HexReadsBack` says what holds of
it: the text reads back, the limit holds forwards, and backwards there is no line
break.  It has no run; it is proved (`AnyArrayReadsBack`).

### KeystoneAssembler

`init` is described by the states in which it can reach its `cleanup` label
(`Attempt`) and by what the cleanup does with them.  The client assembles only
while it holds an engine, because keystone dereferences the pointer, and frees
only what it got, or a null pointer, which `free` refuses.  A second `init` while initialised closes the engine (line 145
jumps to the same cleanup), which the module allows and the properties cover.

### Shell

Assembler state and operations come from `INSTANCE KeystoneAssembler`.  The
executor is seen as in `ContextSwitch`: registers, size of the prepared code and
mask.  `target` is the architecture of the build, which decides the syntax that
`main` asks for (`Dialect`; none in the ARM64 build, for which the assembler
chooses) and for which registers the mask compares with the value before the run
(`Watched`: all on x86_64, the first on ARM64, where the others are compared with
zero).  `prepare_execute` and `execute` may fail the way the code can; the user's
code may also end the process (`execute_kills`).  Input lines are abstract.
`main` looks only at the size of the string that `getline` fills.  An empty line and
the end of input behind a newline leave it empty and end the loop (`empty_line`).
When the last line has no newline, the next `getline` fails before it erases the
string, and `main` takes the same line again, and so on for ever; `ended` records
that such a line was read, `repeat_line` takes it again.  The bytes printed
are those of `Output`.  The length passed in `assembly.size` is left out (it
excludes the terminator that `common.h:22` asks for; keystone does not read it).

## Checks

| Run | Result | What it shows |
|---|---|---|
| `SwitchX64.cfg` | pass, 307 346 states | `HostRestored`, `EnvironmentSaved`, `ReportExact`, `ReExecuteIsNoOp`, `FramesKept`; the switch implements `ContextSwitch`; a switch that is entered completes |
| `SwitchArm64.cfg` | pass, 419 313 states | the same for ARM64, with `EnvironmentLoaded` for the way in, `LowReportExact` for the registers whose copy is whole, and `OperandsArrive` for which operand allocations survive the moves; a switch that is entered completes or is lost; it implements `ContextSwitch!RunsSpec` |
| `SwitchArm64Report.cfg` | violation | the mask names registers that did not change |
| `ExecutorMemory.cfg` | pass, 381 727 states | no leak, hole, overlap or foreign unmap under any placement or refusal; the program fits; every operation is atomic to a client |
| `ExecutorMemoryDestroy.cfg` | violation | loaded modules survive the destructor |
| `Output.cfg` | pass, 65 772 states | registers are kept apart and masks bounded, text reads back, each register of a mask is printed once |
| `RegisterFileArm64Bound.cfg` | violation | bit 34 is accepted on ARM64 |
| `RegisterFileArm64Set.cfg` | violation | set refuses named registers on ARM64 |
| `KeystoneAssembler.cfg` | pass, 702 states | engine accounting, init's answer, syntax in force |
| `Shell.cfg` | pass, 79 022 states | buffers, engine, printed registers, every line answered; the executor is used as `ContextSwitch` specifies |
| `ShellStaleMask.cfg` | violation | a refused execute leaves the previous mask |
| `ShellLeak.cfg` | violation | opcodes of a line that cannot be prepared are not freed |

Every property of a passing run has a mutant of the code, listed in
`PROJECT.json`, that it catches.  Mutated forms stand in front of the definition
they change, with the mutation in their name.

### Disagreements found

1. *Modules are never freed* (`usermode_x86_64_executor.cpp:38`, ARM64 `:40`).
   The list starts with ten empty ranges; `free_page` throws on the first.
2. *Stale mask* (`:231`).  A refused `execute` does not set the mask to zero as
   `executor.h:214` says, and `main` prints registers of an earlier line.
3. *Leaked opcodes* (`main.cpp:230`), against `assembler.h:34`.
4. *Mask bound on ARM64* (`usermode_arm64_executor.cpp:274`): one too large.
5. *Undefined shift on ARM64* (`:305`): `set_common_registers` refuses named
   registers.
6. *Bytes for words on ARM64* (`usermode_arm64_executor.cpp:95`).  The shadow
   copy is of 34 bytes of 34 registers, so from X4 on registers are reported
   because they are not zero, not because they changed (`executor.h:214`).

Four more observations have no run of their own, because no document says
otherwise; the model contains them.  On ARM64: operands that a compiler may place
where a move overwrites them, an instruction cache that is not invalidated, and
a code block that is entered at its start, so that a second `execute` runs the
program again.  In `main`: a last line without a newline that is executed for ever.

### Bounds

* `SwitchX64`: two user effects per behaviour (`MaxWrites`), one value to write,
  two program sizes, stacks of 33 and 10 words.  All registers start with
  different values, so any exchange is visible without more values; two effects
  allow a write to a register and a move of the stack in one run, or one in each
  of two runs.  The client's settings of registers count as effects.  The number
  of runs is not bounded.  The theorems hold without these bounds.
* `SwitchArm64`: also two effects; three programs, two of one size and one of
  another, so that a stale cache is met with and without the same exit
  instructions; four operand allocations, one that works and one for each of the
  three ways not to; settings of X2, which is accepted, and of X3 and SP, which are
  refused; user code that leaves SP at a usable place of its stack, or above it,
  where `execute` refuses it.  X4 starts with more than 16 bits, so the partial copy
  of it differs from the whole.
* `ExecutorMemory`: nine pages of four bytes, a medium page of two pages and a
  large one of four; two modules, one foreign page.  The sizes cover code that
  fits, code of which only the inserted bytes do not fit, code that needs two
  more pages; empty modules, modules of a medium page and a small one and of a
  large page and a small one, so that a load can fail after its first page.
* `RegisterFile` and `Output`: the real lengths; masks on both sides of every
  boundary; encodings of 2, 15, 16, 17 and 33 bytes, which end before, at and
  behind a line break; no two registers have the same bytes.
* `KeystoneAssembler`: two engines, two buffers, one supported architecture.
* `Shell`: one general register besides rsp and rip, one refused value of rsp,
  two buffers, so that one can be lost and another be in use; both builds.

`ExecutorMemory`, `Shell` and `SwitchArm64` run with `CHECK_DEADLOCK FALSE` because
a destroyed executor and an ended or lost process do nothing more.

### Fairness

`SwitchX64` assumes weak fairness of the switch's own steps: the processor does
not stop between two instructions.  `SwitchArm64` assumes it of the way in (`Enter`)
and the way out (`Leave`) for the same reason.  `Shell` assumes it of `main`'s steps,
`repeat_line` among them, since no user is needed for it.
None assumes that the user's code ends or that the user enters a line, so
`SwitchCompletes` and `LineAnswered` say nothing of the time spent there.

## Proofs

Each proof module proves its invariants from the assumptions its component
names, so for stacks, pages, registers, masks and sets of any size.

### The x86_64 switch

`SwitchX64Proofs` assumes `MemAssumption`, `CodeAssumption` and `StartAssumption`:

| Theorem | Property |
|---|---|
| `TypeCorrect` | `[]TypeOK` |
| `HostIsRestored` | `[]HostRestored` |
| `EnvironmentIsSaved` | `[]EnvironmentSaved` |
| `ReportIsExact` | `ReportExact` |
| `ReExecuteChangesNothing` | `ReExecuteIsNoOp` |
| `FramesAreKept` | `FramesKept` |
| `Refinement` | `ImplementsContextSwitch` |
| `NeverStuck` | `[]Ready`: the guards of the switch's own steps hold |
| `WayBackIsBounded` | each step of `Leave` takes one from `Remaining`, which is at most 23 |

The assumptions say that the two stacks are disjoint, that the host's has thirty
words below its pointer, that the environment's has five below its top, that
the program and the exit instructions fit the code block (which
`ExecutorMemory!ProgramFits` establishes), and that `init` has set rip and rsp.

The properties are not inductive: that `r13` is right at the end depends on the
slot it was pushed to fifteen steps earlier.  The invariant `IInv` therefore has
one conjunct per label, saying where each value is: `HostSaved` for the host's
frame, `Saving(n)` for the loops.  `Saving(n)` is the invariant of all three
loops: registers above `n` are in the struct, their change bits are in the mask
at `bit - n`, and registers up to `n` are at `EnvSlot(i)` on one of the two
stacks.  One iteration takes `Saving(n)` to `Saving(n - 1)` (`SaveStep`), whichever
loop it belongs to; the step over rsp only shifts the mask (`SkipStep`).  There is
one lemma per action, `NextStep` joins them, and `Inductive` gives `[]IInv`.  The
action properties and the refinement follow from `IInv` and the shape of the one
step concerned.  The refinement shows the caller its registers as they were at
the call until `finish_operation`, which maps to `Execute`; every other step
stutters or is `Prepare`.

The last two theorems are what can be proved of `SwitchCompletes`.  `Ready` collects
the guards that stand for a `ret` or a pointer that is followed, so a label is
never left behind with its step disabled; `Remaining` counts the steps to
`start_operation`, so that they cannot go on for ever either.  That the processor
takes them is the fairness TLC assumes.

### The ARM64 switch

`SwitchArm64Proofs` assumes what the x86_64 proofs do of stacks and code, here with
thirty-four words for the host's frame, and that the compiler puts the three
operands in different registers.  Nothing is assumed of which registers these
are, of the programs, or of the instruction cache.

| Theorem | Property |
|---|---|
| `TypeCorrect` | `[]TypeOK` |
| `HostIsRestored` | `[]HostRestored` |
| `EnvironmentIsSaved` | `[]EnvironmentSaved` |
| `NeverStuck` | `[]Ready` |
| `EnvironmentIsLoaded` | `EnvironmentLoaded` |
| `LowReportIsExact` | `LowReportExact` |
| `OperandsDoArrive` | `OperandsArrive` |
| `FramesAreKept` | `FramesKept` |
| `Refinement` | `ImplementsRuns` |

The invariant `IInv` again has one conjunct per label.  What is new is that
registers are stored and loaded in pairs, by sequences of pairs that need not be
each other's reverse.  `StoredPair`, `StoredElsewhere` and `LoadedWord` say of any
sequence which word a register goes to and comes from; `HostPairsFact` and
`LoadPairsFact` give the position of each register in the two sequences, and
`HostStore` and `EnvStore` join them: a frame of pairs is on its own stack, below
every live word.  The operands matter only at two labels.  If the moves destroy
one, the process is `lost` and the conjuncts of later labels do not apply; if not,
three registers hold what `execute_asm` needs and every other one is still the
host's.  `OperandsDoArrive` needs the assumption on distinct registers: two
operands in one register could not both arrive.  `EnvironmentLoaded` and
`LowReportExact` speak of one step each and follow from the conjunct of its label.

### The executor's memory

`ExecutorMemoryProofs` proves `TypeOK`, `Accounted`, `Disjoint`, `CopyFits`,
`ProgramFits`, `ForeignKept` and `MemoryAsPromised`.  None of them is inductive: a
page that is unmapped by a failed load must not be one of another block, which
`Accounted` alone does not tell.  The invariant numbers the blocks (code, stack,
modules, the block being loaded), calls the pages of block `k` `Extent[k]`, and
says that those not yet freed partition `mapped` and avoid `foreign`
(`Partitioned`).  Growing a block, adding one and freeing the first one are three
lemmas about partitions in general.  `Progress` ties the label to which blocks
there are, `Enough` says that what a block has and what is still to come is the
room that was asked for; `ProgramFits` needs it because the copy is made only at
the end.  For the refinement each step maps to one operation or a stutter: a
page for a module is a stutter, `keep_module` is `Load`, a page for the code is
`GrowCode`.

### Registers and output

`OutputProofs` proves `TypeOK` and `EachToItsOwn` for every instance, and
`NeighboursKept` and `PrintsInside` for those with `BoundFits`: the bit that the
bound sets is not one of the struct's, and the shift is shorter than the type.
The x86_64 executor satisfies it (24 words, 32 bits, shift by 24), ARM64 does not,
which is disagreements 4 and 5.  `Looping` is the invariant of the loop of
`print_registers`: a bit `b` left in the mask stands for register `b + index`.
`NamedAreAccepted` is the positive side of disagreement 5: where every named
register is below the bound and the shift fits its type (`NamesFit`),
`SetAcceptsNamed` holds.

`OutputTextProofs` proves `TextReadsBack` and `RegistersPrinted`, also for instances
with `BoundFits`, for opcodes of any length and any values of the registers, and
`HexReadsBack` for arrays of any length in both directions.  A reader counts digits,
the code appends characters, and no step of either shows that they agree; the
invariant `Layout` therefore gives the place of every digit in closed form
(`Place`: two digits a byte, a separator after every second, one character more
after every sixteenth), and says that everything else in the text is no digit and
where the line breaks are.  `Appended` says what one round of the loop adds,
`DigitsStep`, `NothingStep`, `BreaksStep` and `OthersStep` that the layout survives it.
`Counted` turns the layout into the count a reader makes: the `m`-th place is a
bijection between `0 .. m - 1` and the digits before it, so there are `m` of them
(`Rank`).  The digits of a line are the image of 32 numbers (`Lines`).  Nothing of
this depends on the direction but the limit on a line, which backwards needs
`OneLine`: what `main` prints backwards is at most sixteen bytes.  `OneLine` is an
invariant of the program (`OneLineStep`), not of `HexSpec`, so `AnyArrayReadsBack`
does without it and claims no limit there.
`RegistersInv` keeps that the registers asked for are those printed and those left
in the mask, that the printed ones increase, and that each has its value, which
no other client can change while the loop runs.

### The assembler

`KeystoneAssemblerProofs` proves `EngineAccounted`, `SyntaxInForce` and
`InitTruthful`.  The two invariants are inductive together with the types;
`AttemptShape` lists the states in which `init` can reach its cleanup.

### The shell

`ShellProofs` proves `TypeOK`, `OpcodesLive`, `PreparedAreFreed`, `EngineHeld`,
`PrintsTheChanges` and `ExecutorAsPromised`.  `EngineInv`, `BufferInv` and `LineInv`
say for each label which engine is open, which buffers are allocated and what
the current line has done.  `PrintsTheChanges` relates the registers at the end of
a line to those at its start and needs `LineInv` to carry the latter through
`prepare_execute`, which changes IP.

### Only model-checked

* `SwitchCompletes`, of both switches, and `LineAnswered`: liveness is out of the
  prover's reach.  Of the former `NeverStuck` and `WayBackIsBounded` prove the parts
  that are safety.
* `RegisterFile` and `Output` in instances that do not meet `BoundFits`, where TLC
  finds two of the properties violated; `TypeOK` and `EachToItsOwn` are proved for
  those too.

## Not modelled

* The compiler's part in the inline assembly beyond operand registers.  On
  x86_64 `start_operation` declares rax and rbx as clobbered but not memory, and does
  not account for the red zone: in an unoptimised build its locals lie below
  rsp, where `start_execute` pushes; the one that is read afterwards survives
  because it is overwritten with rdi, which still holds the same value.  On ARM64
  no memory clobber is declared either.
* An rsp with less than five words of room on x86_64, which `execute` accepts and
  the process does not survive (`HasRoom`).  On ARM64 the corresponding assumption
  on the user's code is `Usable`; were it not met, the process would be `lost`.
* Floating-point and vector registers: x87, xmm and MXCSR on x86_64, V0 to V31,
  FPCR and FPSR on ARM64.  Neither switch saves or restores them, although V8 to V15
  (their low halves), FPCR, MXCSR and the x87 control word are a callee's to keep,
  so user code that writes them changes what the host holds there.  `HostRestored`
  speaks of the registers of `common_registers_t` only.
* The granularity of the instruction cache: a program is fetched whole, from the
  cache or from memory, though lines of both could be mixed.
* Segment registers, the single flags, and the widths of registers: words stand
  for values, and only the shadow copy looks at a part of one.
* Faults, signals and endless loops in the user's code, except that a process
  may end.
* `get_stack` and `get_code_start_address`, which return members; the two checks
  in `common.h`, which nothing calls; build files and CI.

## Plan

1. Done: all components of the table but the last are modelled and checked;
   `EnvironmentMemory` and `ContextSwitch` are implemented; every safety property
   of a passing run is proved.
2. Next: the safety half of `LineAnswered`, as `NeverStuck` is that of
   `SwitchCompletes`: that `main` can go on at each label and answers a line in a
   bounded number of steps.  A weaker bound than `BoundFits` under which
   `TextReadsBack` holds on ARM64 too.
