--------------------------- MODULE ExecutorMemory ---------------------------
(***************************************************************************)
(* The memory of a user-mode executor: the code block, the stack block and *)
(* the loaded modules that init, prepare_execute and                       *)
(* load_static_module_to_memory obtain with mmap, and that the destructor  *)
(* gives back.  X86_64_Executor and ARM64_Executor have the same code      *)
(* here; they differ in InsertedSize.                                      *)
(*                                                                         *)
(* Memory is counted in pages of 4KB, page 0 being the null address, and   *)
(* the sizes a caller passes in bytes.  The loop of allocate_room_for      *)
(* takes one step per page it asks for, and every throw is a step to the   *)
(* handler "catch".                                                        *)
(***************************************************************************)
EXTENDS Integers, Sequences, FiniteSets

CONSTANTS
  Page,         \* pages the kernel may hand out
  PageSize,     \* PAGE_4KB_SIZE
  Medium,       \* PAGE_2MB_SIZE, in pages
  Large,        \* PAGE_1GB_SIZE, in pages
  InsertedSize, \* bytes prepare_execute adds to the user's code
  OpcodeSizes,  \* sizes of the user's code
  ModuleSizes,  \* sizes of modules to load
  MaxModules,   \* bound: modules loaded in one behaviour
  MaxForeign    \* bound: pages the rest of the process maps

ASSUME PageAssumption ==
  /\ Page \subseteq Nat \ {0} /\ IsFiniteSet(Page)
  /\ PageSize \in Nat \ {0}
  /\ Medium \in Nat \ {0} /\ Large \in Nat \ {0}
ASSUME SizeAssumption ==
  /\ InsertedSize \in Nat
  /\ OpcodeSizes \subseteq Nat \ {0}
  /\ ModuleSizes \subseteq Nat
  /\ MaxModules \in Nat /\ MaxForeign \in Nat

VARIABLES
  pc,      \* where the executor is
  mapped,  \* pages mapped by the executor
  foreign, \* pages mapped by the rest of the process
  code,    \* m_environment_code
  stack,   \* m_environment_stack
  pages,   \* m_environment_pages
  room,    \* allocation_space, the block of the module being loaded
  loading, \* is load_static_module_to_memory the operation in progress?
  request, \* the size passed to the operation, in bytes
  todo,    \* size_to_allocate of allocate_room_for, in pages
  offset,  \* m_inserted_code_offset / m_execution_code_size
  freed    \* blocks the destructor has freed

blocks == <<code, stack, pages, room>>
call == <<loading, request>>
vars == <<pc, mapped, foreign, blocks, call, todo, offset, freed>>

NoBlock == [base |-> 0, size |-> 0]
PagesOf(b) == b.base .. (b.base + b.size - 1)
End(b) == b.base + b.size

INITIAL_PAGES_HOLDERS_COUNT == 10

(* The alignment at the start of allocate_room_for.                        *)
PagesFor_Down(bytes) == bytes \div PageSize
PagesFor(bytes) == (bytes + PageSize - 1) \div PageSize

Init ==
  /\ pc = "constructed"
  /\ mapped = {} /\ foreign = {}
  /\ code = NoBlock /\ stack = NoBlock /\ room = NoBlock
  /\ pages = [i \in 1 .. INITIAL_PAGES_HOLDERS_COUNT |-> NoBlock]
  /\ loading = FALSE /\ request = 0
  /\ todo = 0 /\ offset = 0 /\ freed = 0

-----------------------------------------------------------------------------
(* allocate_page: the address is a hint, so the kernel may place the pages *)
(* wherever n of them are unused; it may also refuse.                      *)
Places(n) ==
  {p \in Page : p .. (p + n - 1) \subseteq Page \ (mapped \cup foreign)}

(* free_page: munmap refuses an empty range, and otherwise unmaps whatever *)
(* is mapped there.                                                        *)
free_page(b) ==
  /\ mapped' = mapped \ PagesOf(b)
  /\ foreign' = foreign \ PagesOf(b)

(* External: other parts of the process map a page between two operations. *)
HostMaps(p) ==
  /\ pc = "ready" /\ Cardinality(foreign) < MaxForeign
  /\ p \in Places(1)
  /\ foreign' = foreign \cup {p}
  /\ UNCHANGED <<pc, mapped, blocks, call, todo, offset, freed>>

-----------------------------------------------------------------------------
init_code ==
  /\ pc = "constructed" /\ pc' = "init_stack"
  /\ \E p \in Places(1) :
       /\ code' = [base |-> p, size |-> 1]
       /\ mapped' = mapped \cup PagesOf(code')
  /\ UNCHANGED <<foreign, stack, pages, room, call, todo, offset, freed>>

init_stack ==
  /\ pc = "init_stack" /\ pc' = "ready"
  /\ \E p \in Places(Medium) :
       /\ stack' = [base |-> p, size |-> Medium]
       /\ mapped' = mapped \cup PagesOf(stack')
  /\ UNCHANGED <<foreign, code, pages, room, call, todo, offset, freed>>

(* init throws; main returns, which destroys the executor.                 *)
init_throws ==
  /\ pc \in {"constructed", "init_stack"} /\ pc' = "destroy"
  /\ UNCHANGED <<mapped, foreign, blocks, call, todo, offset, freed>>

-----------------------------------------------------------------------------
(* The start of allocate_room_for when n pages are missing.                *)
Allocate(n) == todo' = n /\ pc' = IF n = 0 THEN "copy" ELSE "extend"

(* Mutant: the offset recorded before room is asked for.                  *)
prepare_execute_EarlyOffset(n) ==
  /\ pc = "ready"
  /\ loading' = FALSE /\ request' = n /\ offset' = n
  /\ Allocate(IF n + InsertedSize > code.size * PageSize
              THEN PagesFor(n + InsertedSize - code.size * PageSize)
              ELSE 0)
  /\ UNCHANGED <<mapped, foreign, blocks, freed>>

(* prepare_execute with n bytes of code: asks for more room when they and  *)
(* the inserted instructions do not fit.                                   *)
prepare_execute(n) ==
  /\ pc = "ready"
  /\ loading' = FALSE /\ request' = n
  /\ Allocate(IF n + InsertedSize > code.size * PageSize
              THEN PagesFor(n + InsertedSize - code.size * PageSize)
              ELSE 0)
  /\ UNCHANGED <<mapped, foreign, blocks, offset, freed>>

load_static_module_to_memory(n) ==
  /\ pc = "ready"
  /\ Len(pages) < INITIAL_PAGES_HOLDERS_COUNT + MaxModules
  /\ loading' = TRUE /\ request' = n
  /\ room' = NoBlock
  /\ Allocate(PagesFor(n))
  /\ UNCHANGED <<mapped, foreign, code, stack, pages, offset, freed>>

(* The block allocate_room_for extends, and the size of the page it asks   *)
(* for next.                                                               *)
Current == IF loading THEN room ELSE code
SetCurrent(b) ==
  /\ room' = IF loading THEN b ELSE room
  /\ code' = IF loading THEN code ELSE b
Chunk_Greedy ==
  IF End(Current) % Large = 0 THEN Large
  ELSE IF End(Current) % Medium = 0 THEN Medium
  ELSE 1
Chunk ==
  IF End(Current) % Large = 0 /\ todo >= Large THEN Large
  ELSE IF End(Current) % Medium = 0 /\ todo >= Medium THEN Medium
  ELSE 1

(* Mutant: the address mmap returns is not compared with the hint.         *)
extend_Anywhere ==
  /\ pc = "extend"
  /\ \E p \in Places(Chunk) :
       /\ mapped' = mapped \cup (p .. (p + Chunk - 1))
       /\ SetCurrent([base |-> IF Current = NoBlock THEN p ELSE Current.base,
                      size |-> Current.size + Chunk])
  /\ Allocate(todo - Chunk)
  /\ UNCHANGED <<foreign, stack, pages, call, offset, freed>>

(* One iteration that obtains the page at the end of the block, or the     *)
(* first page of a new block anywhere.                                     *)
extend ==
  /\ pc = "extend"
  /\ \E p \in Places(Chunk) :
       /\ Current = NoBlock \/ p = End(Current)
       /\ mapped' = mapped \cup (p .. (p + Chunk - 1))
       /\ SetCurrent([base |-> IF Current = NoBlock THEN p ELSE Current.base,
                      size |-> Current.size + Chunk])
  /\ Allocate(todo - Chunk)
  /\ UNCHANGED <<foreign, stack, pages, call, offset, freed>>

(* Mutant: frees the address asked for, not the one obtained.              *)
misplaced_FreesHint ==
  /\ pc = "extend" /\ pc' = "catch"
  /\ Current # NoBlock
  /\ \E p \in Places(Chunk) \ {End(Current)} :
       LET hint == [base |-> End(Current), size |-> Chunk]
       IN /\ mapped' = (mapped \cup (p .. (p + Chunk - 1))) \ PagesOf(hint)
          /\ foreign' = foreign \ PagesOf(hint)
  /\ UNCHANGED <<blocks, call, todo, offset, freed>>

(* The kernel placed the page elsewhere: it is unmapped again, and         *)
(* allocate_room_for throws.                                               *)
misplaced ==
  /\ pc = "extend" /\ pc' = "catch"
  /\ Current # NoBlock
  /\ \E p \in Places(Chunk) \ {End(Current)} :
       LET got == [base |-> p, size |-> Chunk]
       IN /\ mapped' = (mapped \cup PagesOf(got)) \ PagesOf(got)
          /\ foreign' = foreign \ PagesOf(got)
  /\ UNCHANGED <<blocks, call, todo, offset, freed>>

(* allocate_page throws.                                                   *)
no_memory ==
  /\ pc = "extend" /\ pc' = "catch"
  /\ UNCHANGED <<mapped, foreign, blocks, call, todo, offset, freed>>

(* The two memcpys of prepare_execute.                                     *)
install_code ==
  /\ pc = "copy" /\ pc' = "ready"
  /\ ~loading
  /\ offset' = request
  /\ UNCHANGED <<mapped, foreign, blocks, call, todo, freed>>

(* The end of load_static_module_to_memory; push_back may throw.           *)
keep_module ==
  /\ pc = "copy" /\ loading
  /\ \/ pc' = "ready" /\ pages' = Append(pages, room) /\ room' = NoBlock
     \/ pc' = "catch" /\ UNCHANGED <<pages, room>>
  /\ UNCHANGED <<mapped, foreign, code, stack, call, todo, offset, freed>>

(* Mutant: the handler does not free the module's block.                   *)
catch_Forgets ==
  /\ pc = "catch" /\ pc' = "ready"
  /\ UNCHANGED <<mapped, foreign>>
  /\ room' = NoBlock
  /\ UNCHANGED <<code, stack, pages, call, todo, offset, freed>>

(* Mutant: frees the size asked for, not the size obtained.                *)
catch_FreesRequest ==
  /\ pc = "catch" /\ pc' = "ready"
  /\ IF loading /\ room.size # 0
     THEN free_page([base |-> room.base, size |-> PagesFor(request)])
     ELSE UNCHANGED <<mapped, foreign>>
  /\ room' = NoBlock
  /\ UNCHANGED <<code, stack, pages, call, todo, offset, freed>>

(* The handlers: a module's block is given back, the code block keeps what *)
(* it has gained.                                                          *)
catch ==
  /\ pc = "catch" /\ pc' = "ready"
  /\ IF loading /\ room.size # 0
     THEN free_page(room)
     ELSE UNCHANGED <<mapped, foreign>>
  /\ room' = NoBlock
  /\ UNCHANGED <<code, stack, pages, call, todo, offset, freed>>

-----------------------------------------------------------------------------
destroy ==
  /\ pc = "ready" /\ pc' = "destroy"
  /\ UNCHANGED <<mapped, foreign, blocks, call, todo, offset, freed>>

(* The order in which the destructor frees.                                *)
Owned == <<code, stack>> \o pages

free_next ==
  /\ pc = "destroy"
  /\ freed < Len(Owned) /\ Owned[freed + 1].size # 0
  /\ free_page(Owned[freed + 1])
  /\ freed' = freed + 1
  /\ UNCHANGED <<pc, blocks, call, todo, offset>>

(* The destructor ends after the last block, or at the first one that      *)
(* free_page refuses.                                                      *)
end_destroy ==
  /\ pc = "destroy" /\ pc' = "destroyed"
  /\ freed < Len(Owned) => Owned[freed + 1].size = 0
  /\ UNCHANGED <<mapped, foreign, blocks, call, todo, offset, freed>>

-----------------------------------------------------------------------------
Next ==
  \/ \E p \in Page : HostMaps(p)
  \/ init_code \/ init_stack \/ init_throws
  \/ \E n \in OpcodeSizes : prepare_execute(n)
  \/ \E n \in ModuleSizes : load_static_module_to_memory(n)
  \/ extend \/ misplaced \/ no_memory
  \/ install_code \/ keep_module \/ catch
  \/ destroy \/ free_next \/ end_destroy

Spec == Init /\ [][Next]_vars

-----------------------------------------------------------------------------
Block == [base : Nat, size : Nat]

(* Every variable has its type.                                            *)
TypeOK ==
  /\ pc \in {"constructed", "init_stack", "ready", "extend", "copy", "catch",
             "destroy", "destroyed"}
  /\ mapped \subseteq Page /\ foreign \subseteq Page
  /\ code \in Block /\ stack \in Block /\ room \in Block
  /\ pages \in Seq(Block)
  /\ loading \in BOOLEAN
  /\ request \in Nat /\ todo \in Nat /\ offset \in Nat /\ freed \in Nat

(* The blocks the executor still answers for.                              *)
Live == {Owned[i] : i \in (freed + 1) .. Len(Owned)} \cup {room}

(* The pages mapped are exactly those of the live blocks, whatever         *)
(* allocation failed halfway: nothing leaks and no block has a hole.       *)
Accounted == mapped = UNION {PagesOf(b) : b \in Live}

(* Two owned blocks never share a page, nor does one share a page with the *)
(* rest of the process: code that grows cannot run into the stack or into  *)
(* a module.                                                               *)
Disjoint ==
  LET all == Append(Owned, room)
  IN \A i \in (freed + 1) .. Len(all) :
       /\ PagesOf(all[i]) \cap foreign = {}
       /\ \A j \in DOMAIN all :
            i < j => PagesOf(all[i]) \cap PagesOf(all[j]) = {}

(* When an operation copies its bytes, they fit in the block it fills.     *)
CopyFits ==
  pc = "copy" =>
    request + (IF loading THEN 0 ELSE InsertedSize) <= Current.size * PageSize

(* The prepared program and the instructions inserted behind it, which     *)
(* start_operation patches, are inside the code block, also after a        *)
(* prepare_execute that failed.                                            *)
ProgramFits ==
  offset # 0 => offset + InsertedSize <= code.size * PageSize

(* No step unmaps a page of the rest of the process.                       *)
ForeignKept == [][foreign \subseteq foreign']_vars

(* What the member's comment promises: the pages recorded in               *)
(* m_environment_pages, and all others, are freed down the road.           *)
DestructorFreesAll == pc = "destroyed" => mapped = {}

-----------------------------------------------------------------------------
(* Seen by a client, allocation is atomic: a module that is being loaded   *)
(* does not show, so a load that fails half way changes nothing.           *)
Promised == INSTANCE EnvironmentMemory WITH
  modules <- SubSeq(pages, INITIAL_PAGES_HOLDERS_COUNT + 1, Len(pages)),
  access <- mapped \ PagesOf(room),
  alive <- pc \notin {"destroy", "destroyed"}

(* Every behaviour of the executor's memory is one of EnvironmentMemory.   *)
MemoryAsPromised == Promised!Spec

=============================================================================
