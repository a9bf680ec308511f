------------------------ MODULE ExecutorMemoryProofs ------------------------
(***************************************************************************)
(* Proofs about ExecutorMemory, for pages and requests of any size and any *)
(* number of modules.                                                      *)
(*                                                                         *)
(* The blocks an executor has are numbered: its code, its stack, the       *)
(* modules and the block of the module being loaded.  Extent[k] is the set *)
(* of pages of block k.  The heart of the invariant is that the blocks     *)
(* that have not been freed partition the mapped pages.                    *)
(***************************************************************************)
EXTENDS ExecutorMemory, TLAPS

Last == Len(pages) + 3

Extent ==
  [k \in 1 .. Last |->
     IF k = 1 THEN PagesOf(code)
     ELSE IF k = 2 THEN PagesOf(stack)
     ELSE IF k = Last THEN PagesOf(room)
     ELSE PagesOf(pages[k - 2])]

(* The sets c[n + 1] to c[z] partition m and avoid f.                      *)
Partition(c, n, z, m, f) ==
  /\ \A x : x \in m <=> \E k \in (n + 1) .. z : x \in c[k]
  /\ \A k \in (n + 1) .. z : \A x \in c[k] :
       /\ x \notin f
       /\ \A l \in (k + 1) .. z : x \notin c[l]

Partitioned == Partition(Extent, freed, Last, mapped, foreign)

(* What each label tells of the operation in progress.                     *)
Progress ==
  /\ pc \notin {"destroy", "destroyed"} => freed = 0
  /\ freed <= Len(pages) + 2
  /\ pc \notin {"extend", "copy", "catch"} \/ ~loading => room = NoBlock
  /\ pc = "constructed" => code = NoBlock
  /\ pc \in {"constructed", "init_stack"} => stack = NoBlock
  /\ pc = "extend" => todo > 0
  /\ pc \in {"init_stack", "ready", "extend", "copy", "catch"} => code # NoBlock
  /\ INITIAL_PAGES_HOLDERS_COUNT <= Len(pages)

(* The room a request asks for is what the block has and what is to come.  *)
Needed == request + (IF loading THEN 0 ELSE InsertedSize)
Enough ==
  /\ pc = "extend" => Needed <= (Current.size + todo) * PageSize
  /\ pc = "copy" => Needed <= Current.size * PageSize

IInv == TypeOK /\ Partitioned /\ Progress /\ Enough /\ ProgramFits

-----------------------------------------------------------------------------
(* A block takes pages that nobody has.                                    *)
LEMMA PartitionGrows ==
  ASSUME NEW c, NEW d, NEW n \in Nat, NEW z \in Nat, NEW m, NEW f, NEW more,
         Partition(c, n, z, m, f), more \cap (m \cup f) = {},
         NEW k \in (n + 1) .. z, d[k] = c[k] \cup more,
         \A l \in 1 .. z : l # k => d[l] = c[l]
  PROVE  Partition(d, n, z, m \cup more, f)
  <1>1. ASSUME NEW x
        PROVE  x \in m \cup more <=> \E l \in (n + 1) .. z : x \in d[l]
    BY DEF Partition
  <1>2. ASSUME NEW l \in (n + 1) .. z, NEW x \in d[l]
        PROVE  x \notin f /\ \A j \in (l + 1) .. z : x \notin d[j]
    BY DEF Partition
  <1> QED BY <1>1, <1>2 DEF Partition

(* A block gives all its pages back.                                       *)
LEMMA PartitionShrinks ==
  ASSUME NEW c, NEW d, NEW n \in Nat, NEW z \in Nat, NEW m, NEW f,
         Partition(c, n, z, m, f),
         NEW k \in (n + 1) .. z, d[k] = {},
         \A l \in 1 .. z : l # k => d[l] = c[l]
  PROVE  Partition(d, n, z, m \ c[k], f \ c[k]) /\ f \ c[k] = f
  <1>1. ASSUME NEW x
        PROVE  x \in m \ c[k] <=> \E l \in (n + 1) .. z : x \in d[l]
    BY DEF Partition
  <1>2. ASSUME NEW l \in (n + 1) .. z, NEW x \in d[l]
        PROVE  x \notin f /\ \A j \in (l + 1) .. z : x \notin d[j]
    BY DEF Partition
  <1>3. f \ c[k] = f
    BY DEF Partition
  <1> QED BY <1>1, <1>2, <1>3 DEF Partition

(* The first block is freed and no longer counted.                         *)
LEMMA PartitionDrops ==
  ASSUME NEW c, NEW n \in Nat, NEW z \in Nat, NEW m, NEW f,
         Partition(c, n, z, m, f), n < z, NEW k \in Nat, k = n + 1
  PROVE  Partition(c, k, z, m \ c[k], f \ c[k]) /\ f \ c[k] = f
  <1>1. ASSUME NEW x
        PROVE  x \in m \ c[k] <=> \E l \in (k + 1) .. z : x \in c[l]
    BY DEF Partition
  <1>2. ASSUME NEW l \in (k + 1) .. z, NEW x \in c[l]
        PROVE  x \notin f /\ \A j \in (l + 1) .. z : x \notin c[j]
    BY DEF Partition
  <1>3. f \ c[k] = f
    BY DEF Partition
  <1> QED BY <1>1, <1>2, <1>3 DEF Partition

(* An empty block is added.                                                *)
LEMMA PartitionExtends ==
  ASSUME NEW c, NEW d, NEW n \in Nat, NEW z \in Nat, NEW m, NEW f,
         Partition(c, n, z, m, f), d[z + 1] = {},
         \A l \in 1 .. z : d[l] = c[l]
  PROVE  Partition(d, n, z + 1, m, f)
  <1>1. ASSUME NEW x
        PROVE  x \in m <=> \E l \in (n + 1) .. (z + 1) : x \in d[l]
    BY DEF Partition
  <1>2. ASSUME NEW l \in (n + 1) .. (z + 1), NEW x \in d[l]
        PROVE  x \notin f /\ \A j \in (l + 1) .. (z + 1) : x \notin d[j]
    BY DEF Partition
  <1> QED BY <1>1, <1>2 DEF Partition

-----------------------------------------------------------------------------
(* Rounding up to pages gives enough room.                                 *)
LEMMA PagesForEnough ==
  ASSUME NEW n \in Nat
  PROVE  PagesFor(n) \in Nat /\ n <= PagesFor(n) * PageSize
  BY PageAssumption DEF PagesFor

(* More pages hold more bytes.                                             *)
LEMMA PagesMonotone ==
  ASSUME NEW a \in Nat, NEW b \in Nat, a <= b
  PROVE  a * PageSize <= b * PageSize
  BY PageAssumption

(* A request is rounded up by itself, or by what exceeds the old block.    *)
LEMMA PagesAdded ==
  ASSUME NEW n \in Nat, NEW s \in Nat, n > s * PageSize
  PROVE  /\ PagesFor(n - s * PageSize) \in Nat
         /\ n <= (s + PagesFor(n - s * PageSize)) * PageSize
  <1>1. s * PageSize \in Nat /\ n - s * PageSize \in Nat
    BY PageAssumption
  <1>2. /\ PagesFor(n - s * PageSize) \in Nat
        /\ n - s * PageSize <= PagesFor(n - s * PageSize) * PageSize
    BY <1>1, PagesForEnough
  <1> QED BY <1>1, <1>2, PageAssumption

(* A block that grows at its end, or anywhere when it is empty.            *)
LEMMA BlockGrows ==
  ASSUME NEW b \in Block, NEW p \in Nat, NEW n \in Nat \ {0},
         b = NoBlock \/ p = End(b),
         NEW c, c = [base |-> IF b = NoBlock THEN p ELSE b.base,
                     size |-> b.size + n]
  PROVE  c \in Block /\ PagesOf(c) = PagesOf(b) \cup (p .. (p + n - 1))
  BY DEF Block, PagesOf, End, NoBlock

LEMMA ChunkFits ==
  ASSUME TypeOK, todo > 0
  PROVE  Chunk \in Nat \ {0} /\ Chunk <= todo /\ todo - Chunk \in Nat
  BY PageAssumption DEF TypeOK, Chunk

LEMMA NoBlockIsEmpty == NoBlock \in Block /\ PagesOf(NoBlock) = {}
  BY DEF NoBlock, Block, PagesOf

(* What a place offers: pages of the kernel that nobody uses.              *)
LEMMA PlaceIsFree ==
  ASSUME TypeOK, NEW n \in Nat \ {0}, NEW p \in Places(n)
  PROVE  /\ p \in Nat /\ p .. (p + n - 1) \subseteq Page
         /\ (p .. (p + n - 1)) \cap (mapped \cup foreign) = {}
  BY PageAssumption DEF TypeOK, Places

-----------------------------------------------------------------------------
LEMMA InitHolds == Init => IInv
  <1> SUFFICES ASSUME Init PROVE IInv
    OBVIOUS
  <1>1. \A k \in 1 .. Last : Extent[k] = {}
    BY NoBlockIsEmpty
    DEF Init, Extent, Last, INITIAL_PAGES_HOLDERS_COUNT
  <1>2. pages \in Seq(Block) /\ Len(pages) = 10
    BY NoBlockIsEmpty DEF Init, INITIAL_PAGES_HOLDERS_COUNT
  <1>3. Partitioned
    BY <1>1 DEF Init, Partitioned, Partition
  <1>4. TypeOK
    BY <1>2, NoBlockIsEmpty DEF Init, TypeOK
  <1>5. Progress
    <2>1. /\ pc = "constructed" /\ freed = 0 /\ ~loading
          /\ code = NoBlock /\ stack = NoBlock /\ room = NoBlock
      BY DEF Init
    <2> QED BY <1>2, <2>1 DEF Progress, INITIAL_PAGES_HOLDERS_COUNT
  <1> QED BY <1>3, <1>4, <1>5 DEF Init, IInv, Enough, ProgramFits

(* The rest of the process takes a page that is free.                      *)
LEMMA HostMapsStep ==
  ASSUME IInv, NEW p \in Page, HostMaps(p)
  PROVE  IInv'
  <1>1. p \notin mapped /\ foreign' = foreign \cup {p} /\ p \in Page
    BY PageAssumption DEF HostMaps, Places
  <1>2. Extent' = Extent /\ Last' = Last
    BY DEF HostMaps, Extent, Last, blocks
  <1>3. Partitioned'
    BY <1>1, <1>2 DEF IInv, Partitioned, Partition, HostMaps
  <1>4. TypeOK' /\ Progress' /\ Enough' /\ ProgramFits'
    BY <1>1 DEF IInv, TypeOK, Progress, Enough, ProgramFits, Needed, Current,
                HostMaps, blocks, call
  <1> QED BY <1>3, <1>4 DEF IInv

LEMMA InitCodeStep ==
  ASSUME IInv, init_code
  PROVE  IInv'
  <1>1. PICK p \in Places(1) : /\ code' = [base |-> p, size |-> 1]
                               /\ mapped' = mapped \cup PagesOf(code')
    BY DEF init_code
  <1>2. /\ code' \in Block /\ PagesOf(code') \subseteq Page
        /\ PagesOf(code') \cap (mapped \cup foreign) = {}
    BY <1>1, PlaceIsFree DEF IInv, Block, PagesOf
  <1>3. code = NoBlock /\ freed = 0 /\ Last' = Last /\ Last \in Nat /\ Last >= 3
    BY DEF IInv, Progress, TypeOK, init_code, Last
  <1>4. Extent'[1] = Extent[1] \cup PagesOf(code')
    BY <1>3, NoBlockIsEmpty DEF Extent, PagesOf
  <1>5. \A l \in 1 .. Last : l # 1 => Extent'[l] = Extent[l]
    BY <1>3 DEF Extent, init_code, PagesOf
  <1>6. Partitioned'
    <2> DEFINE k == 1
    <2>1. Partition(Extent, 0, Last, mapped, foreign)
      BY <1>3 DEF IInv, Partitioned
    <2>2. /\ 0 \in Nat /\ Last \in Nat /\ k \in (0 + 1) .. Last
          /\ PagesOf(code') \cap (mapped \cup foreign) = {}
      BY <1>2, <1>3
    <2>3. /\ Extent'[k] = Extent[k] \cup PagesOf(code')
          /\ \A l \in 1 .. Last : l # k => Extent'[l] = Extent[l]
      BY <1>4, <1>5
    <2> HIDE DEF k
    <2>4. Partition(Extent', 0, Last, mapped \cup PagesOf(code'), foreign)
      BY <2>1, <2>2, <2>3, PartitionGrows
    <2> QED BY <1>1, <1>3, <2>4 DEF Partitioned, Partition, init_code
  <1>7. TypeOK' /\ Enough'
    BY <1>1, <1>2 DEF IInv, TypeOK, Enough, init_code, call
  <1>8. Progress'
    <2>1. code' # NoBlock
      BY <1>1 DEF NoBlock
    <2> QED BY <2>1 DEF IInv, Progress, init_code, call
  <1>9. ProgramFits'
    BY <1>1, <1>3, SizeAssumption, PageAssumption
    DEF IInv, TypeOK, ProgramFits, init_code, NoBlock
  <1> QED BY <1>6, <1>7, <1>8, <1>9 DEF IInv

LEMMA InitStackStep ==
  ASSUME IInv, init_stack
  PROVE  IInv'
  <1>1. PICK p \in Places(Medium) :
          /\ stack' = [base |-> p, size |-> Medium]
          /\ mapped' = mapped \cup PagesOf(stack')
    BY DEF init_stack
  <1>2. /\ stack' \in Block /\ PagesOf(stack') \subseteq Page
        /\ PagesOf(stack') \cap (mapped \cup foreign) = {}
    BY <1>1, PlaceIsFree, PageAssumption DEF IInv, Block, PagesOf
  <1>3. stack = NoBlock /\ freed = 0 /\ Last' = Last /\ Last \in Nat /\ Last >= 3
    BY DEF IInv, Progress, TypeOK, init_stack, Last
  <1>4. Extent'[2] = Extent[2] \cup PagesOf(stack')
    BY <1>3, NoBlockIsEmpty DEF Extent, PagesOf
  <1>5. \A l \in 1 .. Last : l # 2 => Extent'[l] = Extent[l]
    BY <1>3 DEF Extent, init_stack, PagesOf
  <1>6. Partitioned'
    <2> DEFINE k == 2
    <2>1. Partition(Extent, 0, Last, mapped, foreign)
      BY <1>3 DEF IInv, Partitioned
    <2>2. /\ 0 \in Nat /\ Last \in Nat /\ k \in (0 + 1) .. Last
          /\ PagesOf(stack') \cap (mapped \cup foreign) = {}
      BY <1>2, <1>3
    <2>3. /\ Extent'[k] = Extent[k] \cup PagesOf(stack')
          /\ \A l \in 1 .. Last : l # k => Extent'[l] = Extent[l]
      BY <1>4, <1>5
    <2> HIDE DEF k
    <2>4. Partition(Extent', 0, Last, mapped \cup PagesOf(stack'), foreign)
      BY <2>1, <2>2, <2>3, PartitionGrows
    <2> QED BY <1>1, <1>3, <2>4 DEF Partitioned, Partition, init_stack
  <1>7. TypeOK' /\ Progress' /\ Enough' /\ ProgramFits'
    BY <1>1, <1>2
    DEF IInv, TypeOK, Progress, Enough, ProgramFits, init_stack, call
  <1> QED BY <1>6, <1>7 DEF IInv

-----------------------------------------------------------------------------
(* Nothing that the partition speaks of changes.                           *)
LEMMA PartitionKept ==
  ASSUME IInv, UNCHANGED <<mapped, foreign, code, stack, pages, freed>>,
         PagesOf(room') = PagesOf(room)
  PROVE  Partitioned'
  <1>1. Extent' = Extent /\ Last' = Last
    BY DEF Extent, Last, PagesOf
  <1> QED BY <1>1 DEF IInv, Partitioned, Partition

LEMMA PrepareStep ==
  ASSUME IInv, NEW n \in OpcodeSizes, prepare_execute(n)
  PROVE  IInv'
  <1> DEFINE total == n + InsertedSize
             held == code.size * PageSize
  <1>1. n \in Nat /\ total \in Nat /\ held \in Nat /\ code.size \in Nat
    BY SizeAssumption, PageAssumption DEF IInv, TypeOK, Block
  <1>2. todo' \in Nat /\ total <= (code.size + todo') * PageSize
    <2>1. CASE total > held
      <3>1. n + InsertedSize - held = total - held
        BY <1>1, SizeAssumption
      <3>2. todo' = PagesFor(total - held)
        BY <2>1, <3>1 DEF prepare_execute, Allocate
      <3> HIDE DEF total
      <3> QED BY <1>1, <2>1, <3>2, PagesAdded
    <2>2. CASE ~(total > held)
      BY <1>1, <2>2 DEF prepare_execute, Allocate
    <2> QED BY <2>1, <2>2
  <1>3. room = NoBlock /\ freed = 0
    BY DEF IInv, Progress, prepare_execute
  <1>4. Partitioned'
    BY <1>3, PartitionKept DEF prepare_execute, blocks
  <1>5. TypeOK'
    BY <1>1, <1>2 DEF IInv, TypeOK, prepare_execute, Allocate, blocks
  <1>6. Progress'
    BY <1>2, <1>3 DEF IInv, Progress, prepare_execute, Allocate, blocks
  <1>7. Enough'
    BY <1>1, <1>2
    DEF Enough, Needed, Current, prepare_execute, Allocate, blocks
  <1>8. ProgramFits'
    BY DEF IInv, ProgramFits, prepare_execute, blocks
  <1> QED BY <1>4, <1>5, <1>6, <1>7, <1>8 DEF IInv

LEMMA LoadStep ==
  ASSUME IInv, NEW n \in ModuleSizes, load_static_module_to_memory(n)
  PROVE  IInv'
  <1>1. /\ n \in Nat /\ todo' \in Nat /\ n <= todo' * PageSize
        /\ room' = NoBlock /\ room = NoBlock /\ freed = 0
    BY SizeAssumption, PagesForEnough
    DEF load_static_module_to_memory, Allocate, IInv, Progress
  <1>2. Partitioned'
    BY <1>1, PartitionKept DEF load_static_module_to_memory
  <1>3. TypeOK'
    BY <1>1, NoBlockIsEmpty
    DEF IInv, TypeOK, load_static_module_to_memory, Allocate
  <1>4. Progress'
    BY <1>1 DEF IInv, Progress, load_static_module_to_memory, Allocate
  <1>5. Enough'
    BY <1>1 DEF Enough, Needed, Current, NoBlock,
                load_static_module_to_memory, Allocate
  <1>6. ProgramFits'
    BY DEF IInv, ProgramFits, load_static_module_to_memory
  <1> QED BY <1>2, <1>3, <1>4, <1>5, <1>6 DEF IInv

LEMMA ExtendStep ==
  ASSUME IInv, extend
  PROVE  IInv'
  <1> DEFINE k == IF loading THEN Last ELSE 1
  <1>1. PICK p \in Places(Chunk) :
          /\ Current = NoBlock \/ p = End(Current)
          /\ mapped' = mapped \cup (p .. (p + Chunk - 1))
          /\ SetCurrent([base |-> IF Current = NoBlock THEN p ELSE Current.base,
                         size |-> Current.size + Chunk])
    BY DEF extend
  <1> DEFINE new == p .. (p + Chunk - 1)
             now == IF loading THEN room' ELSE code'
  <1>2. /\ todo \in Nat /\ todo > 0 /\ freed = 0 /\ Current \in Block
        /\ Last' = Last /\ Last \in Nat /\ Last >= 3
    BY DEF IInv, TypeOK, Progress, extend, Current, Last
  <1>3. Chunk \in Nat \ {0} /\ Chunk <= todo /\ todo - Chunk \in Nat
    BY <1>2, ChunkFits DEF IInv
  <1>4. /\ p \in Nat /\ new \subseteq Page
        /\ new \cap (mapped \cup foreign) = {}
    BY <1>3, PlaceIsFree DEF IInv
  <1>5. now = [base |-> IF Current = NoBlock THEN p ELSE Current.base,
               size |-> Current.size + Chunk]
    BY <1>1 DEF SetCurrent
  <1>6. now \in Block /\ PagesOf(now) = PagesOf(Current) \cup new
    BY <1>1, <1>2, <1>3, <1>4, <1>5, BlockGrows
  <1>7. IF loading THEN code' = code ELSE room' = room
    BY <1>1 DEF SetCurrent
  <1>8. Partitioned'
    <2>1. Extent'[k] = Extent[k] \cup new
      BY <1>2, <1>6, <1>7 DEF Extent, Current, PagesOf
    <2>2. \A l \in 1 .. Last : l # k => Extent'[l] = Extent[l]
      BY <1>2, <1>7 DEF Extent, extend, PagesOf
    <2>3. Partition(Extent, 0, Last, mapped, foreign)
      BY <1>2 DEF IInv, Partitioned
    <2>4. 0 \in Nat /\ Last \in Nat /\ k \in (0 + 1) .. Last
      BY <1>2
    <2> HIDE DEF k, new, now
    <2>5. Partition(Extent', 0, Last, mapped \cup new, foreign)
      BY <1>4, <2>1, <2>2, <2>3, <2>4, PartitionGrows
    <2> QED BY <1>1, <1>2, <2>5 DEF Partitioned, Partition, extend, new
  <1>9. TypeOK'
    BY <1>1, <1>3, <1>4, <1>6, <1>7
    DEF IInv, TypeOK, extend, Allocate, call
  <1>10. Progress'
    <2>1. ~loading => code' # NoBlock
      BY <1>2, <1>3, <1>5 DEF NoBlock, Block
    <2>2. code # NoBlock => code' # NoBlock
      BY <1>7, <2>1
    <2> QED
      BY <1>2, <1>3, <1>7, <2>2 DEF IInv, Progress, extend, Allocate, call
  <1>11. Enough'
    <2>1. Current' = now /\ Current'.size = Current.size + Chunk
      BY <1>5 DEF Current, extend, call
    <2>2. Current'.size + todo' = Current.size + todo
      BY <1>2, <1>3, <2>1 DEF extend, Allocate, Block
    <2>3. Needed' = Needed /\ Needed <= (Current.size + todo) * PageSize
      BY DEF IInv, Enough, Needed, extend, call
    <2>4. pc' = "copy" => Current'.size = Current.size + todo
      BY <1>2, <1>3, <2>1 DEF extend, Allocate, Block
    <2> QED BY <2>2, <2>3, <2>4 DEF Enough, extend
  <1>12. ProgramFits'
    <2>1. code.size \in Nat /\ code'.size \in Nat /\ code.size <= code'.size
      BY <1>2, <1>3, <1>5, <1>6, <1>7 DEF IInv, TypeOK, Block, Current
    <2>2. code.size * PageSize <= code'.size * PageSize
      BY <2>1, PagesMonotone
    <2>3. code.size * PageSize \in Nat /\ code'.size * PageSize \in Nat
      BY <2>1, PageAssumption
    <2> QED
      BY <2>2, <2>3, SizeAssumption DEF IInv, TypeOK, ProgramFits, extend
  <1> QED BY <1>8, <1>9, <1>10, <1>11, <1>12 DEF IInv

(* The steps that change neither memory nor blocks.                        *)
LEMMA QuietStep ==
  ASSUME IInv,
         init_throws \/ no_memory \/ install_code \/ destroy \/ end_destroy
  PROVE  IInv' /\ foreign' = foreign
  <1>1. /\ UNCHANGED <<mapped, foreign, code, stack, pages, room>>
        /\ UNCHANGED <<loading, request, todo, freed>>
    BY DEF init_throws, no_memory, install_code, destroy, end_destroy, blocks,
           call
  <1>2. Partitioned'
    BY <1>1, PartitionKept
  <1>3. TypeOK'
    BY <1>1 DEF IInv, TypeOK, init_throws, no_memory, install_code, destroy,
                end_destroy
  <1>4. Progress'
    BY <1>1 DEF IInv, Progress, init_throws, no_memory, install_code, destroy,
                end_destroy
  <1>5. Enough'
    BY <1>1 DEF Enough, init_throws, no_memory, install_code, destroy,
                end_destroy
  <1>6. ProgramFits'
    <2>1. CASE install_code
      BY <1>1, <2>1
      DEF IInv, ProgramFits, Enough, Needed, Current, install_code
    <2>2. CASE init_throws \/ no_memory \/ destroy \/ end_destroy
      BY <1>1, <2>2
      DEF IInv, ProgramFits, init_throws, no_memory, destroy, end_destroy
    <2> QED BY <2>1, <2>2
  <1> QED BY <1>1, <1>2, <1>3, <1>4, <1>5, <1>6 DEF IInv

LEMMA MisplacedStep ==
  ASSUME IInv, misplaced
  PROVE  IInv' /\ foreign' = foreign
  <1>1. PICK p \in Places(Chunk) :
          LET got == [base |-> p, size |-> Chunk]
          IN /\ mapped' = (mapped \cup PagesOf(got)) \ PagesOf(got)
             /\ foreign' = foreign \ PagesOf(got)
    BY DEF misplaced
  <1>2. todo > 0 /\ Chunk \in Nat \ {0}
    BY ChunkFits DEF IInv, Progress, misplaced
  <1>3. (p .. (p + Chunk - 1)) \cap (mapped \cup foreign) = {}
    BY <1>2, PlaceIsFree DEF IInv
  <1>4. PagesOf([base |-> p, size |-> Chunk]) = p .. (p + Chunk - 1)
    BY DEF PagesOf
  <1>5. mapped' = mapped /\ foreign' = foreign
    BY <1>1, <1>3, <1>4
  <1>6. Partitioned'
    BY <1>5, PartitionKept DEF misplaced, blocks
  <1>7. TypeOK' /\ Progress' /\ Enough' /\ ProgramFits'
    BY <1>5 DEF IInv, TypeOK, Progress, Enough, ProgramFits, misplaced, blocks,
                call
  <1> QED BY <1>5, <1>6, <1>7 DEF IInv

LEMMA KeepModuleStep ==
  ASSUME IInv, keep_module
  PROVE  IInv'
  <1>1. /\ freed = 0 /\ room \in Block /\ pages \in Seq(Block)
        /\ Last \in Nat /\ Last >= 3
    BY DEF IInv, TypeOK, Progress, keep_module, Last
  <1>2. CASE pc' = "ready" /\ pages' = Append(pages, room) /\ room' = NoBlock
    <2>1. Last' = Last + 1 /\ pages' \in Seq(Block)
      BY <1>1, <1>2 DEF Last
    <2>2. Extent'[Last + 1] = {}
      BY <1>1, <1>2, <2>1, NoBlockIsEmpty DEF Extent, PagesOf
    <2>3. \A l \in 1 .. Last : Extent'[l] = Extent[l]
      BY <1>1, <1>2, <2>1 DEF Extent, keep_module, PagesOf, Last
    <2>4. Partition(Extent', 0, Last + 1, mapped, foreign)
      BY <1>1, <2>2, <2>3, PartitionExtends DEF IInv, Partitioned
    <2>5. Partitioned'
      BY <1>1, <2>1, <2>4 DEF Partitioned, Partition, keep_module
    <2>6. TypeOK' /\ Enough' /\ ProgramFits'
      BY <1>1, <1>2, <2>1, NoBlockIsEmpty
      DEF IInv, TypeOK, Enough, ProgramFits, keep_module, call
    <2>7. Len(pages') = Len(pages) + 1 /\ Len(pages) \in Nat
      BY <1>1, <1>2
    <2>8. Progress'
      BY <1>1, <1>2, <2>7
      DEF IInv, Progress, keep_module, call, INITIAL_PAGES_HOLDERS_COUNT
    <2> QED BY <2>5, <2>6, <2>8 DEF IInv
  <1>3. CASE pc' = "catch" /\ UNCHANGED <<pages, room>>
    <2>1. Partitioned'
      BY <1>3, PartitionKept DEF keep_module
    <2>2. TypeOK' /\ Progress' /\ Enough' /\ ProgramFits'
      BY <1>3 DEF IInv, TypeOK, Progress, Enough, ProgramFits, keep_module, call
    <2> QED BY <2>1, <2>2 DEF IInv
  <1> QED BY <1>2, <1>3 DEF keep_module

LEMMA CatchStep ==
  ASSUME IInv, catch
  PROVE  IInv' /\ foreign' = foreign
  <1>1. /\ freed = 0 /\ room \in Block /\ Last' = Last
        /\ Last \in Nat /\ Last >= 3
    BY DEF IInv, TypeOK, Progress, catch, Last
  <1>2. ~(loading /\ room.size # 0) => PagesOf(room) = {}
    BY <1>1, NoBlockIsEmpty DEF IInv, Progress, Block, PagesOf
  <1>3. mapped' = mapped \ PagesOf(room) /\ foreign' = foreign \ PagesOf(room)
    BY <1>2 DEF catch, free_page
  <1> DEFINE k == Last
  <1>4. Extent[k] = PagesOf(room)
    BY <1>1 DEF Extent
  <1>5. Extent'[k] = {}
    BY <1>1, NoBlockIsEmpty DEF Extent, catch, PagesOf
  <1>6. \A l \in 1 .. Last : l # k => Extent'[l] = Extent[l]
    BY <1>1 DEF Extent, catch, PagesOf
  <1>7. freed \in Nat /\ Last \in Nat /\ k \in (freed + 1) .. Last
    BY <1>1
  <1>8. Partition(Extent, freed, Last, mapped, foreign)
    BY DEF IInv, Partitioned
  <1> HIDE DEF k
  <1>9. /\ Partition(Extent', freed, Last, mapped \ Extent[k],
                     foreign \ Extent[k])
        /\ foreign \ Extent[k] = foreign
    BY ONLY <1>5, <1>6, <1>7, <1>8, PartitionShrinks
  <1>10. Partitioned'
    BY <1>1, <1>3, <1>4, <1>9 DEF Partitioned, Partition, catch
  <1>11. TypeOK' /\ Progress' /\ Enough' /\ ProgramFits'
    BY <1>3, NoBlockIsEmpty
    DEF IInv, TypeOK, Progress, Enough, ProgramFits, catch, call
  <1> QED BY <1>3, <1>4, <1>9, <1>10, <1>11 DEF IInv

(* The blocks as the destructor numbers them.                              *)
LEMMA OwnedExtent ==
  ASSUME TypeOK
  PROVE  /\ Len(Owned) = Len(pages) + 2
         /\ \A i \in 1 .. Len(Owned) : PagesOf(Owned[i]) = Extent[i]
  <1>1. pages \in Seq(Block) /\ Len(<<code, stack>>) = 2
    BY DEF TypeOK
  <1>2. Len(Owned) = Len(pages) + 2
    BY <1>1 DEF Owned
  <1>3. ASSUME NEW i \in 1 .. Len(Owned)
        PROVE  PagesOf(Owned[i]) = Extent[i]
    <2>1. Owned[i] = IF i <= 2 THEN <<code, stack>>[i] ELSE pages[i - 2]
      BY <1>1, <1>2, <1>3 DEF Owned
    <2> QED BY <1>1, <1>2, <2>1 DEF Extent, Last
  <1> QED BY <1>2, <1>3

LEMMA FreeNextStep ==
  ASSUME IInv, free_next
  PROVE  IInv' /\ foreign' = foreign
  <1> DEFINE k == freed + 1
  <1>1. /\ freed \in Nat /\ freed < Len(pages) + 2 /\ Len(pages) \in Nat
        /\ k \in Nat /\ PagesOf(Owned[k]) = Extent[k]
    BY OwnedExtent DEF IInv, TypeOK, free_next
  <1>2. Extent' = Extent /\ Last' = Last /\ Last \in Nat /\ freed < Last
    BY <1>1 DEF Extent, Last, free_next, blocks
  <1>3. /\ mapped' = mapped \ Extent[k] /\ foreign' = foreign \ Extent[k]
        /\ freed' = k
    BY <1>1 DEF free_next, free_page
  <1>4. /\ Partition(Extent, k, Last, mapped \ Extent[k], foreign \ Extent[k])
        /\ foreign \ Extent[k] = foreign
    <2>1. Partition(Extent, freed, Last, mapped, foreign)
      BY DEF IInv, Partitioned
    <2>2. k = freed + 1
      OBVIOUS
    <2> HIDE DEF k
    <2> QED BY ONLY <1>1, <1>2, <2>1, <2>2, PartitionDrops
  <1>5. Partitioned'
    BY <1>2, <1>3, <1>4 DEF Partitioned, Partition
  <1>6. TypeOK' /\ Progress' /\ Enough' /\ ProgramFits'
    BY <1>1, <1>3
    DEF IInv, TypeOK, Progress, Enough, ProgramFits, free_next, blocks, call
  <1> QED BY <1>3, <1>4, <1>5, <1>6 DEF IInv

-----------------------------------------------------------------------------
LEMMA NextStep == IInv /\ [Next]_vars => IInv'
  <1>1. IInv /\ UNCHANGED vars => IInv'
    BY PartitionKept
    DEF vars, blocks, call, IInv, TypeOK, Progress, Enough, Needed, Current,
        ProgramFits
  <1> QED
    BY <1>1, HostMapsStep, InitCodeStep, InitStackStep, QuietStep, PrepareStep,
       LoadStep, ExtendStep, MisplacedStep, KeepModuleStep, CatchStep,
       FreeNextStep
    DEF Next

(* The inductive invariant holds in every reachable state.                 *)
THEOREM MemoryInductive == Spec => []IInv
  BY InitHolds, NextStep, PTL DEF Spec

(* Every variable keeps its type.                                          *)
THEOREM MemoryTypeCorrect == Spec => []TypeOK
  <1>1. IInv => TypeOK
    BY DEF IInv
  <1> QED BY <1>1, MemoryInductive, PTL

(* Whatever the kernel refuses or misplaces, nothing leaks and no block    *)
(* has a hole.                                                             *)
THEOREM MemoryIsAccounted == Spec => []Accounted
  <1>1. ASSUME IInv PROVE Accounted
    <2>1. /\ Len(Owned) = Len(pages) + 2 /\ Len(pages) \in Nat
          /\ freed \in Nat /\ Last = Len(Owned) + 1
          /\ freed <= Len(pages) + 2
      BY <1>1, OwnedExtent DEF IInv, TypeOK, Progress, Last
    <2>2. Extent[Last] = PagesOf(room)
      BY <2>1 DEF Extent
    <2>3. \A k \in 1 .. Len(Owned) : Extent[k] = PagesOf(Owned[k])
      BY <1>1, OwnedExtent DEF IInv
    <2>4. ASSUME NEW x
          PROVE  x \in mapped <=> \E b \in Live : x \in PagesOf(b)
      <3>1. x \in mapped <=> \E k \in (freed + 1) .. Last : x \in Extent[k]
        BY <1>1 DEF IInv, Partitioned, Partition
      <3>2. (freed + 1) .. Last = ((freed + 1) .. Len(Owned)) \cup {Last}
        BY <2>1
      <3>3. x \in mapped <=>
              \/ \E k \in (freed + 1) .. Len(Owned) : x \in PagesOf(Owned[k])
              \/ x \in PagesOf(room)
        BY <2>1, <2>2, <2>3, <3>1, <3>2
      <3> QED BY <3>3, Zenon DEF Live
    <2> QED BY <2>4 DEF Accounted
  <1> QED BY <1>1, MemoryInductive, PTL

(* No block that is not yet freed shares a page with another or with the   *)
(* rest of the process.                                                    *)
THEOREM BlocksAreDisjoint == Spec => []Disjoint
  <1>1. ASSUME IInv PROVE Disjoint
    <2> DEFINE all == Append(Owned, room)
    <2>1. /\ Len(pages) \in Nat /\ freed \in Nat /\ Last = Len(Owned) + 1
          /\ Len(Owned) = Len(pages) + 2
      BY <1>1, OwnedExtent DEF IInv, TypeOK, Last
    <2>2. DOMAIN all = 1 .. Last /\ Len(all) = Last
      BY <1>1, <2>1 DEF IInv, TypeOK, Owned
    <2>3. \A k \in 1 .. Last :
            all[k] = IF k = Last THEN room ELSE Owned[k]
      BY <1>1, <2>1 DEF IInv, TypeOK, Owned
    <2>4. \A k \in 1 .. Last : PagesOf(all[k]) = Extent[k]
      <3>1. Extent[Last] = PagesOf(room)
        BY <2>1 DEF Extent
      <3>2. \A k \in 1 .. Len(Owned) : Extent[k] = PagesOf(Owned[k])
        BY <1>1, OwnedExtent DEF IInv
      <3> HIDE DEF all
      <3> QED BY <2>1, <2>3, <3>1, <3>2
    <2> HIDE DEF all
    <2>5. ASSUME NEW i \in (freed + 1) .. Len(all)
          PROVE  /\ PagesOf(all[i]) \cap foreign = {}
                 /\ \A j \in DOMAIN all :
                      i < j => PagesOf(all[i]) \cap PagesOf(all[j]) = {}
      BY <1>1, <2>1, <2>2, <2>4 DEF IInv, Partitioned, Partition
    <2> QED BY <2>5 DEF Disjoint, all
  <1> QED BY <1>1, MemoryInductive, PTL

(* What is copied fits in the block it is copied to.                       *)
THEOREM CopiesFit == Spec => []CopyFits
  <1>1. IInv => CopyFits
    BY DEF IInv, Enough, Needed, CopyFits
  <1> QED BY <1>1, MemoryInductive, PTL

(* The inserted instructions lie inside the code block, whatever fails.    *)
THEOREM ProgramAlwaysFits == Spec => []ProgramFits
  <1>1. IInv => ProgramFits
    BY DEF IInv
  <1> QED BY <1>1, MemoryInductive, PTL

(* No handler and no destructor unmaps a page of the rest of the process.  *)
THEOREM ForeignIsKept == Spec => ForeignKept
  <1>1. IInv /\ [Next]_vars => [foreign \subseteq foreign']_vars
    <2> SUFFICES ASSUME IInv, Next PROVE foreign \subseteq foreign'
      OBVIOUS
    <2>1. ASSUME NEW p \in Page, HostMaps(p) PROVE foreign \subseteq foreign'
      BY <2>1 DEF HostMaps
    <2>2. CASE init_code \/ init_stack \/ extend \/ keep_module
      BY <2>2 DEF init_code, init_stack, extend, keep_module
    <2>3. ASSUME NEW n \in OpcodeSizes, prepare_execute(n)
          PROVE  foreign \subseteq foreign'
      BY <2>3 DEF prepare_execute
    <2>4. ASSUME NEW n \in ModuleSizes, load_static_module_to_memory(n)
          PROVE  foreign \subseteq foreign'
      BY <2>4 DEF load_static_module_to_memory
    <2> QED
      BY <2>1, <2>2, <2>3, <2>4, QuietStep, MisplacedStep, CatchStep,
         FreeNextStep
      DEF Next
  <1> QED BY <1>1, MemoryInductive, PTL DEF Spec, ForeignKept

-----------------------------------------------------------------------------
(* The pages of a block that is being loaded are mapped, and no mapped page*)
(* is anybody else's.                                                      *)
LEMMA RoomIsOwn ==
  ASSUME IInv
  PROVE  /\ PagesOf(room) \subseteq mapped
         /\ mapped \cap foreign = {}
  <1> DEFINE k == Last
  <1>1. /\ k \in (freed + 1) .. Last /\ Extent[k] = PagesOf(room)
        /\ freed \in Nat /\ Last \in Nat
    BY DEF IInv, TypeOK, Progress, Last, Extent
  <1> HIDE DEF k
  <1> QED BY <1>1 DEF IInv, Partitioned, Partition

Modules == SubSeq(pages, INITIAL_PAGES_HOLDERS_COUNT + 1, Len(pages))

LEMMA PromisedInit == Init => Promised!Init
  <1> SUFFICES ASSUME Init PROVE Promised!Init
    OBVIOUS
  <1>1. Modules = <<>>
    <2>1. pages \in Seq({NoBlock}) /\ Len(pages) = 10
      BY DEF Init, INITIAL_PAGES_HOLDERS_COUNT
    <2> QED BY <2>1 DEF Modules, INITIAL_PAGES_HOLDERS_COUNT
  <1>2. Promised!NoBlock = NoBlock
    BY DEF Promised!NoBlock, NoBlock
  <1> QED BY <1>1, <1>2, NoBlockIsEmpty DEF Init, Promised!Init, Modules

(* Each step is one of EnvironmentMemory, or none.                         *)
LEMMA PromisedStep ==
  ASSUME IInv, Next
  PROVE  [Promised!Next]_(Promised!vars)
  <1> DEFINE access == mapped \ PagesOf(room)
             alive == pc \notin {"destroy", "destroyed"}
  <1>1. Promised!NoBlock = NoBlock /\ \A b : Promised!PagesOf(b) = PagesOf(b)
    BY DEF Promised!NoBlock, NoBlock, Promised!PagesOf, PagesOf
  <1>2. ASSUME NEW p \in Page, HostMaps(p)
        PROVE  Promised!Others /\ alive
    <2>1. p \in Nat /\ p \notin mapped /\ foreign' = foreign \cup {p}
      BY <1>2, PageAssumption DEF HostMaps, Places
    <2>2. foreign' \cap access = {}
      BY <2>1, RoomIsOwn
    <2> QED BY <1>2, <2>1, <2>2 DEF HostMaps, Promised!Others, blocks, PagesOf
  <1>3. CASE init_code
    <2>1. PICK p \in Places(1) : /\ code' = [base |-> p, size |-> 1]
                                 /\ mapped' = mapped \cup PagesOf(code')
      BY <1>3 DEF init_code
    <2>2. PagesOf(code') \cap (mapped \cup foreign) = {}
      BY <2>1, PlaceIsFree DEF IInv, PagesOf
    <2>3. code = NoBlock /\ PagesOf(room) = {}
      BY <1>3, NoBlockIsEmpty DEF IInv, Progress, init_code
    <2>4. Promised!ObtainCode /\ alive
      BY <1>1, <1>3, <2>1, <2>2, <2>3
      DEF Promised!ObtainCode, Promised!Gain, init_code
    <2> QED BY <2>4 DEF Promised!Next
  <1>4. CASE init_stack
    <2>1. PICK p \in Places(Medium) :
            /\ stack' = [base |-> p, size |-> Medium]
            /\ mapped' = mapped \cup PagesOf(stack')
      BY <1>4 DEF init_stack
    <2>2. PagesOf(stack') \cap (mapped \cup foreign) = {}
      BY <2>1, PlaceIsFree, PageAssumption DEF IInv, PagesOf
    <2>3. stack = NoBlock /\ PagesOf(room) = {}
      BY <1>4, NoBlockIsEmpty DEF IInv, Progress, init_stack
    <2>4. Promised!ObtainStack /\ alive
      BY <1>1, <1>4, <2>1, <2>2, <2>3
      DEF Promised!ObtainStack, Promised!Gain, init_stack
    <2> QED BY <2>4 DEF Promised!Next
  <1>5. CASE extend
    <2>1. PICK p \in Places(Chunk) :
            /\ Current = NoBlock \/ p = End(Current)
            /\ mapped' = mapped \cup (p .. (p + Chunk - 1))
            /\ SetCurrent([base |-> IF Current = NoBlock THEN p
                                    ELSE Current.base,
                           size |-> Current.size + Chunk])
      BY <1>5 DEF extend
    <2> DEFINE new == p .. (p + Chunk - 1)
               now == IF loading THEN room' ELSE code'
    <2>2. Chunk \in Nat \ {0} /\ Current \in Block
      BY <1>5, ChunkFits DEF IInv, TypeOK, Progress, extend, Current
    <2>3. p \in Nat /\ new \cap (mapped \cup foreign) = {}
      BY <2>2, PlaceIsFree DEF IInv
    <2>4. now = [base |-> IF Current = NoBlock THEN p ELSE Current.base,
                 size |-> Current.size + Chunk]
      BY <2>1 DEF SetCurrent
    <2>5. PagesOf(now) = PagesOf(Current) \cup new
      BY <2>1, <2>2, <2>3, <2>4, BlockGrows
    <2>6. CASE loading
      <3>1. /\ code' = code /\ mapped' = mapped \cup new
            /\ PagesOf(room') = PagesOf(room) \cup new
        BY <2>1, <2>5, <2>6 DEF SetCurrent, Current
      <3>2. mapped' \ PagesOf(room') = access
        BY <2>3, <3>1
      <3>3. alive' = alive
        BY <1>5 DEF extend, Allocate
      <3> QED
        BY <1>5, <3>1, <3>2, <3>3 DEF extend, Promised!vars
    <2>7. CASE ~loading
      <3>1. room' = room /\ room = NoBlock /\ code # NoBlock
        BY <1>5, <2>1, <2>7 DEF IInv, Progress, extend, SetCurrent
      <3>2. /\ code'.base = code.base /\ code'.size > code.size
            /\ PagesOf(code') = PagesOf(code) \cup new
        BY <2>2, <2>4, <2>5, <2>7, <3>1 DEF Current, Block
      <3>3. PagesOf(code) \subseteq mapped
        <4>1. /\ 1 \in (freed + 1) .. Last /\ Extent[1] = PagesOf(code)
              /\ freed \in Nat /\ Last \in Nat
          BY <1>5 DEF IInv, TypeOK, Progress, extend, Last, Extent
        <4> QED BY <4>1 DEF IInv, Partitioned, Partition
      <3>4. PagesOf(code') \ PagesOf(code) = new
        BY <2>3, <3>2, <3>3
      <3>5. access = mapped /\ mapped' \ PagesOf(room') = mapped \cup new
        BY <2>1, <3>1, NoBlockIsEmpty
      <3>6. Promised!GrowCode /\ alive
        BY <1>1, <1>5, <2>3, <3>2, <3>4, <3>5
        DEF extend, Allocate, Promised!GrowCode, Promised!Gain
      <3> QED BY <3>6 DEF Promised!Next
    <2> QED BY <2>6, <2>7
  <1>6. CASE keep_module
    <2>1. CASE pc' = "ready" /\ pages' = Append(pages, room) /\ room' = NoBlock
      <3>1. /\ pages \in Seq(Block) /\ room \in Block
            /\ Len(pages) \in Nat /\ 10 <= Len(pages)
        BY DEF IInv, TypeOK, Progress, INITIAL_PAGES_HOLDERS_COUNT
      <3>2. /\ Len(Modules') = Len(Modules) + 1
            /\ SubSeq(Modules', 1, Len(Modules)) = Modules
            /\ Modules'[Len(Modules')] = room
        BY <2>1, <3>1 DEF Modules, INITIAL_PAGES_HOLDERS_COUNT
      <3>3. /\ PagesOf(room) \cap (access \cup foreign) = {}
            /\ mapped' \ PagesOf(room') = access \cup PagesOf(room)
        BY <1>6, <2>1, RoomIsOwn, NoBlockIsEmpty DEF keep_module
      <3>4. Promised!Load /\ alive
        BY <1>1, <1>6, <2>1, <3>2, <3>3
        DEF keep_module, Promised!Load, Promised!Gain, Modules
      <3> QED BY <3>4 DEF Promised!Next
    <2>2. CASE pc' = "catch" /\ UNCHANGED <<pages, room>>
      BY <1>6, <2>2 DEF keep_module, Promised!vars, PagesOf
    <2> QED BY <1>6, <2>1, <2>2 DEF keep_module
  <1>7. CASE catch
    <2>1. room \in Block
      BY DEF IInv, TypeOK
    <2>2. ~(loading /\ room.size # 0) => PagesOf(room) = {}
      BY <1>7, <2>1, NoBlockIsEmpty DEF IInv, Progress, Block, PagesOf
    <2>3. mapped' \ PagesOf(room') = access
      BY <1>7, <2>2, NoBlockIsEmpty DEF catch, free_page
    <2>4. foreign' = foreign
      BY <1>7, CatchStep
    <2> QED BY <1>7, <2>3, <2>4 DEF catch, Promised!vars
  <1>8. CASE misplaced
    <2>1. foreign' = foreign
      BY <1>8, MisplacedStep
    <2>2. mapped' = mapped
      <3>1. PICK p \in Places(Chunk) :
              LET got == [base |-> p, size |-> Chunk]
              IN mapped' = (mapped \cup PagesOf(got)) \ PagesOf(got)
        BY <1>8 DEF misplaced
      <3>2. Chunk \in Nat \ {0}
        BY <1>8, ChunkFits DEF IInv, Progress, misplaced
      <3>3. PagesOf([base |-> p, size |-> Chunk]) \cap mapped = {}
        BY <3>2, PlaceIsFree DEF IInv, PagesOf
      <3> QED BY <3>1, <3>3
    <2> QED
      BY <1>8, <2>1, <2>2 DEF misplaced, blocks, Promised!vars, PagesOf
  <1>9. CASE destroy \/ init_throws
    BY <1>9 DEF destroy, init_throws, blocks, Promised!Next, Promised!Destroy,
                PagesOf
  <1>10. CASE free_next
    <2>1. foreign' = foreign
      BY <1>10, FreeNextStep
    <2>2. mapped' \subseteq mapped
      BY <1>10 DEF free_next, free_page
    <2> QED
      BY <1>10, <2>1, <2>2
      DEF free_next, blocks, Promised!Next, Promised!Release, PagesOf
  <1>11. ASSUME NEW n \in OpcodeSizes, prepare_execute(n)
         PROVE  UNCHANGED Promised!vars
    BY <1>11 DEF prepare_execute, Allocate, blocks, Promised!vars, PagesOf
  <1>12. ASSUME NEW n \in ModuleSizes, load_static_module_to_memory(n)
         PROVE  UNCHANGED Promised!vars
    <2>1. room = NoBlock /\ room' = NoBlock
      BY <1>12 DEF IInv, Progress, load_static_module_to_memory
    <2> QED
      BY <1>12, <2>1
      DEF load_static_module_to_memory, Allocate, Promised!vars, PagesOf
  <1>13. CASE no_memory \/ install_code \/ end_destroy
    BY <1>13 DEF no_memory, install_code, end_destroy, blocks, Promised!vars,
                 PagesOf
  <1> QED
    BY <1>2, <1>3, <1>4, <1>5, <1>6, <1>7, <1>8, <1>9, <1>10, <1>11, <1>12,
       <1>13
    DEF Next, Promised!Next

(* To a client, every operation on memory is atomic, and memory once       *)
(* handed out stays valid until the executor is destroyed.                 *)
THEOREM MemoryRefinement == Spec => MemoryAsPromised
  <1>1. IInv /\ [Next]_vars => [Promised!Next]_(Promised!vars)
    <2>1. UNCHANGED vars => UNCHANGED Promised!vars
      BY DEF vars, blocks, call, Promised!vars, PagesOf
    <2> QED BY <2>1, PromisedStep
  <1> QED
    BY <1>1, PromisedInit, MemoryInductive, PTL
    DEF Spec, MemoryAsPromised, Promised!Spec

=============================================================================
