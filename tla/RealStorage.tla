----------------------------- MODULE RealStorage -----------------------------
(***************************************************************************)
(* The manager of real storage (kernel/real.cxx): one region, whose blocks *)
(* are described by a table at the region's own base that grows into the   *)
(* block behind it, first-fit allocation from the end of a free block,     *)
(* coalescing, and reallocation.                                           *)
(*                                                                         *)
(* A block's address is the sum of the sizes before it, as in the code.    *)
(* alloc and free hold the region's lock from end to end and are steps;    *)
(* realloc releases it before the alloc, the move and the free it makes,   *)
(* so other flows of control run between them.                             *)
(***************************************************************************)
EXTENDS Integers, Sequences, FiniteSets, SequencesExt, FiniteSetsExt

CONSTANTS
    Base,        \* region::base
    RegionSize,  \* region::size
    DescSize,    \* sizeof(block)
    Table0,      \* the descriptors the table is made with
    Grow,        \* the descriptors it grows by: 32 in the code
    Word,        \* sizes and addresses are computed modulo this
    Sizes,       \* the sizes the clients ask for
    Aligns,      \* the alignments they ask for, 0 for none
    MaxHeld      \* bound on the chunks the clients hold at once

ASSUME RealStorageAssumption ==
    /\ {Base, RegionSize, DescSize, Table0, Grow, Word, MaxHeld} \subseteq Nat
    /\ DescSize > 0 /\ Grow > 0 /\ Table0 > 1
    /\ Table0 * DescSize < RegionSize
    /\ Base + RegionSize < Word
    /\ Sizes \subseteq Nat \ {0}
    /\ Aligns \subseteq Nat

VARIABLES
    heap,     \* the blocks from region->head on, in list order
    lost,     \* descriptors in use that the list no longer reaches
    faulted,  \* alloc has followed the null pointer a failed create gave it
    held,     \* the chunks the clients hold
    moving    \* those of them that a realloc is replacing

vars == <<heap, lost, faulted, held, moving>>

Flags == {"FREE", "USED"}
Block == [id : 0 .. RegionSize, size : 0 .. Word - 1, flag : Flags]
Chunk == [ptr : 0 .. Word - 1, size : Sizes]

-----------------------------------------------------------------------------
\* The current_ptr of every loop over the blocks: where the k-th one begins.
Start(h, k) ==
    LET sum[i \in 0 .. Len(h)] == IF i = 0 THEN Base ELSE (sum[i - 1] + h[i].size) % Word
    IN  sum[k - 1]

\* region::create
Init ==
    /\ heap = << [id |-> 0, size |-> Table0 * DescSize, flag |-> "USED"],
                 [id |-> 1, size |-> RegionSize - Table0 * DescSize, flag |-> "FREE"] >>
    /\ lost = {} /\ faulted = FALSE
    /\ held = {} /\ moving = {}

-----------------------------------------------------------------------------
(* block::create                                                           *)

Slots(h) == h[1].size \div DescSize
Unused(h) == (0 .. Slots(h) - 1) \ ({h[k].id : k \in DOMAIN h} \cup lost)

\* heap[1], the block the table grows into
Behind(h) == CHOOSE k \in DOMAIN h : h[k].id = 1
\* Mutant of CanGrow: whether the block behind the table is free is not asked.
CanGrowOver(h) == h[Behind(h)].size >= Grow * DescSize
CanGrow(h) == h[Behind(h)].flag = "FREE" /\ h[Behind(h)].size >= Grow * DescSize

CanCreate(h) == Unused(h) # {} \/ CanGrow(h)

\* Mutant of Grown: the block behind the table keeps its size.
GrownOnly(h) == [h EXCEPT ![1].size = @ + Grow * DescSize]
Grown(h) == [h EXCEPT ![1].size = @ + Grow * DescSize,
                      ![Behind(h)].size = @ - Grow * DescSize]

\* The list with a new block after the k-th; the lowest unused descriptor
\* describes it, or the first of those the table grows by.
CreateAfter(h, k, size, flag) ==
    LET b == [id |-> IF Unused(h) # {} THEN Min(Unused(h)) ELSE Slots(h),
              size |-> size, flag |-> flag]
    IN  InsertAt(IF Unused(h) # {} THEN h ELSE Grown(h), k + 1, b)

\* create has failed and null is stored in the k-th block's next.
CutAfter(h, k) == SubSeq(h, 1, k)
TailOf(h, k) == {h[i].id : i \in k + 1 .. Len(h)}

-----------------------------------------------------------------------------
(* alloc                                                                   *)

\* Mutant of Suitable: the padding that the alignment may cost is not counted.
SuitableUnpadded(size, align) ==
    {k \in DOMAIN heap : heap[k].flag # "USED" /\ heap[k].size >= size}

\* The free blocks the loop would stop at.
Suitable(size, align) ==
    {k \in DOMAIN heap :
        /\ heap[k].flag # "USED"
        /\ heap[k].size >= size
        /\ align # 0 => heap[k].size >= size + (Start(heap, k) % align)}

\* Mutant of LeftSize: the address is not rounded down.
LeftSizeUnaligned(cur, blockSize, size, align) == blockSize - size

\* The bytes of the block left in front of the chunk: the chunk goes to the
\* end of the block, and from there down to an aligned address.
LeftSize(cur, blockSize, size, align) ==
    LET end == cur + blockSize - size
    IN  IF align = 0 THEN blockSize - size
        ELSE (end - (end % align) - cur) % Word

\* The first suitable block k, cut on its left.
SplitLeft(k, left) ==
    CreateAfter([heap EXCEPT ![k].size = left], k, (heap[k].size - left) % Word, "USED")

\* The block at, cut on its right.
SplitRight(h, at, right) ==
    LET made == IF CanCreate(h) THEN CreateAfter(h, at, right, "FREE") ELSE CutAfter(h, at)
    IN  [made EXCEPT ![at].size = (@ - right) % Word]

CanAlloc(size, align) == ~faulted /\ size <= RegionSize /\ Suitable(size, align) # {}

\* What alloc(size, align) does when a block is suitable.  A create that fails
\* on the left is not noticed: alloc goes on with a null block.
Alloc(size, align) ==
    LET k     == Min(Suitable(size, align))
        left  == LeftSize(Start(heap, k), heap[k].size, size, align)
        cut   == [heap EXCEPT ![k].size = left]
        at    == IF left = 0 THEN k ELSE k + 1
        h     == IF left = 0 THEN heap ELSE SplitLeft(k, left)
        right == (h[at].size - size) % Word
        done  == IF right = 0 THEN h ELSE SplitRight(h, at, right)
    IN  IF left # 0 /\ ~CanCreate(cut)
        THEN [heap |-> CutAfter(cut, k), lost |-> TailOf(cut, k), ok |-> FALSE]
        ELSE [heap |-> [done EXCEPT ![at].flag = "USED"],
              lost |-> IF right # 0 /\ ~CanCreate(h) THEN TailOf(h, at) ELSE {},
              ok   |-> TRUE,
              ptr  |-> (Start(heap, k) + left) % Word]

\* Storage once alloc has done a; its caller has the pointer if it is ok.
Allocated(a, size) ==
    /\ heap' = a.heap
    /\ lost' = lost \cup a.lost
    /\ faulted' = ~a.ok
    /\ held' = IF a.ok THEN held \cup {[ptr |-> a.ptr, size |-> size]} ELSE held

Allocate(size, align) ==
    /\ Cardinality(held) < MaxHeld
    /\ CanAlloc(size, align)
    /\ Allocated(Alloc(size, align), size)
    /\ UNCHANGED moving

-----------------------------------------------------------------------------
(* free                                                                    *)

\* The blocks ptr lies in.
Around(ptr) ==
    {k \in DOMAIN heap : Start(heap, k) <= ptr /\ ptr < Start(heap, k) + heap[k].size}

\* Mutant of MergeBehind: the later of the two descriptors is the one kept.
MergeBehindKeepsBlock(h, k) == RemoveAt([h EXCEPT ![k].size = @ + h[k - 1].size], k - 1)

\* merge, "coalescence behind": the k-th block goes into the one before it.
MergeBehind(h, k) == RemoveAt([h EXCEPT ![k - 1].size = @ + h[k].size], k)

\* merge, "coalescence after": the k-th block takes in a FREE block after it,
\* then the block after that does the same, and so on: n times in all.
MergeAfter(h, k) ==
    LET n == Max({m \in 0 .. Len(h) : \A i \in 0 .. m - 1 :
                     k + 2*i + 1 <= Len(h) /\ h[k + 2*i + 1].flag = "FREE"})
    IN  [j \in 1 .. Len(h) - n |->
            IF j < k THEN h[j]
            ELSE IF j < k + n
                 THEN [h[2*j - k] EXCEPT !.size = @ + h[2*j - k + 1].size]
                 ELSE h[j + n]]

\* Mutant of Merge: no coalescence behind.
MergeAfterOnly(h, k) == MergeAfter(h, k)

Merge(h, k) ==
    IF k > 1 /\ h[k - 1].flag = "FREE" THEN MergeAfter(MergeBehind(h, k), k - 1)
    ELSE MergeAfter(h, k)

\* free(ptr); a pointer that lies in no block is ignored
Release(ptr) ==
    IF Around(ptr) = {} THEN UNCHANGED heap
    ELSE LET k == Min(Around(ptr))
         IN  heap' = Merge([heap EXCEPT ![k].flag = "FREE"], k)

Free(c) ==
    /\ ~faulted
    /\ Release(c.ptr)
    /\ held' = held \ {c}
    /\ UNCHANGED <<lost, faulted, moving>>

-----------------------------------------------------------------------------
(* realloc.  The loop over the blocks never gets past its first turn: the  *)
(* table's own block either has the size asked for, or is not the block    *)
(* reallocated, and then the last branch reallocates from scratch.         *)

\* "Same size means no need to do anything": the size compared is the table's,
\* and so is the address returned.
SameSize(c) ==
    /\ held' = (held \ {c}) \cup {[ptr |-> Base, size |-> heap[1].size]}
    /\ UNCHANGED <<heap, lost, faulted, moving>>

\* The new chunk is allocated; if there is none the old one stays.
Reallocate(c, size, align) ==
    /\ ~faulted
    /\ IF size = heap[1].size THEN SameSize(c)
       ELSE /\ Cardinality(held) < MaxHeld
            /\ CanAlloc(size, align)
            /\ Allocated(Alloc(size, align), size)
            /\ moving' = IF faulted' THEN moving ELSE moving \cup {c}

\* Mutant of ReallocDrop: the old chunk is not freed.
ReallocDropLeaks(c) ==
    /\ ~faulted
    /\ held' = held \ {c}
    /\ moving' = moving \ {c}
    /\ UNCHANGED <<heap, lost, faulted>>
\* The contents have been moved and the old chunk is freed.
ReallocDrop(c) ==
    /\ ~faulted
    /\ Release(c.ptr)
    /\ held' = held \ {c}
    /\ moving' = moving \ {c}
    /\ UNCHANGED <<lost, faulted>>

-----------------------------------------------------------------------------
Next ==
    \/ \E size \in Sizes, align \in Aligns : Allocate(size, align)
    \/ \E c \in held \ moving : Free(c)
    \/ \E c \in held \ moving, size \in Sizes, align \in Aligns : Reallocate(c, size, align)
    \/ \E c \in moving : ReallocDrop(c)

Spec == Init /\ [][Next]_vars

-----------------------------------------------------------------------------
TypeOK ==
    /\ heap \in Seq(Block) /\ heap # <<>>
    /\ lost \subseteq 0 .. RegionSize
    /\ faulted \in BOOLEAN
    /\ held \subseteq Chunk
    /\ moving \subseteq held

\* check_heap: the sizes of the blocks on the list add up to the region's.
SizesAddUp ==
    ~faulted => Start(heap, Len(heap) + 1) = Base + RegionSize

\* check_heap, alloc and free: a block is no bigger than what the region has
\* from its address on.
BlocksFit ==
    \A k \in DOMAIN heap : heap[k].size <= (RegionSize - (Start(heap, k) - Base)) % Word

\* Each descriptor describes one block, lies in the table, and the first two
\* stay the first two of the list: the table and the block it grows into.
DescriptorsInPlace ==
    ~faulted =>
        /\ \A k, l \in DOMAIN heap : heap[k].id = heap[l].id => k = l
        /\ \A k \in DOMAIN heap : heap[k].id < Slots(heap) /\ heap[k].id \notin lost
        /\ heap[1].id = 0 /\ heap[2].id = 1

\* After every operation no two neighbouring blocks are free: free storage is
\* always found whole.
Coalesced ==
    \A k \in 1 .. Len(heap) - 1 : ~(heap[k].flag = "FREE" /\ heap[k + 1].flag = "FREE")

\* Both: the table cuts the region into blocks that are in place, and no finer than it
\* must; an interrupted sequence of allocations and frees loses neither.
RegionIsWhole == DescriptorsInPlace /\ Coalesced

\* Storage is in use exactly where a client holds it: each chunk is at the
\* start of a USED block big enough for it, and each USED block but the
\* table is some client's.
UsedIsHeld ==
    ~faulted =>
        LET Used == {k \in DOMAIN heap : k # 1 /\ heap[k].flag = "USED"}
        IN  /\ \A c \in held : \E k \in Used :
                   Start(heap, k) = c.ptr /\ heap[k].size >= c.size
            /\ \A k \in Used : \E c \in held : Start(heap, k) = c.ptr

\* The pointers handed out have the alignment asked for.
AllocAligned ==
    [][\A size \in Sizes, align \in Aligns \ {0} :
          (Allocate(size, align) /\ ~faulted')
              => \E c \in held' \ held : c.ptr % align = 0]_vars

\* real_storage keeps the promise of Allocator.
Promise == INSTANCE Allocator WITH
    Low <- Base, High <- Base + RegionSize,
    reserved <- Base + heap[1].size
KeepsPromise == Promise!Spec
=============================================================================
