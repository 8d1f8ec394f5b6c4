---------------------------- MODULE AddressSpace -----------------------------
(***************************************************************************)
(* The address spaces of jobs on s390 (kernel/s390/virtual.cxx): a segment *)
(* table whose entries lead to page tables, both taken from real storage   *)
(* and never given back.  The operators work on a record                   *)
(*     [held, tables, short]                                               *)
(* of the chunks of real storage that are allocated, the tables of each    *)
(* job, and the jobs for which an allocation has failed.                   *)
(***************************************************************************)
EXTENDS Integers, Sequences, FiniteSets, SequencesExt

CONSTANTS
    Low, High,    \* the region of real storage is Low .. High - 1
    RegionTable,  \* size of its block descriptors, which lie at its start
    PageSize,     \* virtual_storage::page_align
    MaxPages,     \* entries of a page table
    MaxSegments,  \* entries of a segment table
    TableSize,    \* size of a page table
    SegtabSize    \* size of a segment table

ASSUME AddressSpaceAssumption ==
    /\ {RegionTable, PageSize, MaxPages, MaxSegments, TableSize, SegtabSize} \subseteq Nat \ {0}
    /\ Low \in Nat \ {0} /\ High \in Nat /\ Low % PageSize = 0

Null == 0
Kernel == "kernel"

SegmentSize == MaxPages * PageSize
Segments == 0 .. MaxSegments - 1
Pages == 0 .. MaxPages - 1
PageOf(addr) == addr - (addr % PageSize)

Chunk(ptr, size, owner, use, part) ==
    [ptr |-> ptr, size |-> size, owner |-> owner, use |-> use, part |-> part]

-----------------------------------------------------------------------------
(* Real storage.                                                           *)

\* The end of the free block that begins at b.
FreeEnd(held, b) ==
    CHOOSE e \in {High} \cup {c.ptr : c \in held} :
        /\ e >= b
        /\ \A c \in held : c.ptr >= b => e <= c.ptr

FreeSize(held, b) == FreeEnd(held, b) - b

\* The free blocks that alloc takes to be big enough.
Fitting(held, size, align) ==
    {b \in {Low} \cup {c.ptr + c.size : c \in held} :
        /\ ~\E c \in held : c.ptr = b
        /\ FreeSize(held, b) >= size + (b % align)}

\* real_storage::alloc: the end of the first block that fits, rounded down.
Alloc(held, size, align) ==
    LET fits == Fitting(held, size, align)
    IN  IF fits = {} THEN Null
        ELSE LET b == CHOOSE x \in fits : \A y \in fits : x <= y
                 last == FreeEnd(held, b) - size
             IN  last - (last % align)

\* The block descriptors are the first block of the region, which is never free.
Descriptors == Chunk(Low, RegionTable, Kernel, "descriptors", 0)

-----------------------------------------------------------------------------
(* Tables.                                                                 *)

Invalid == [origin |-> Null, page |-> [k \in Pages |-> Null]]
NoSegments == [s \in Segments |-> Invalid]

\* address_space::map_page: a page table that is missing is allocated first.
MapPage(m, job, virt, real) ==
    LET seg == virt \div SegmentSize
        pagetab == Alloc(m.held, TableSize, PageSize)
        entered(t) == [t EXCEPT ![job][seg].page[(virt \div PageSize) % MaxPages] = real]
    IN  IF m.tables[job][seg] # Invalid THEN [m EXCEPT !.tables = entered(@)]
        ELSE IF pagetab = Null THEN [m EXCEPT !.short = @ \cup {job}]
        ELSE [m EXCEPT !.held = @ \cup {Chunk(pagetab, TableSize, Kernel, "pagetab", 0)},
                       !.tables = entered([@ EXCEPT ![job][seg].origin = pagetab])]

\* Mutant of PagesIn: the loop of map_range runs once more.
PagesAndOne(size) == (size + PageSize - 1) \div PageSize + 1

\* Mutant of PagesIn: the size is not rounded up.
WholePages(size) == size \div PageSize

\* The pages of a range, its size rounded up.
PagesIn(size) == (size + PageSize - 1) \div PageSize

\* address_space::map_range: a page that could not be mapped is passed over.
MapRange(m, job, virt, real, size) ==
    FoldLeft(LAMBDA n, k : MapPage(n, job, virt + (k - 1) * PageSize, real + (k - 1) * PageSize),
             m, [k \in 1 .. PagesIn(size) |-> k])

\* address_space::virtual_to_real.  Where the entry of a page that is not mapped
\* leads, in a segment that has a page table, is not looked into: no caller of the
\* model passes such an address.
VirtualToReal(tables, job, virt) ==
    LET page == tables[job][virt \div SegmentSize].page[(virt \div PageSize) % MaxPages]
    IN  IF page = Null THEN Null ELSE page + (virt % PageSize)
=============================================================================
