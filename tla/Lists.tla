-------------------------------- MODULE Lists --------------------------------
(***************************************************************************)
(* storage::dynamic_list (kernel/storage.hxx): the arrays that grow, from  *)
(* which the scheduler's table, the request pool, the nodes' children, the *)
(* users and their handles are made.  A list counts its elements and its   *)
(* capacity; its storage comes from real_storage, which promises a chunk   *)
(* that nobody else has (Allocator), or nothing.  Elements are modelled by *)
(* the cells they consist of, because storage::move moves bytes.           *)
(***************************************************************************)
EXTENDS Integers, Sequences, SequencesExt

CONSTANTS
    Names,           \* the lists
    Values,          \* what elements are
    Unset,           \* an element nobody has given a value
    ElementSize,     \* cells of an element, sizeof(T)
    Align,           \* safe_align<T>(), alignof(T)
    ChunksPerAlloc,  \* chunks_per_alloc
    High,            \* the region of real storage is 1 .. High
    MaxElements,     \* bound on the elements of a list
    MaxCapacity      \* bound on the capacity, which failures raise as well

ASSUME ListsAssumption ==
    /\ {ElementSize, Align, ChunksPerAlloc} \subseteq Nat \ {0}
    /\ {High, MaxElements, MaxCapacity} \subseteq Nat
    /\ Unset \notin Values

VARIABLES
    store,     \* the cells of the region, and the one behind it
    ptr,       \* _ptr of each list
    size,      \* _size
    capacity,  \* _capacity
    room,      \* cells of the chunk at ptr, as real_storage knows them
    meant,     \* history: the elements each list should have
    failed,    \* history: the lists that could not grow
    stopped    \* an access left the list's chunk: what follows is undefined

vars == <<store, ptr, size, capacity, room, meant, failed, stopped>>

Null == 0
Cells == [value : Values \cup {Unset}, part : 0 .. ElementSize - 1]
Junk == [value |-> Unset, part |-> 0]

Init ==
    /\ store = [a \in 1 .. High + 1 |-> Junk]
    /\ ptr = [l \in Names |-> Null]
    /\ size = [l \in Names |-> 0]
    /\ capacity = [l \in Names |-> 0]
    /\ room = [l \in Names |-> 0]
    /\ meant = [l \in Names |-> <<>>]
    /\ failed = {}
    /\ stopped = FALSE

-----------------------------------------------------------------------------
(* Storage.                                                                *)

Chunk(l) == ptr[l] .. ptr[l] + room[l] - 1

\* real_storage::alloc, by its promise: where n cells are nobody's.
Places(n) ==
    {a \in 1 .. High - n + 1 :
        /\ a % Align = 0
        /\ \A l \in Names : (a .. a + n - 1) \cap Chunk(l) = {}}

At(s, a) == IF a \in DOMAIN s THEN s[a] ELSE Junk

\* Mutant of Move: elements that move to a lower place are copied from the end.
MoveBackwards(s, dest, src, n) ==
    [a \in DOMAIN s |-> IF a \in dest + 1 .. dest + n THEN At(s, a - dest + src) ELSE s[a]]

\* storage::move.  Upwards it starts behind the last cell and does not come
\* to the first one.
Move(s, dest, src, n) ==
    LET moved == IF dest < src THEN dest .. dest + n - 1 ELSE dest + 1 .. dest + n
    IN  [a \in DOMAIN s |-> IF a \in moved THEN At(s, a - dest + src) ELSE s[a]]

Piece(v, k) == [value |-> v, part |-> k]

\* The cells of s with v as the element at address a; insert() writes nothing.
Put(s, a, v) ==
    IF v = Unset THEN s
    ELSE [b \in DOMAIN s |-> IF b \in a .. a + ElementSize - 1 THEN Piece(v, b - a) ELSE s[b]]

Address(l, i) == ptr[l] + i * ElementSize

-----------------------------------------------------------------------------
(* Operations.                                                             *)

\* Mutant of Fits: the list is taken to have room for one element more.
FitsOneMore(l, n) == ptr[l] # Null /\ capacity[l] + 1 >= n

\* resize has nothing to allocate.
Fits(l, n) == ptr[l] # Null /\ capacity[l] >= n

\* Mutant of Expanded: capacity is not rounded.
ExpandedJust(l, n) == IF capacity[l] < n THEN n ELSE capacity[l]

\* The capacity resize goes to: past the next multiple of ChunksPerAlloc.
Expanded(l, n) ==
    LET c == IF capacity[l] < n THEN n ELSE capacity[l]
    IN  c + (ChunksPerAlloc - (c % ChunksPerAlloc))

\* The elements after insert, the new one being v.
Extended(l, v) ==
    /\ size' = [size EXCEPT ![l] = @ + 1]
    /\ meant' = [meant EXCEPT ![l] = Append(@, v)]

\* insert: the new element goes behind the others where it fits.
InsertFits(l, v) ==
    LET there == Address(l, size[l]) .. Address(l, size[l] + 1) - 1
    IN  /\ Fits(l, size[l] + 1)
        /\ Extended(l, v)
        /\ IF there \subseteq Chunk(l)
           THEN store' = Put(store, Address(l, size[l]), v) /\ UNCHANGED stopped
           ELSE stopped' = (v # Unset) /\ UNCHANGED store
        /\ UNCHANGED <<ptr, capacity, room, failed>>

\* realloc makes a chunk, moves as many cells as the new one has, frees the old.
\* What storage that nobody holds contains is forgotten.
Moved(l, a, n) ==
    LET s == IF ptr[l] = Null THEN store ELSE Move(store, a, ptr[l], n)
        held == (a .. a + n - 1) \cup UNION {Chunk(m) : m \in Names \ {l}}
    IN  [b \in DOMAIN s |-> IF b \in held THEN s[b] ELSE Junk]

\* insert: the list moves to a larger chunk first.
InsertGrows(l, v) ==
    LET c == Expanded(l, size[l] + 1)
    IN  /\ ~Fits(l, size[l] + 1)
        /\ c <= MaxCapacity
        /\ \E a \in Places(c * ElementSize) :
               /\ ptr' = [ptr EXCEPT ![l] = a]
               /\ store' = Put(Moved(l, a, c * ElementSize), a + size[l] * ElementSize, v)
        /\ capacity' = [capacity EXCEPT ![l] = c]
        /\ room' = [room EXCEPT ![l] = c * ElementSize]
        /\ Extended(l, v)
        /\ UNCHANGED <<failed, stopped>>

\* insert: real_storage has nothing.  The caller gets null, and the list has
\* counted the element and the capacity.
InsertFails(l) ==
    /\ ~Fits(l, size[l] + 1)
    /\ Expanded(l, size[l] + 1) <= MaxCapacity
    /\ capacity' = [capacity EXCEPT ![l] = Expanded(l, size[l] + 1)]
    /\ Extended(l, Unset)
    /\ failed' = failed \cup {l}
    /\ UNCHANGED <<store, ptr, room, stopped>>

Insert(l) ==
    /\ size[l] < MaxElements
    /\ \/ \E v \in Values \cup {Unset} : InsertFits(l, v) \/ InsertGrows(l, v)
       \/ InsertFails(l)

\* operator[] and an assignment, as fast_remove makes one.
Assign(l) ==
    \E i \in 0 .. size[l] - 1, v \in Values :
        /\ meant' = [meant EXCEPT ![l][i + 1] = v]
        /\ IF Address(l, i) .. Address(l, i + 1) - 1 \subseteq Chunk(l)
           THEN store' = Put(store, Address(l, i), v) /\ UNCHANGED stopped
           ELSE stopped' = TRUE /\ UNCHANGED store
        /\ UNCHANGED <<ptr, size, capacity, room, failed>>

\* Mutant of Behind: one element too few is moved.
BehindButLast(l, i) == IF size[l] - (i + 1) = 0 THEN 0 ELSE (size[l] - (i + 2)) * ElementSize

\* The cells of the elements behind element i.
Behind(l, i) == (size[l] - (i + 1)) * ElementSize

\* remove: the elements behind i move down by one.
Delete(l) ==
    \E i \in 0 .. size[l] - 1 :
        LET n == Behind(l, i)
        IN  /\ size' = [size EXCEPT ![l] = @ - 1]
            /\ meant' = [meant EXCEPT ![l] = RemoveAt(@, i + 1)]
            /\ IF Address(l, i) .. Address(l, i) + n - 1 \subseteq Chunk(l)
               THEN store' = Move(store, Address(l, i), Address(l, i + 1), n) /\ UNCHANGED stopped
               ELSE stopped' = TRUE /\ UNCHANGED store
            /\ UNCHANGED <<ptr, capacity, room, failed>>

\* resize to one element less, as css::request::create undoes its insert.
Shrink(l) ==
    /\ size[l] > 0
    /\ Fits(l, size[l] - 1)
    /\ size' = [size EXCEPT ![l] = @ - 1]
    /\ meant' = [meant EXCEPT ![l] = Front(@)]
    /\ UNCHANGED <<store, ptr, capacity, room, failed, stopped>>

Next == ~stopped /\ \E l \in Names : Insert(l) \/ Assign(l) \/ Delete(l) \/ Shrink(l)

Spec == Init /\ [][Next]_vars

-----------------------------------------------------------------------------
(* Properties.                                                             *)

\* The cell of list l that is k cells behind its first one is that of its element.
RightCell(l, k) ==
    LET v == meant[l][(k \div ElementSize) + 1]
    IN  v # Unset => store[ptr[l] + k] = Piece(v, k % ElementSize)

\* Counts and capacities are those of lists: capacity is null or past a
\* multiple of chunks_per_alloc, and a list that has storage has a chunk of
\* the region.
TypeOK ==
    /\ store \in [1 .. High + 1 -> Cells]
    /\ \A l \in Names :
           /\ size[l] \in 0 .. MaxElements
           /\ Len(meant[l]) = size[l]
           /\ capacity[l] % ChunksPerAlloc = 0
           /\ ptr[l] # Null => Chunk(l) \subseteq 1 .. High
           /\ ptr[l] = Null => room[l] = 0
    /\ failed \subseteq Names
    /\ stopped \in BOOLEAN

\* A list that has never failed to grow has storage for all it counts, and
\* never uses storage of another's: resize sets the size and the capacity
\* before it knows whether there is storage for them.
HasWhatItCounts ==
    \A l \in Names \ failed :
        /\ size[l] <= capacity[l]
        /\ capacity[l] * ElementSize = room[l]
        /\ stopped => failed # {}

\* Through every growth, removal and assignment, of this list and of the ones
\* behind which its storage lies, all cells of the elements that have storage
\* keep what they should hold, except the first cell of the list's chunk, which
\* storage::move does not copy upwards and overwrites behind the chunk it fills.
ElementsSurvive ==
    ~stopped =>
        \A l \in Names : \A k \in 1 .. size[l] * ElementSize - 1 :
            k < room[l] => RightCell(l, k)

\* Both: what a list counts it has, and has kept.
ListsAreWhole == HasWhatItCounts /\ ElementsSurvive

\* The test of real_storage::init reallocates and verifies the data: all of
\* them should be there, the first cell with the others.
DataIntegrity ==
    \A l \in Names : size[l] * ElementSize <= room[l] =>
        \A k \in 0 .. size[l] * ElementSize - 1 : RightCell(l, k)
=============================================================================
