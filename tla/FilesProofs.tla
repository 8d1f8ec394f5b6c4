----------------------------- MODULE FilesProofs ------------------------------
(***************************************************************************)
(* Theorems about Files, for every disk, any number of programs, and tables *)
(* of any size: whatever programs open, close, duplicate and use, the list *)
(* of handles they share never leads to a handle that was freed; and each  *)
(* dataset whose name a node can hold is found by its path, whatever is    *)
(* created beside it, and none with a longer name.                         *)
(***************************************************************************)
EXTENDS Files, FiniteSetTheorems, TLAPS

\* One slot is in use at most: open takes the one that is, if there is one.
SlotsInv ==
    /\ slots \in Seq(Handle \cup {Null})
    /\ DOMAIN hdls \subseteq Handle
    /\ \A i \in InUse : slots[i] \in DOMAIN hdls
    /\ \A i, j \in InUse : i = j

\* What a program holds is an index, of a slot there was.
IndexInv == files \in [Programs -> [Fd -> Nat]]

FilesInv == SlotsInv /\ IndexInv

-----------------------------------------------------------------------------
\* A set of numbers has a least one.
LEMMA LeastNumber ==
  ASSUME NEW T \in SUBSET Nat, T # {}
  PROVE  \E m \in T : \A n \in T : m <= n
<1> DEFINE D == {0 .. n : n \in T}
           R == StrictSubsetOrdering(Nat)
<1>1. D \subseteq FiniteSubsetsOf(Nat)
  <2>1. ASSUME NEW n \in T PROVE IsFiniteSet(0 .. n) /\ 0 .. n \subseteq Nat
    BY FS_Interval
  <2> QED BY <2>1 DEF FiniteSubsetsOf
<1>2. D # {}
  OBVIOUS
<1>3. IsWellFoundedOn(R, FiniteSubsetsOf(Nat))
  BY FS_StrictSubsetOrderingWellFounded
<1> HIDE DEF D, R
<1>4. PICK d \in D : \A e \in D : ~(<<e, d>> \in R)
  BY <1>1, <1>2, <1>3, WFMin
<1>5. PICK m \in T : d = 0 .. m
  BY DEF D
<1>6. ASSUME NEW n \in T, n < m PROVE FALSE
  <2>1. 0 .. n \in D
    BY DEF D
  <2>2. 0 .. n \subseteq 0 .. m /\ 0 .. n # 0 .. m
    BY <1>6
  <2>3. 0 .. n \in SUBSET Nat /\ 0 .. m \in SUBSET Nat
    OBVIOUS
  <2>4. <<0 .. n, 0 .. m>> \in StrictSubsetOrdering(Nat)
    BY <2>2, <2>3 DEF StrictSubsetOrdering
  <2> QED BY <1>4, <1>5, <2>1, <2>4 DEF R
<1>7. \A n \in T : m <= n
  BY <1>6
<1> QED BY <1>7

\* No handle is the null pointer.
LEMMA NullIsNoHandle == Null \notin Handle
BY DEF Null, Handle

\* The slots keep their handles if no handle goes.
LEMMA SlotsStay ==
    ASSUME SlotsInv, UNCHANGED slots, DOMAIN hdls' = DOMAIN hdls
    PROVE  SlotsInv'
BY DEF SlotsInv, InUse

\* The one slot that is in use is the least.
LEMMA TheOneInUse ==
    ASSUME SlotsInv, NEW m \in InUse
    PROVE  Min(InUse) = m /\ InUse = {m} /\ m \in 1 .. Len(slots)
<1>1. InUse = {m}
  BY DEF SlotsInv
<1>2. m \in 1 .. Len(slots) /\ m \in Nat
  BY DEF InUse, SlotsInv
<1>3. \A x \in {m} : m <= x
  BY <1>2
<1> QED BY <1>1, <1>2, <1>3 DEF Min

\* SVC VFS OPEN: the handle is put where the one before was, or behind the list.
LEMMA PlacedInv ==
    ASSUME SlotsInv, NEW h \in Handle \cup {Null}, slots' = Placed(h),
           DOMAIN hdls' = DOMAIN hdls \cup (IF h = Null THEN {} ELSE {h})
    PROVE  SlotsInv' /\ PlacedAt \in Nat
<1>1. slots \in Seq(Handle \cup {Null}) /\ DOMAIN hdls \subseteq Handle /\ Len(slots) \in Nat
  BY DEF SlotsInv
<1>2. DOMAIN hdls' \subseteq Handle /\ (h # Null => h \in DOMAIN hdls')
  BY <1>1
<1>3. CASE InUse = {}
  <2>1. slots' = Append(slots, h) /\ PlacedAt = Len(slots)
    BY <1>3 DEF Placed, PlacedAt
  <2>2. /\ slots' \in Seq(Handle \cup {Null}) /\ Len(slots') = Len(slots) + 1
        /\ slots'[Len(slots) + 1] = h /\ \A i \in 1 .. Len(slots) : slots'[i] = slots[i]
    BY <1>1, <2>1
  <2>3. \A i \in 1 .. Len(slots) : slots[i] = Null
    BY <1>1, <1>3 DEF InUse
  <2>4. \A i \in InUse' : i = Len(slots) + 1 /\ h # Null /\ slots'[i] = h
    BY <1>1, <2>2, <2>3 DEF InUse
  <2> QED BY <1>1, <1>2, <2>1, <2>2, <2>4 DEF SlotsInv
<1>4. CASE InUse # {}
  <2>1. PICK m : m \in InUse
    BY <1>4
  <2>2. Min(InUse) = m /\ InUse = {m} /\ m \in 1 .. Len(slots)
    BY <2>1, TheOneInUse
  <2>3. slots' = [slots EXCEPT ![m] = h] /\ PlacedAt = m - 1
    BY <1>4, <2>2 DEF Placed, PlacedAt
  <2>4. /\ slots' \in Seq(Handle \cup {Null}) /\ DOMAIN slots' = DOMAIN slots
        /\ slots'[m] = h /\ \A i \in 1 .. Len(slots) : i # m => slots'[i] = slots[i]
    BY <1>1, <2>2, <2>3
  <2>5. \A i \in 1 .. Len(slots) : i # m => slots[i] = Null
    BY <1>1, <2>2 DEF InUse
  <2>6. \A i \in InUse' : i = m /\ h # Null /\ slots'[i] = h
    BY <1>1, <2>4, <2>5 DEF InUse
  <2> QED BY <1>1, <1>2, <2>2, <2>3, <2>4, <2>6 DEF SlotsInv
<1> QED BY <1>3, <1>4

\* SVC VFS CLOSE: the slot is null, and only its handle is gone.
LEMMA ClosedInv ==
    ASSUME SlotsInv, NEW index \in Nat, SvcClose(index)
    PROVE  SlotsInv'
<1>1. slots \in Seq(Handle \cup {Null}) /\ DOMAIN hdls \subseteq Handle /\ Len(slots) \in Nat
  BY DEF SlotsInv
<1>2. CASE index < Len(slots)
  <2> DEFINE k == index + 1
  <2>1. k \in 1 .. Len(slots)
    BY <1>1, <1>2
  <2>2. slots' = [slots EXCEPT ![k] = Null] /\ DOMAIN hdls' = DOMAIN hdls \ {slots[k]}
    BY <1>2 DEF SvcClose, Closed, At
  <2> HIDE DEF k
  <2>3. /\ slots' \in Seq(Handle \cup {Null}) /\ DOMAIN slots' = DOMAIN slots
        /\ slots'[k] = Null /\ \A i \in 1 .. Len(slots) : i # k => slots'[i] = slots[i]
    BY <1>1, <2>1, <2>2
  <2>4. \A i \in InUse' : i \in InUse /\ i # k /\ slots'[i] = slots[i]
    BY <1>1, <2>3 DEF InUse
  <2>5. \A i \in InUse' : slots[i] # slots[k]
    <3>1. k \in InUse \/ slots[k] = Null
      BY <1>1, <2>1 DEF InUse
    <3>2. \A i \in InUse' : slots[i] # Null
      BY <2>4 DEF InUse
    <3>3. k \in InUse => InUse' = {}
      BY <2>4 DEF SlotsInv
    <3> QED BY <3>1, <3>2, <3>3
  <2> QED BY <1>1, <2>2, <2>3, <2>4, <2>5 DEF SlotsInv
<1>3. CASE ~(index < Len(slots))
  BY <1>3, SlotsStay DEF SvcClose
<1> QED BY <1>2, <1>3

\* A write, a read, a flush and what is refused free no handle.
LEMMA OnHandleInv ==
    ASSUME SlotsInv, NEW index, SvcWrite(index) \/ SvcFlush(index) \/ SvcRead(index)
    PROVE  SlotsInv' /\ UNCHANGED slots
<1>1. UNCHANGED slots /\ DOMAIN hdls' = DOMAIN hdls
  BY DEF SvcWrite, SvcFlush, SvcRead, OnHandle, WriteTo, FlushTo
<1> QED BY <1>1, SlotsStay

LEMMA OpenInv ==
    ASSUME FilesInv, NEW p \in Programs, NEW text, NEW flags, NEW next, NEW failed,
           Open(p, text, flags, next, failed)
    PROVE  FilesInv'
<1> USE DEF FilesInv
<1>1. CASE Unused(p) = {}
  <2>1. UNCHANGED <<hdls, slots, files>>
    BY <1>1 DEF Open, diskVars
  <2> QED BY <2>1, SlotsStay DEF IndexInv
<1>2. CASE Unused(p) # {}
  <2> DEFINE fd == Min(Unused(p))
  <2>1. PICK h \in Handle \cup {Null} :
          /\ Opens(Absolute(text), h)
          /\ hdls' = Opened(Absolute(text), flags, h)
          /\ slots' = Placed(h)
    BY <1>2 DEF Open
  <2>2. files' = [files EXCEPT ![p][fd] = PlacedAt]
    BY <1>2 DEF Open
  <2>3. DOMAIN hdls' = DOMAIN hdls \cup (IF h = Null THEN {} ELSE {h})
    BY <2>1 DEF Opened
  <2>4. SlotsInv' /\ PlacedAt \in Nat
    BY <2>1, <2>3, PlacedInv
  <2> HIDE DEF fd
  <2>5. IndexInv'
    BY <2>2, <2>4 DEF IndexInv
  <2> QED BY <2>4, <2>5
<1> QED BY <1>1, <1>2

LEMMA FcloseInv ==
    ASSUME FilesInv, NEW p \in Programs, NEW fd \in Fd, Fclose(p, fd)
    PROVE  FilesInv'
<1> USE DEF FilesInv
<1>1. SvcClose(files[p][fd]) /\ files' = [files EXCEPT ![p][fd] = NULL]
  BY DEF Fclose
<1>2. files[p][fd] \in Nat /\ IndexInv'
  BY <1>1 DEF IndexInv, NULL
<1> QED BY <1>1, <1>2, ClosedInv

\* _exit closes the FILEs it finds in use, the least first.
LEMMA ExitInv ==
    ASSUME FilesInv, NEW p \in Programs, Exit(p)
    PROVE  FilesInv'
<1> USE DEF FilesInv
<1>1. CASE Unused(p) # Fd
  <2> DEFINE used == Fd \ Unused(p)
  <2>1. used \in SUBSET Nat /\ used # {}
    BY <1>1 DEF Unused, Fd
  <2>2. Min(used) \in used
    <3>1. \E m \in used : \A n \in used : m <= n
      BY <2>1, LeastNumber
    <3> HIDE DEF used
    <3> QED BY <3>1 DEF Min
  <2>3. Min(used) \in Fd /\ Fclose(p, Min(used))
    BY <1>1, <2>2 DEF Exit
  <2> QED BY <2>3, FcloseInv
<1>2. CASE ~(Unused(p) # Fd)
  <2>1. UNCHANGED <<hdls, slots, files>>
    BY <1>2 DEF Exit
  <2> QED BY <2>1, SlotsStay DEF IndexInv
<1> QED BY <1>1, <1>2

LEMMA DupInv ==
    ASSUME FilesInv, NEW p \in Programs, NEW fd \in Fd, NEW newfd \in Fd, Dup(p, fd, newfd)
    PROVE  FilesInv'
<1> USE DEF FilesInv
<1>1. CASE files[p][newfd] = NULL
  <2>1. files' = [files EXCEPT ![p][newfd] = files[p][fd]] /\ UNCHANGED <<hdls, slots>>
    BY <1>1 DEF Dup, diskVars
  <2>2. IndexInv'
    BY <2>1 DEF IndexInv
  <2> QED BY <2>1, <2>2, SlotsStay
<1>2. CASE files[p][newfd] # NULL
  BY <1>2, FcloseInv DEF Dup
<1> QED BY <1>1, <1>2

LEMMA MainInv ==
    ASSUME FilesInv, NEW p \in Programs, Main(p)
    PROVE  FilesInv'
<1> USE DEF FilesInv
<1>1. ASSUME NEW text \in Paths, NEW flags \in Modes, Open(p, text, flags, MAIN, MAIN)
      PROVE  FilesInv'
  BY <1>1, OpenInv
<1>2. ASSUME NEW fd \in Fd, Fclose(p, fd) PROVE FilesInv'
  BY <1>2, FcloseInv
<1>3. ASSUME NEW fd \in Fd, UNCHANGED files, Fwrite(p, fd) \/ Fread(p, fd) \/ Fflush(p, fd)
      PROVE  FilesInv'
  BY <1>3, OnHandleInv DEF Fwrite, Fread, Fflush, IndexInv
<1>4. ASSUME NEW fd \in Fd, NEW newfd \in Fd, Dup(p, fd, newfd) PROVE FilesInv'
  BY <1>4, DupInv
<1>5. ASSUME UNCHANGED <<hdls, slots, files>> PROVE FilesInv'
  BY <1>5, SlotsStay DEF IndexInv
<1>6. ASSUME NEW text \in Paths, RemoveFile(text), UNCHANGED files PROVE FilesInv'
  BY <1>5, <1>6 DEF RemoveFile, SvcRemoveNode
<1>7. ASSUME UNCHANGED <<diskVars, files>> PROVE FilesInv'
  BY <1>5, <1>7 DEF diskVars
<1> QED BY <1>1, <1>2, <1>3, <1>4, <1>6, <1>7 DEF Main

LEMMA FilesStep == FilesInv /\ [Next]_vars => FilesInv'
<1> SUFFICES ASSUME FilesInv, [Next]_vars PROVE FilesInv'
  OBVIOUS
<1> USE DEF FilesInv
<1>1. ASSUME UNCHANGED <<hdls, slots, files>> PROVE FilesInv'
  BY <1>1, SlotsStay DEF IndexInv
<1>2. ASSUME Boot PROVE FilesInv'
  BY <1>1, <1>2 DEF Boot, MountDisk, LoadJda
<1>3. ASSUME NEW p \in Programs, NEW k \in DOMAIN Streams, Start(p, k) PROVE FilesInv'
  BY <1>3, OpenInv DEF Start
<1>4. CASE UNCHANGED vars
  BY <1>1, <1>4 DEF vars
<1>5. CASE Next
  BY <1>2, <1>3, <1>5, MainInv, ExitInv DEF Next
<1> QED BY <1>4, <1>5

LEMMA FilesStart == Init => FilesInv
<1> SUFFICES ASSUME Init PROVE FilesInv
  OBVIOUS
<1>1. hdls = << >> /\ slots = << >> /\ files = [p \in Programs |-> [fd \in Fd |-> NULL]]
  BY DEF Init, DiskInit
<1>2. slots \in Seq(Handle \cup {Null}) /\ DOMAIN hdls = {} /\ DOMAIN slots = {}
  BY <1>1
<1>3. IndexInv
  BY <1>1 DEF IndexInv, NULL
<1> QED BY <1>2, <1>3 DEF FilesInv, SlotsInv, InUse

\* "adds to the list" (service.cxx:48) never adds: a handle in the list is
\* allocated, no second index leads to it, and it is the only one, however
\* many programs open, close and duplicate their files.
THEOREM SlotsAreLive == Spec => []LiveSlots
<1>1. FilesInv => LiveSlots
  <2> SUFFICES ASSUME FilesInv PROVE LiveSlots
    OBVIOUS
  <2>1. SlotsInv
    BY DEF FilesInv
  <2>2. Cardinality(InUse) <= 1
    <3>1. CASE InUse = {}
      BY <3>1, FS_EmptySet
    <3>2. CASE InUse # {}
      <4>1. PICK m : m \in InUse
        BY <3>2
      <4>2. InUse = {m}
        BY <2>1, <4>1 DEF SlotsInv
      <4>3. Cardinality({m}) = 1
        BY FS_Singleton
      <4> QED BY <4>2, <4>3
    <3> QED BY <3>1, <3>2
  <2> QED BY <2>1, <2>2 DEF LiveSlots, SlotsInv
<1> QED BY <1>1, FilesStart, FilesStep, PTL DEF Spec

-----------------------------------------------------------------------------
(* The datasets.  Boot's folds are taken step by step: the library folds by *)
(* way of a function on sets, which exists and gives the same one element   *)
(* after the other.                                                         *)

\* Induction over the numbers up to n, as a fact about a set.
LEMMA UpTo ==
  ASSUME NEW n \in Nat, NEW G, 0 \in G, \A k \in 1 .. n : k - 1 \in G => k \in G
  PROVE  0 .. n \subseteq G
<1> DEFINE Bad == {k \in 0 .. n : k \notin G}
<1> SUFFICES ASSUME Bad # {} PROVE FALSE
  OBVIOUS
<1>1. Bad \in SUBSET Nat
  OBVIOUS
<1>2. PICK m \in Bad : \A k \in Bad : m <= k
  <2> HIDE DEF Bad
  <2> QED BY <1>1, LeastNumber
<1>3. m \in 1 .. n
  BY <1>2
<1>4. m - 1 \in G
  <2>1. m - 1 \in 0 .. n /\ ~(m <= m - 1)
    BY <1>3
  <2> QED BY <1>2, <2>1
<1> QED BY <1>2, <1>3, <1>4

\* What a fold is over: the numbers up to n, values in V from b on, and the fold's operator
\* as a function of a number and a value.
Folding(n, V, b, F) == n \in Nat /\ b \in V /\ F \in [(1 .. n) \X V -> V]

\* The library's folds go over sets: what is folded of a set is what is folded of the rest of
\* it, and its greatest element.
Iterates(g, n, V, b, F) ==
    /\ g \in [SUBSET (1 .. n) -> V]
    /\ \A s \in SUBSET (1 .. n) : g[s] = IF s = {} THEN b ELSE F[<<Max(s), g[s \ {Max(s)}]>>]

\* The same of the sets the fold of a sequence goes over.
IterSteps(iter, n, V, b, F) ==
    /\ iter[{}] = b
    /\ \A k \in 1 .. n : iter[1 .. (k - 1)] \in V
              => iter[1 .. k] = F[<<k, iter[1 .. (k - 1)]>>]

\* The values a fold goes through, the last of them its result.
StepsTo(f, result, n, V, b, F) ==
    /\ f \in [0 .. n -> V]
    /\ f[0] = b /\ f[n] = result
    /\ \A k \in 1 .. n : f[k] = F[<<k, f[k - 1]>>]

\* A fold from the left, step by step: F is the fold's operator as a function.
LEMMA FoldExists ==
  ASSUME NEW n, NEW V, NEW b, NEW F, Folding(n, V, b, F)
  PROVE  \E g : Iterates(g, n, V, b, F)
<1> USE DEF Folding, Iterates
<1> DEFINE Good(m) == \E g \in [SUBSET (1 .. m) -> V] : \A s \in SUBSET (1 .. m) :
             g[s] = IF s = {} THEN b ELSE F[<<Max(s), g[s \ {Max(s)}]>>]
           Goods == {m \in 0 .. n : Good(m)}
<1>1. Good(0)
  <2>1. SUBSET (1 .. 0) = {{}}
    <3>1. 1 .. 0 = {}
      OBVIOUS
    <3> QED BY <3>1
  <2> DEFINE g == [s \in SUBSET (1 .. 0) |-> b]
  <2>2. g \in [SUBSET (1 .. 0) -> V] /\ g[{}] = b
    BY <2>1
  <2> HIDE DEF g
  <2> QED BY <2>1, <2>2
<1>2. ASSUME NEW m \in 1 .. n, Good(m - 1) PROVE Good(m)
  <2>1. PICK g \in [SUBSET (1 .. (m - 1)) -> V] : \A s \in SUBSET (1 .. (m - 1)) :
           g[s] = IF s = {} THEN b ELSE F[<<Max(s), g[s \ {Max(s)}]>>]
    BY <1>2
  <2> DEFINE h == [s \in SUBSET (1 .. m) |-> IF m \in s THEN F[<<m, g[s \ {m}]>>] ELSE g[s]]
  <2>2. ASSUME NEW s \in SUBSET (1 .. m), m \in s
        PROVE  s \ {m} \in SUBSET (1 .. (m - 1)) /\ Max(s) = m
    <3>1. \A x \in s : m >= x
      OBVIOUS
    <3>2. \A y \in s : (\A x \in s : y >= x) => y = m
      BY <2>2, <3>1
    <3>3. s \ {m} \in SUBSET (1 .. (m - 1))
      OBVIOUS
    <3>4. Max(s) \in s /\ \A x \in s : Max(s) >= x
      <4> HIDE DEF Goods
      <4> QED BY <2>2, <3>1 DEF Max
    <3> QED BY <3>2, <3>3, <3>4
  <2>3. ASSUME NEW s \in SUBSET (1 .. m), m \notin s
        PROVE  s \in SUBSET (1 .. (m - 1))
    BY <2>3
  <2>4. h \in [SUBSET (1 .. m) -> V]
    <3>1. ASSUME NEW s \in SUBSET (1 .. m), m \in s PROVE F[<<m, g[s \ {m}]>>] \in V
      BY <2>2, <3>1
    <3>2. ASSUME NEW s \in SUBSET (1 .. m), m \notin s PROVE g[s] \in V
      BY <2>3, <3>2
    <3> QED BY <3>1, <3>2
  <2>5. ASSUME NEW s \in SUBSET (1 .. m)
        PROVE h[s] = IF s = {} THEN b ELSE F[<<Max(s), h[s \ {Max(s)}]>>]
    <3>1. CASE m \in s
      <4>1. Max(s) = m /\ s \ {m} \in SUBSET (1 .. (m - 1)) /\ s \ {m} \in SUBSET (1 .. m)
        BY <2>2, <3>1
      <4>2. h[s] = F[<<m, g[s \ {m}]>>] /\ h[s \ {m}] = g[s \ {m}]
        BY <3>1, <4>1
      <4> HIDE DEF h
      <4> QED BY <3>1, <4>1, <4>2
    <3>2. CASE m \notin s
      <4>1. s \in SUBSET (1 .. (m - 1)) /\ h[s] = g[s]
        BY <2>3, <3>2
      <4>2. CASE s = {}
        BY <2>1, <4>1, <4>2
      <4>3. CASE s # {}
        <5>1. h[s] = F[<<Max(s), g[s \ {Max(s)}]>>]
          BY <2>1, <4>1, <4>3
        <5>2. s \ {Max(s)} \in SUBSET (1 .. m) /\ m \notin s \ {Max(s)}
          BY <3>2, <4>1
        <5>3. h[s \ {Max(s)}] = g[s \ {Max(s)}]
          BY <5>2
        <5> HIDE DEF h
        <5> QED BY <4>3, <5>1, <5>3
      <4> QED BY <4>2, <4>3
    <3> QED BY <3>1, <3>2
  <2> HIDE DEF h
  <2> QED BY <2>4, <2>5
<1> HIDE DEF Good
<1>3. 0 .. n \subseteq Goods
  <2>1. n \in Nat /\ 0 \in Goods
    BY <1>1
  <2>2. \A k \in 1 .. n : k - 1 \in Goods => k \in Goods
    BY <1>2
  <2> HIDE DEF Goods
  <2> QED BY <2>1, <2>2, UpTo
<1>4. Good(n)
  BY <1>3
<1> QED BY <1>4 DEF Good

\* A set of some of the numbers up to n has a greatest.
LEMMA Greatest ==
  ASSUME NEW n \in Nat, NEW s \in SUBSET (0 .. n), s # {}
  PROVE  Max(s) \in s /\ \A x \in s : Max(s) >= x
<1> DEFINE T == {n - x : x \in s}
<1>1. T \in SUBSET Nat /\ T # {}
  <2>1. \A x \in s : n - x \in Nat
    OBVIOUS
  <2>2. PICK x \in s : TRUE
    OBVIOUS
  <2>3. n - x \in T
    OBVIOUS
  <2>4. T \in SUBSET Nat
    BY <2>1
  <2> HIDE DEF T
  <2> QED BY <2>3, <2>4
<1> HIDE DEF T
<1>2. PICK m \in T : \A k \in T : m <= k
  BY <1>1, LeastNumber
<1>3. PICK x \in s : m = n - x
  BY DEF T
<1>4. ASSUME NEW y \in s PROVE x >= y
  <2>1. n - y \in T
    BY DEF T
  <2> QED BY <1>2, <1>3, <2>1
<1> QED BY <1>4 DEF Max

\* So has one of the numbers from 1 on.
LEMMA MaxIn ==
  ASSUME NEW n \in Nat, NEW s \in SUBSET (1 .. n), s # {}
  PROVE  Max(s) \in s
<1>1. s \in SUBSET (0 .. n)
  OBVIOUS
<1> QED BY <1>1, Greatest

\* The greatest of the first k numbers, and the rest of them.
LEMMA FirstOnes ==
  ASSUME NEW n \in Nat, NEW k \in 1 .. n
  PROVE  /\ Max(1 .. k) = k /\ (1 .. k) \ {k} = 1 .. (k - 1) /\ 1 .. k # {}
         /\ 1 .. k \in SUBSET (1 .. n) /\ 1 .. (k - 1) \in SUBSET (1 .. n)
<1>1. k \in 1 .. k /\ \A x \in 1 .. k : k >= x
  OBVIOUS
<1>2. Max(1 .. k) \in 1 .. k /\ \A x \in 1 .. k : Max(1 .. k) >= x
  BY <1>1 DEF Max
<1>3. Max(1 .. k) = k
  BY <1>1, <1>2
<1> QED BY <1>3

\* What such an iteration gives for the first k elements, one after the other.
LEMMA FoldSteps ==
  ASSUME NEW n, NEW V, NEW b, NEW F, NEW iter, Folding(n, V, b, F), IterSteps(iter, n, V, b, F)
  PROVE  \E f : StepsTo(f, iter[1 .. n], n, V, b, F)
<1> USE DEF Folding, IterSteps, StepsTo
<1> DEFINE G == {k \in 0 .. n : iter[1 .. k] \in V}
           f == [k \in 0 .. n |-> iter[1 .. k]]
<1>1. 1 .. 0 = {}
  OBVIOUS
<1>2. 0 .. n \subseteq G
  <2>1. n \in Nat /\ 0 \in G
    BY <1>1
  <2>2. ASSUME NEW k \in 1 .. n, k - 1 \in G PROVE k \in G
    <3>1. iter[1 .. k] = F[<<k, iter[1 .. (k - 1)]>>] /\ iter[1 .. (k - 1)] \in V
      BY <2>2
    <3> QED BY <3>1
  <2> HIDE DEF G
  <2> QED BY <2>1, <2>2, UpTo
<1>3. f \in [0 .. n -> V]
  BY <1>2
<1>4. f[0] = b /\ f[n] = iter[1 .. n]
  BY <1>1
<1>5. ASSUME NEW k \in 1 .. n PROVE f[k] = F[<<k, f[k - 1]>>]
  <2>1. k - 1 \in 0 .. n /\ k \in 0 .. n
    OBVIOUS
  <2>2. f[k - 1] = iter[1 .. (k - 1)] /\ f[k] = iter[1 .. k] /\ f[k - 1] \in V
    BY <1>3, <2>1
  <2> HIDE DEF f
  <2> QED BY <2>2
<1> HIDE DEF f
<1> QED BY <1>3, <1>4, <1>5

\* An element more.
LEMMA AppendIn == ASSUME NEW S, NEW s \in Seq(S), NEW x \in S PROVE Append(s, x) \in Seq(S)
OBVIOUS

\* It is the last one, and the others stay.
LEMMA AppendAt ==
  ASSUME NEW S, NEW s \in Seq(S), NEW x \in S
  PROVE  /\ Len(Append(s, x)) = Len(s) + 1 /\ Append(s, x)[Len(s) + 1] = x
         /\ \A i \in 1 .. Len(s) : Append(s, x)[i] = s[i]
OBVIOUS

\* A function of the numbers up to n is a sequence.
LEMMA SequenceOf ==
  ASSUME NEW S, NEW n \in Nat, NEW h \in [1 .. n -> S]
  PROVE  h \in Seq(S) /\ Len(h) = n
OBVIOUS

\* The short sequences that paths begin with.
LEMMA One ==
  ASSUME NEW x
  PROVE  /\ Len(<<x>>) = 1 /\ <<x>>[1] = x /\ Append(<<>>, x) = <<x>>
         /\ \A v : [<<x>> EXCEPT ![1] = v] = <<v>>
         /\ \A S : x \in S => <<x>> \in Seq(S)
OBVIOUS

\* Of two elements.
LEMMA Two ==
  ASSUME NEW x, NEW y
  PROVE  /\ Len(<<x, y>>) = 2 /\ <<x, y>>[1] = x /\ <<x, y>>[2] = y /\ Append(<<x>>, y) = <<x, y>>
         /\ \A v : [<<x, y>> EXCEPT ![2] = v] = <<x, v>>
<1>1. <<x>> \in Seq({x, y}) /\ Len(<<x>>) = 1 /\ <<x>>[1] = x
  OBVIOUS
<1>2. Append(<<x>>, y) = [i \in 1 .. 2 |-> IF i = 1 THEN x ELSE y]
  <2>1. Append(<<x>>, y) = [i \in 1 .. (Len(<<x>>) + 1) |->
                              IF i = Len(<<x>>) + 1 THEN y ELSE <<x>>[i]]
    BY <1>1
  <2>2. Append(<<x>>, y) = [i \in 1 .. 2 |-> IF i = 2 THEN y ELSE <<x>>[i]]
    BY <1>1, <2>1
  <2> QED BY <1>1, <2>2
<1>3. <<x, y>> = [i \in 1 .. 2 |-> IF i = 1 THEN x ELSE y]
  OBVIOUS
<1>4. \A v : [<<x, y>> EXCEPT ![2] = v] = <<x, v>>
  OBVIOUS
<1>5. Len(<<x, y>>) = 2 /\ <<x, y>>[1] = x /\ <<x, y>>[2] = y
  OBVIOUS
<1> QED BY <1>2, <1>3, <1>4, <1>5

\* Three elements and the rest, as the path of a dataset is.
LEMMA Three ==
  ASSUME NEW S, NEW x \in S, NEW y \in S, NEW z \in S, NEW s \in Seq(S)
  PROVE  /\ <<x, y, z>> \o s \in Seq(S) /\ Len(<<x, y, z>> \o s) = 3 + Len(s)
         /\ (<<x, y, z>> \o s)[1] = x /\ (<<x, y, z>> \o s)[2] = y /\ (<<x, y, z>> \o s)[3] = z
         /\ \A k \in 1 .. Len(s) : (<<x, y, z>> \o s)[3 + k] = s[k]
<1>1. <<x, y, z>> \in Seq(S) /\ Len(<<x, y, z>>) = 3
  OBVIOUS
<1>2. <<x, y, z>>[1] = x /\ <<x, y, z>>[2] = y /\ <<x, y, z>>[3] = z
  OBVIOUS
<1> QED BY <1>1, <1>2

-----------------------------------------------------------------------------
\* The tokens; the provers have no fact about what a string literal is a member of.
Word == {"SYSTEM", "DEVICES", "CSUP", "IN", "OUT", "ERR", "PRN", "DBG", "DASD001"}
Token == STRING \cup Separator \cup Word \cup {"$", "RDISK", "TERM000", "TAPE"}
Text == Seq(Token)

\* What the components are after one token more.
Letters(acc, token) == IF token \in Separator THEN Append(acc, <<>>)
                       ELSE [acc EXCEPT ![Len(acc)] = Append(@, token)]

\* The last component is left out if there is nothing in it.
Cut(parts) == IF parts # <<>> /\ Last(parts) = <<>> THEN Front(parts) ELSE parts

\* They are texts again.
LEMMA LettersIn ==
  ASSUME NEW acc \in Seq(Text), NEW token \in Token
  PROVE  Letters(acc, token) \in Seq(Text)
<1> USE DEF Text
<1>1. CASE token \in Separator
  <2>1. <<>> \in Text
    OBVIOUS
  <2> QED BY <1>1, <2>1 DEF Letters
<1>2. CASE token \notin Separator
  <2> DEFINE last == Len(acc)
             v == Append(acc[last], token)
             new == [i \in 1 .. Len(acc) |-> IF i = last THEN v ELSE acc[i]]
  <2>1. Letters(acc, token) = [acc EXCEPT ![last] = v]
    BY <1>2 DEF Letters
  <2>2. \A i \in 1 .. Len(acc) : acc[i] \in Seq(Token)
    OBVIOUS
  <2>3. last \in 1 .. Len(acc) => v \in Seq(Token)
    BY <2>2, AppendIn
  <2> HIDE DEF v, last
  <2>4. [acc EXCEPT ![last] = v] = new
    OBVIOUS
  <2>5. new \in [1 .. Len(acc) -> Text] /\ Len(acc) \in Nat
    BY <2>2, <2>3
  <2>6. new \in Seq(Text)
    <3> HIDE DEF new, Text
    <3> QED BY <2>5, SequenceOf
  <2> HIDE DEF new
  <2> QED BY <2>1, <2>4, <2>6
<1> QED BY <1>1, <1>2

\* Components, token by token.
LEMMA ComponentsSteps ==
  ASSUME NEW text \in Text
  PROVE  \E f \in [0 .. Len(text) -> Seq(Text)] :
           /\ f[0] = <<>>
           /\ \A k \in 1 .. Len(text) : f[k] = Letters(f[k - 1], text[k])
           /\ Components(text) = Cut(f[Len(text)])
<1> DEFINE V == Seq(Text)
           b == <<>>
           n == Len(text)
           F == [p \in (1 .. n) \X V |-> Letters(p[2], text[p[1]])]
           Iter(g) == g = [s \in SUBSET (1 .. n) |->
                IF s = {} THEN b ELSE Letters(g[s \ {Max(s)}], text[Max(s)])]
           iter == CHOOSE g : Iter(g)
<1>1. n \in Nat /\ DOMAIN text = 1 .. n /\ b \in V
  BY DEF Text
<1>2. ASSUME NEW v \in V, NEW x \in Token PROVE Letters(v, x) \in V
  BY LettersIn
<1> HIDE DEF V
<1>3. Folding(n, V, b, F)
  <2>1. \A p \in (1 .. n) \X V : text[p[1]] \in Token /\ p[2] \in V
    BY <1>1 DEF Text
  <2>2. \A p \in (1 .. n) \X V : Letters(p[2], text[p[1]]) \in V
    BY <1>2, <2>1
  <2> QED BY <1>1, <2>2 DEF Folding
<1>4. \A k \in 1 .. n, v \in V : F[<<k, v>>] = Letters(v, text[k])
  BY DEF F
<1>5. Components(text) = Cut(iter[1 .. n])
  BY <1>1 DEF iter, b, n, Components, Cut, Letters, FoldLeft, MapThenFoldSet
<1> HIDE DEF F, n, b, iter
<1>6. Iter(iter)
  <2>1. PICK g : Iterates(g, n, V, b, F)
    BY <1>3, FoldExists
  <2>2. ASSUME NEW s \in SUBSET (1 .. n), s # {} PROVE Max(s) \in 1 .. n /\ g[s \ {Max(s)}] \in V
    BY <1>1, <2>1, <2>2, MaxIn DEF Iterates
  <2>3. ASSUME NEW s \in SUBSET (1 .. n)
        PROVE g[s] = IF s = {} THEN b ELSE Letters(g[s \ {Max(s)}], text[Max(s)])
    BY <1>4, <2>1, <2>2 DEF Iterates
  <2>4. Iter(g)
    BY <2>1, <2>3 DEF Iterates
  <2> HIDE DEF Iter
  <2> QED BY <2>4 DEF iter
<1>7. \A s \in SUBSET (1 .. n) :
        iter[s] = IF s = {} THEN b ELSE Letters(iter[s \ {Max(s)}], text[Max(s)])
  BY <1>6
<1> HIDE DEF Iter
<1>8. IterSteps(iter, n, V, b, F)
  <2>1. iter[{}] = b
    BY <1>7
  <2>2. ASSUME NEW k \in 1 .. n, iter[1 .. (k - 1)] \in V
        PROVE  iter[1 .. k] = F[<<k, iter[1 .. (k - 1)]>>]
    <3>1. /\ Max(1 .. k) = k /\ (1 .. k) \ {k} = 1 .. (k - 1) /\ 1 .. k # {}
          /\ 1 .. k \in SUBSET (1 .. n)
      BY <1>1, FirstOnes
    <3>2. iter[1 .. k] = Letters(iter[1 .. (k - 1)], text[k])
      BY <1>7, <3>1
    <3> QED BY <1>4, <2>2, <3>2
  <2> QED BY <2>1, <2>2 DEF IterSteps
<1>9. PICK f : StepsTo(f, iter[1 .. n], n, V, b, F)
  BY <1>3, <1>8, FoldSteps
<1>10. ASSUME NEW k \in 1 .. n PROVE f[k] = Letters(f[k - 1], text[k])
  <2>1. k - 1 \in 0 .. n
    BY <1>1
  <2> QED BY <1>4, <1>9, <2>1 DEF StepsTo
<1> QED BY <1>5, <1>9, <1>10 DEF V, n, b, StepsTo

\* The components of a text are texts.
LEMMA ComponentsIn ==
  ASSUME NEW text \in Text
  PROVE  Components(text) \in Seq(Text)
<1>1. PICK f \in [0 .. Len(text) -> Seq(Text)] : Components(text) = Cut(f[Len(text)])
  BY ComponentsSteps
<1>2. f[Len(text)] \in Seq(Text)
  BY DEF Text
<1>3. ASSUME NEW parts \in Seq(Text), parts # <<>> PROVE Front(parts) \in Seq(Text)
  <2>1. Len(parts) - 1 \in Nat /\ Len(parts) - 1 <= Len(parts)
    BY <1>3
  <2>2. SubSeq(parts, 1, Len(parts) - 1) \in Seq(Text)
    BY <2>1
  <2> QED BY <2>2 DEF Front
<1> QED BY <1>1, <1>2, <1>3 DEF Cut

\* A path that is but a separator has no components.
LEMMA RootPath == Components(<<"/">>) = <<>> /\ <<"/">> \in Text
<1>1. <<"/">> \in Text /\ Len(<<"/">>) = 1 /\ <<"/">>[1] = "/"
  <2>1. "/" \in Token
    BY DEF Token, Separator
  <2> QED BY <2>1, One DEF Text
<1>2. PICK f \in [0 .. 1 -> Seq(Text)] :
        f[0] = <<>> /\ f[1] = Letters(f[0], "/") /\ Components(<<"/">>) = Cut(f[1])
  <2>1. PICK f \in [0 .. Len(<<"/">>) -> Seq(Text)] :
          /\ f[0] = <<>> /\ \A k \in 1 .. Len(<<"/">>) : f[k] = Letters(f[k - 1], <<"/">>[k])
          /\ Components(<<"/">>) = Cut(f[Len(<<"/">>)])
    BY <1>1, ComponentsSteps
  <2>2. 1 \in 1 .. Len(<<"/">>) /\ 1 - 1 = 0
    BY <1>1
  <2>3. f[1] = Letters(f[0], "/")
    BY <1>1, <2>1, <2>2
  <2> QED BY <1>1, <2>1, <2>3
<1>3. f[1] = << <<>> >>
  BY <1>2 DEF Letters, Separator
<1>4. Cut(<< <<>> >>) = <<>>
  BY DEF Cut, Last, Front
<1> QED BY <1>1, <1>2, <1>3, <1>4

\* The path of a dataset: its components are the mount point and its name.
DatasetPath(name) == <<"/", "RDISK", "/">> \o name

\* The path of a dataset has two: the mount point and the dataset's name.
LEMMA DatasetComponents ==
  ASSUME NEW name \in Text, name # <<>>, \A k \in 1 .. Len(name) : name[k] \notin Separator
  PROVE  Components(DatasetPath(name)) = << <<"RDISK">>, name >> /\ DatasetPath(name) \in Text
<1> DEFINE text == DatasetPath(name)
           m == Len(name)
<1>1. /\ text \in Text /\ m \in Nat /\ m > 0 /\ Len(text) = 3 + m
      /\ text[1] = "/" /\ text[2] = "RDISK" /\ text[3] = "/"
      /\ \A k \in 1 .. m : text[3 + k] = name[k] /\ name[k] \in Token
  <2>1. "/" \in Token /\ "RDISK" \in Token /\ name \in Seq(Token)
    BY DEF Text, Token, Separator
  <2>2. m \in Nat /\ m > 0 /\ \A k \in 1 .. m : name[k] \in Token
    BY <2>1
  <2> QED BY <2>1, <2>2, Three DEF Text, DatasetPath
<1> HIDE DEF text
<1>2. PICK f \in [0 .. Len(text) -> Seq(Text)] :
        /\ f[0] = <<>> /\ \A k \in 1 .. Len(text) : f[k] = Letters(f[k - 1], text[k])
        /\ Components(text) = Cut(f[Len(text)])
  BY <1>1, ComponentsSteps
<1>3. \A acc : Letters(acc, "/") = Append(acc, <<>>)
  BY DEF Letters, Separator
<1>4. f[1] = << <<>> >>
  <2>1. f[1] = Letters(f[0], "/")
    BY <1>1, <1>2
  <2>2. f[1] = Append(<<>>, <<>>)
    BY <1>2, <1>3, <2>1
  <2>3. \A x : Append(<<>>, x) = <<x>>
    BY One, Zenon
  <2> QED BY <2>2, <2>3
<1>5. f[2] = << <<"RDISK">> >>
  <2>1. f[2] = Letters(f[1], "RDISK")
    BY <1>1, <1>2
  <2> QED BY <1>4, <2>1, One DEF Letters, Separator
<1>6. f[3] = << <<"RDISK">>, <<>> >>
  <2>1. f[3] = Letters(f[2], "/")
    BY <1>1, <1>2
  <2>2. f[3] = Append(<< <<"RDISK">> >>, <<>>)
    BY <1>3, <1>5, <2>1
  <2>3. \A x, y : Append(<<x>>, y) = <<x, y>>
    BY Two, Zenon
  <2> QED BY <2>2, <2>3
<1>7. SubSeq(name, 1, 0) = <<>> /\ SubSeq(name, 1, m) = name
  BY <1>1 DEF Text
<1> DEFINE upto(k) == SubSeq(name, 1, k)
           G == {k \in 0 .. m : f[3 + k] = << <<"RDISK">>, upto(k) >>}
<1>8. ASSUME NEW k \in 1 .. m, k - 1 \in G PROVE k \in G
  <2>1. f[3 + k] = Letters(f[3 + (k - 1)], name[k]) /\ name[k] \notin Separator
    <3>1. 3 + k \in 1 .. Len(text) /\ (3 + k) - 1 = 3 + (k - 1)
      BY <1>1
    <3> QED BY <1>1, <1>2, <3>1
  <2>2. Append(upto(k - 1), name[k]) = upto(k)
    BY <1>1 DEF Text
  <2>3. f[3 + (k - 1)] = << <<"RDISK">>, upto(k - 1) >>
    BY <1>8
  <2> HIDE DEF upto
  <2> DEFINE one == upto(k - 1)
             parts == << <<"RDISK">>, one >>
  <2>4. f[3 + k] = [parts EXCEPT ![Len(parts)] = Append(parts[Len(parts)], name[k])]
    <3> HIDE DEF parts
    <3> QED BY <2>1, <2>3 DEF Letters, parts
  <2>5. Len(parts) = 2 /\ parts[2] = one /\ \A v : [parts EXCEPT ![2] = v] = << <<"RDISK">>, v >>
    BY Two
  <2>6. Append(one, name[k]) = upto(k)
    BY <2>2
  <2> HIDE DEF parts, one
  <2>7. f[3 + k] = << <<"RDISK">>, upto(k) >>
    BY <2>4, <2>5, <2>6
  <2> QED BY <2>7
<1>9. f[3 + m] = << <<"RDISK">>, name >>
  <2>1. 0 \in G
    <3>1. f[3 + 0] = << <<"RDISK">>, upto(0) >>
      <4>1. 3 + 0 = 3 /\ upto(0) = <<>>
        BY <1>7
      <4> HIDE DEF upto
      <4> QED BY <1>6, <4>1
    <3> HIDE DEF upto
    <3> QED BY <1>1, <3>1
  <2>2. m \in G
    <3> HIDE DEF G
    <3>1. 0 .. m \subseteq G
      BY <1>1, <1>8, <2>1, UpTo
    <3> QED BY <1>1, <3>1
  <2> QED BY <1>7, <2>2
<1>10. Cut(<< <<"RDISK">>, name >>) = << <<"RDISK">>, name >>
  BY Two DEF Cut, Last
<1> QED BY <1>1, <1>2, <1>9, <1>10 DEF text

-----------------------------------------------------------------------------
\* What a node keeps of a name: it fits, and is all of a name that fits.  First, the sum of no
\* tokens.
LEMMA SumOfNothing ==
  ASSUME NEW name, DOMAIN name = {}
  PROVE  Sum(name) = [length |-> 0, weight |-> 0]
<1> DEFINE add(acc, token) == [length |-> acc.length + Length(token),
                               weight |-> acc.weight + Weight(token)]
           b == [length |-> 0, weight |-> 0]
           D == DOMAIN name
           Iter(g) == g = [s \in SUBSET D |->
                IF s = {} THEN b ELSE add(g[s \ {Max(s)}], name[Max(s)])]
           iter == CHOOSE g : Iter(g)
<1>1. Sum(name) = iter[D]
  BY DEF Sum, FoldLeft, MapThenFoldSet
<1> HIDE DEF add, b
<1>2. Iter([s \in SUBSET D |-> b])
  <2>1. \A s \in SUBSET D : s = {}
    BY DOMAIN name = {}
  <2> HIDE DEF D
  <2> QED BY <2>1
<1>3. Iter(iter)
  <2> HIDE DEF Iter
  <2> QED BY <1>2
<1>4. iter[D] = b
  <2>1. iter = [s \in SUBSET D |-> IF s = {} THEN b ELSE add(iter[s \ {Max(s)}], name[Max(s)])]
    BY <1>3
  <2>2. D = {}
    BY DOMAIN name = {}
  <2> HIDE DEF iter, D
  <2> QED BY <2>1, <2>2
<1> QED BY <1>1, <1>4 DEF b

\* It fits.
LEMMA EmptyFits == Sum(<<>>).length <= NameSize
<1>1. DOMAIN <<>> = {}
  OBVIOUS
<1>2. Sum(<<>>) = [length |-> 0, weight |-> 0]
  BY <1>1, SumOfNothing, Zenon
<1>3. Sum(<<>>).length = 0
  BY <1>2
<1> QED BY <1>3 DEF NameSize

\* A name that is kept.
LEMMA TruncatedIs ==
  ASSUME NEW name \in Text
  PROVE  /\ Truncated(name) \in Text /\ Sum(Truncated(name)).length <= NameSize
         /\ Sum(name).length <= NameSize => Truncated(name) = name
<1> DEFINE Fits(i) == Sum(SubSeq(name, 1, i)).length <= NameSize
           fits == {i \in 0 .. Len(name) : Fits(i)}
           greatest == Max(fits)
           l == Len(name)
<1>1. /\ l \in Nat /\ SubSeq(name, 1, 0) = <<>> /\ SubSeq(name, 1, l) = name
      /\ \A i \in 0 .. l : SubSeq(name, 1, i) \in Seq(Token)
  BY DEF Text
<1>2. Truncated(name) = SubSeq(name, 1, greatest)
  BY DEF Truncated
<1>3. Fits(0) /\ (Sum(name).length <= NameSize => Fits(l))
  BY <1>1, EmptyFits
<1> HIDE DEF Fits, l
<1>4. 0 \in fits /\ fits \in SUBSET (0 .. l)
  BY <1>1, <1>3 DEF l
<1>5. greatest \in fits /\ \A i \in fits : greatest >= i
  <2> HIDE DEF fits
  <2> QED BY <1>1, <1>4, Greatest
<1>6. l \in 0 .. l
  BY <1>1
<1>7. Fits(l) => l \in fits
  BY <1>6, Zenon DEF l
<1> HIDE DEF greatest
<1>8. greatest \in 0 .. l /\ Fits(greatest)
  BY <1>5 DEF l
<1> HIDE DEF fits
<1>9. ASSUME Sum(name).length <= NameSize PROVE greatest = l
  <2>1. l \in fits
    BY <1>3, <1>7, <1>9, Zenon
  <2>2. greatest >= l
    BY <1>5, <2>1, Zenon
  <2>3. greatest \in 0 .. l /\ l \in Nat
    BY <1>1, <1>8, Zenon
  <2>4. \A a \in Nat : \A b \in 0 .. a : b >= a => b = a
    OBVIOUS
  <2> QED BY <2>2, <2>3, <2>4, Zenon
<1>10. SubSeq(name, 1, greatest) \in Text
  BY <1>1, <1>8, Zenon DEF Text
<1>11. Sum(SubSeq(name, 1, greatest)).length <= NameSize
  BY <1>8 DEF Fits
<1>12. Sum(Truncated(name)).length <= NameSize
  BY <1>2, <1>11, Zenon
<1>13. Sum(name).length <= NameSize => Truncated(name) = name
  BY <1>1, <1>2, <1>9, Zenon
<1> QED BY <1>2, <1>10, <1>12, <1>13, Zenon

-----------------------------------------------------------------------------
\* The drivers of nodes, and what a node is.
Driver == {"none", "cin", "cout", "dasd", "ds", "gs", "pds"}
Node == [name : Text, sum : {Sum(name) : name \in Text}, kids : Seq(Nat), driver : Driver,
         perms : SUBSET Perm]

\* The trees there are: each node but the root may be a child, all have all permissions, and
\* the name of each fits into it.
Tree == {t \in Seq(Node) :
            /\ Len(t) >= 1
            /\ \A n \in 1 .. Len(t) :
                  /\ t[n].sum = Sum(t[n].name) /\ t[n].perms = Perm
                  /\ t[n].sum.length <= NameSize
                  /\ \A i \in 1 .. Len(t[n].kids) : t[n].kids[i] \in 2 .. Len(t)}

\* What is used of a tree and of its nodes.
LEMMA TreeFacts ==
  ASSUME NEW t \in Tree
  PROVE  /\ t \in Seq(Node) /\ Len(t) \in Nat /\ Len(t) >= 1 /\ DOMAIN t = 1 .. Len(t)
         /\ \A n \in 1 .. Len(t) :
              /\ t[n] \in Node /\ t[n].name \in Text /\ t[n].kids \in Seq(Nat)
              /\ Len(t[n].kids) \in Nat
              /\ t[n].sum = Sum(t[n].name) /\ t[n].perms = Perm
              /\ t[n].sum.length <= NameSize
              /\ \A i \in 1 .. Len(t[n].kids) : t[n].kids[i] \in 2 .. Len(t)
<1>1. t \in Seq(Node) /\ Len(t) \in Nat /\ Len(t) >= 1 /\ DOMAIN t = 1 .. Len(t)
  BY DEF Tree
<1>2. ASSUME NEW n \in 1 .. Len(t)
      PROVE  /\ t[n] \in Node /\ t[n].sum = Sum(t[n].name) /\ t[n].perms = Perm
             /\ t[n].sum.length <= NameSize
             /\ \A i \in 1 .. Len(t[n].kids) : t[n].kids[i] \in 2 .. Len(t)
  BY <1>1 DEF Tree
<1>3. \A x \in Node : x.name \in Text /\ x.kids \in Seq(Nat) /\ Len(x.kids) \in Nat
  BY DEF Node
<1> QED BY <1>1, <1>2, <1>3

\* A tree that has grown: what was there is there, and children come behind the others.
Grows(t, u) ==
    /\ Len(t) <= Len(u)
    /\ \A n \in 1 .. Len(t) :
          /\ u[n].name = t[n].name /\ u[n].sum = t[n].sum /\ u[n].driver = t[n].driver
          /\ Len(t[n].kids) <= Len(u[n].kids)
          /\ \A i \in 1 .. Len(t[n].kids) : u[n].kids[i] = t[n].kids[i]

\* The i-th child of n is the first with this name.
IsFirst(t, n, name, i) ==
    /\ i \in 1 .. Len(t[n].kids) /\ t[t[n].kids[i]].sum = Sum(name)
    /\ \A j \in 1 .. (i - 1) : t[t[n].kids[j]].sum # Sum(name)

\* A child that is found is the first with the sum; if none is, no child has it.
LEMMA ChildIs ==
  ASSUME NEW t \in Tree, NEW n \in 1 .. Len(t), NEW name
  PROVE  /\ Child(t, n, name) \in 0 .. Len(t) /\ Child(t, n, name) # 1
         /\ \/ /\ Child(t, n, name) = Null
               /\ \A i \in 1 .. Len(t[n].kids) : t[t[n].kids[i]].sum # Sum(name)
            \/ \E i : IsFirst(t, n, name, i) /\ Child(t, n, name) = t[n].kids[i]
<1> DEFINE kids == t[n].kids
           I == {i \in 1 .. Len(kids) : t[kids[i]].sum = Sum(name)}
<1>1. kids \in Seq(Nat) /\ Len(kids) \in Nat /\ Len(t) \in Nat
      /\ \A i \in 1 .. Len(kids) : kids[i] \in 2 .. Len(t)
  BY TreeFacts
<1>2. Child(t, n, name) = LET k == IF I # {} THEN Min(I) ELSE 0 IN IF k = 0 THEN Null ELSE kids[k]
  BY DEF Child, SelectInSeq
<1> HIDE DEF kids
<1>3. CASE I = {}
  <2>1. Child(t, n, name) = Null
    BY <1>2, <1>3
  <2>2. \A i \in 1 .. Len(kids) : t[kids[i]].sum # Sum(name)
    BY <1>3
  <2> QED BY <1>1, <2>1, <2>2 DEF Null, kids
<1>4. CASE I # {}
  <2>1. Min(I) \in I /\ \A j \in I : Min(I) <= j
    <3>1. I \in SUBSET Nat
      BY <1>1
    <3> HIDE DEF I
    <3>2. \E m \in I : \A j \in I : m <= j
      BY <1>4, <3>1, LeastNumber
    <3> QED BY <3>2 DEF Min
  <2>2. PICK i : i = Min(I)
    OBVIOUS
  <2>3. i \in 1 .. Len(kids) /\ t[kids[i]].sum = Sum(name)
    BY <2>1, <2>2
  <2>4. ASSUME NEW j \in 1 .. (i - 1) PROVE t[kids[j]].sum # Sum(name)
    <3>1. j \in 1 .. Len(kids) /\ ~(i <= j)
      BY <1>1, <2>3
    <3> QED BY <2>1, <2>2, <3>1
  <2>5. Child(t, n, name) = kids[i] /\ kids[i] \in 2 .. Len(t)
    BY <1>1, <1>2, <1>4, <2>2, <2>3
  <2>6. IsFirst(t, n, name, i)
    BY <2>3, <2>4 DEF IsFirst, kids
  <2> QED BY <1>1, <2>5, <2>6 DEF kids
<1> QED BY <1>3, <1>4

\* The first child with the sum is the one that is found.
LEMMA FirstIsChild ==
  ASSUME NEW t \in Tree, NEW n \in 1 .. Len(t), NEW name, NEW i, IsFirst(t, n, name, i)
  PROVE  Child(t, n, name) = t[n].kids[i]
<1>1. Len(t[n].kids) \in Nat /\ \A k \in 1 .. Len(t[n].kids) : t[n].kids[k] \in 2 .. Len(t)
  BY TreeFacts
<1>2. PICK k : IsFirst(t, n, name, k) /\ Child(t, n, name) = t[n].kids[k]
  <2>1. i \in 1 .. Len(t[n].kids) /\ t[t[n].kids[i]].sum = Sum(name)
    BY DEF IsFirst
  <2> QED BY <2>1, ChildIs, Zenon
<1>3. i \in 1 .. Len(t[n].kids) /\ k \in 1 .. Len(t[n].kids)
  BY <1>2 DEF IsFirst
<1>4. ~(i < k) /\ ~(k < i)
  <2>1. i < k => i \in 1 .. (k - 1)
    BY <1>1, <1>3
  <2>2. k < i => k \in 1 .. (i - 1)
    BY <1>1, <1>3
  <2> QED BY <1>2, <2>1, <2>2 DEF IsFirst
<1>5. i = k
  BY <1>1, <1>3, <1>4
<1> QED BY <1>2, <1>5

\* The child that is found stays the one that is found.
LEMMA ChildStays ==
  ASSUME NEW t \in Tree, NEW u \in Tree, Grows(t, u), NEW n \in 1 .. Len(t), NEW name,
         Child(t, n, name) # Null
  PROVE  Child(u, n, name) = Child(t, n, name)
<1>1. PICK i : IsFirst(t, n, name, i) /\ Child(t, n, name) = t[n].kids[i]
  BY ChildIs
<1>2. /\ Len(t[n].kids) \in Nat /\ Len(u[n].kids) \in Nat /\ Len(t) \in Nat /\ Len(u) \in Nat
      /\ n \in 1 .. Len(u)
      /\ \A k \in 1 .. Len(t[n].kids) : t[n].kids[k] \in 2 .. Len(t)
  <2>1. Len(t) \in Nat /\ Len(u) \in Nat /\ Len(t) <= Len(u)
    BY TreeFacts DEF Grows
  <2>2. n \in 1 .. Len(u)
    BY <2>1
  <2> QED BY <2>1, <2>2, TreeFacts
<1>3. /\ Len(t[n].kids) <= Len(u[n].kids)
      /\ \A k \in 1 .. Len(t[n].kids) : u[n].kids[k] = t[n].kids[k]
  BY DEF Grows
<1>4. \A k \in 1 .. Len(t[n].kids) : u[u[n].kids[k]].sum = t[t[n].kids[k]].sum
  <2> SUFFICES ASSUME NEW k \in 1 .. Len(t[n].kids)
               PROVE  u[u[n].kids[k]].sum = t[t[n].kids[k]].sum
    OBVIOUS
  <2>1. t[n].kids[k] \in 1 .. Len(t)
    BY <1>2
  <2> QED BY <1>3, <2>1 DEF Grows
<1>5. IsFirst(u, n, name, i)
  <2>1. i \in 1 .. Len(t[n].kids)
    BY <1>1 DEF IsFirst
  <2>2. i \in 1 .. Len(u[n].kids)
    BY <1>2, <1>3, <2>1
  <2>3. \A j \in 1 .. (i - 1) : j \in 1 .. Len(t[n].kids)
    BY <1>2, <2>1
  <2> QED BY <1>1, <1>4, <2>1, <2>2, <2>3 DEF IsFirst
<1>6. Child(u, n, name) = u[n].kids[i]
  BY <1>2, <1>5, FirstIsChild
<1> QED BY <1>1, <1>3, <1>6 DEF IsFirst

\* What the creation of a node makes of a tree.
CreatedUnder(t, u, parent, name, driver) ==
    /\ u \in Tree /\ Len(u) = Len(t) + 1 /\ Grows(t, u)
    /\ u[Len(u)].name = Truncated(name) /\ u[Len(u)].driver = driver
    /\ \A n \in 1 .. Len(t) : n # parent => u[n].kids = t[n].kids
    /\ u[parent].kids = Append(t[parent].kids, Len(u))
    /\ u[Len(u)].kids = <<>>

\* node::create under a node creates, as each node has the permission to add a child.
LEMMA CreateUnderIs ==
  ASSUME NEW t \in Tree, NEW parent \in 1 .. Len(t), NEW name \in Text, NEW driver \in Driver
  PROVE  CreatedUnder(t, CreateUnder(t, parent, name, driver), parent, name, driver)
<1> DEFINE old == t[parent]
           l == Len(t)
           kids == Append(old.kids, l + 1)
           cut == Truncated(name)
           node == [name |-> cut, sum |-> Sum(cut), kids |-> <<>>,
                    driver |-> driver, perms |-> old.perms]
           new == [old EXCEPT !.kids = kids]
           s == [t EXCEPT ![parent] = new]
           u == Append(s, node)
<1>1. /\ t \in Seq(Node) /\ l \in Nat /\ l >= 1 /\ DOMAIN t = 1 .. l /\ old \in Node
      /\ old.perms = Perm /\ old.kids \in Seq(Nat) /\ Len(old.kids) \in Nat
  BY TreeFacts
<1>2. CreateUnder(t, parent, name, driver) = u
  BY <1>1 DEF CreateUnder, CheckPerms, Perm
<1>3. kids \in Seq(Nat) /\ Len(kids) = Len(old.kids) + 1 /\ kids[Len(old.kids) + 1] = l + 1
      /\ \A i \in 1 .. Len(old.kids) : kids[i] = old.kids[i]
  BY <1>1
<1>4. node \in Node /\ node.name = cut /\ node.sum = Sum(cut) /\ node.kids = <<>>
      /\ node.driver = driver /\ node.perms = Perm /\ node.sum.length <= NameSize
  <2>1. <<>> \in Seq(Nat)
    OBVIOUS
  <2>2. cut \in Text /\ Sum(cut).length <= NameSize
    BY TruncatedIs
  <2> HIDE DEF cut
  <2> QED BY <1>1, <2>1, <2>2 DEF Node
<1>5. /\ new \in Node /\ new.name = old.name /\ new.sum = old.sum /\ new.kids = kids
      /\ new.driver = old.driver /\ new.perms = old.perms
  <2> HIDE DEF kids, old
  <2> QED BY <1>1, <1>3 DEF Node
<1> HIDE DEF node, new, kids, old, cut
<1>6. s \in Seq(Node) /\ Len(s) = l /\ s[parent] = new
      /\ \A n \in 1 .. l : n # parent => s[n] = t[n]
  BY <1>1, <1>5
<1> HIDE DEF s, l
<1>7. u \in Seq(Node) /\ Len(u) = l + 1 /\ u[l + 1] = node /\ \A n \in 1 .. l : u[n] = s[n]
  BY <1>1, <1>4, <1>6
<1> HIDE DEF u
<1>8. \A n \in 1 .. l : /\ u[n].name = t[n].name /\ u[n].sum = t[n].sum
                        /\ u[n].driver = t[n].driver /\ u[n].perms = t[n].perms
                        /\ n # parent => u[n].kids = t[n].kids
  BY <1>5, <1>6, <1>7 DEF old
<1>9. u[parent].kids = kids /\ kids = Append(t[parent].kids, l + 1)
  BY <1>5, <1>6, <1>7 DEF kids, old, l
<1>10. Grows(t, u)
  <2>1. Len(t) <= Len(u)
    BY <1>1, <1>7 DEF l
  <2>2. ASSUME NEW n \in 1 .. Len(t)
        PROVE  /\ Len(t[n].kids) <= Len(u[n].kids)
               /\ \A i \in 1 .. Len(t[n].kids) : u[n].kids[i] = t[n].kids[i]
    <3>1. CASE n = parent
      BY <1>1, <1>3, <1>9, <3>1 DEF old
    <3>2. CASE n # parent
      BY <1>8, <3>2, TreeFacts DEF l
    <3> QED BY <3>1, <3>2
  <2> QED BY <1>8, <2>1, <2>2 DEF Grows, l
<1>11. u \in Tree
  <2>1. ASSUME NEW n \in 1 .. Len(u)
        PROVE  /\ u[n].sum = Sum(u[n].name) /\ u[n].perms = Perm
               /\ u[n].sum.length <= NameSize
               /\ \A i \in 1 .. Len(u[n].kids) : u[n].kids[i] \in 2 .. Len(u)
    <3>1. CASE n = l + 1
      <4>1. u[n] = node /\ Len(u[n].kids) = 0
        BY <1>4, <1>7, <3>1
      <4> QED BY <1>4, <4>1
    <3>2. CASE n = parent
      <4>1. u[n].kids = kids /\ Len(kids) = Len(old.kids) + 1
        BY <1>3, <1>9, <3>2
      <4>2. \A i \in 1 .. Len(old.kids) : kids[i] \in 2 .. l
        BY <1>3, TreeFacts DEF old, l
      <4>3. ASSUME NEW i \in 1 .. Len(kids) PROVE kids[i] \in 2 .. (l + 1)
        <5>1. CASE i \in 1 .. Len(old.kids)
          <6>1. kids[i] \in 2 .. l
            BY <4>2, <5>1
          <6> QED BY <1>1, <6>1
        <5>2. CASE i = Len(old.kids) + 1
          <6>1. kids[i] = l + 1
            BY <1>3, <5>2
          <6>2. l + 1 \in 2 .. (l + 1)
            BY <1>1
          <6> QED BY <6>1, <6>2
        <5> QED BY <1>1, <4>1, <5>1, <5>2
      <4>4. u[n].sum = Sum(u[n].name) /\ u[n].perms = Perm /\ u[n].sum.length <= NameSize
        BY <1>8, <3>2, TreeFacts DEF l
      <4> QED BY <1>7, <4>1, <4>3, <4>4
    <3>3. CASE n \in 1 .. l /\ n # parent
      <4>1. u[n].kids = t[n].kids /\ u[n].sum = t[n].sum /\ u[n].name = t[n].name
            /\ u[n].perms = t[n].perms
        BY <1>8, <3>3
      <4>2. \A i \in 1 .. Len(t[n].kids) : t[n].kids[i] \in 2 .. l
        BY <3>3, TreeFacts DEF l
      <4>3. \A i \in 1 .. Len(t[n].kids) : t[n].kids[i] \in 2 .. (l + 1)
        <5>1. 2 .. l \subseteq 2 .. (l + 1)
          BY <1>1
        <5> QED BY <4>2, <5>1
      <4>4. t[n].sum = Sum(t[n].name) /\ t[n].perms = Perm /\ t[n].sum.length <= NameSize
        BY <3>3, TreeFacts DEF l
      <4> QED BY <1>7, <4>1, <4>3, <4>4
    <3> QED BY <1>1, <1>7, <3>1, <3>2, <3>3
  <2>2. Len(u) >= 1
    BY <1>1, <1>7
  <2> QED BY <1>7, <2>1, <2>2 DEF Tree
<1>12. u[Len(u)] = node /\ Len(u) = Len(t) + 1
  BY <1>7 DEF l
<1> QED BY <1>2, <1>4, <1>7, <1>8, <1>9, <1>10, <1>11, <1>12 DEF CreatedUnder, l, cut

\* What grows twice has grown.
LEMMA GrowsTwice ==
  ASSUME NEW t \in Tree, NEW u \in Tree, NEW w \in Tree, Grows(t, u), Grows(u, w)
  PROVE  Grows(t, w)
<1>1. Len(t) \in Nat /\ Len(u) \in Nat /\ Len(w) \in Nat /\ Len(t) <= Len(u) /\ Len(u) <= Len(w)
  BY TreeFacts DEF Grows
<1>2. ASSUME NEW n \in 1 .. Len(t)
      PROVE  /\ w[n].name = t[n].name /\ w[n].sum = t[n].sum /\ w[n].driver = t[n].driver
             /\ Len(t[n].kids) <= Len(w[n].kids)
             /\ \A i \in 1 .. Len(t[n].kids) : w[n].kids[i] = t[n].kids[i]
  <2>1. n \in 1 .. Len(u) /\ n \in 1 .. Len(w)
    BY <1>1
  <2>2. Len(t[n].kids) \in Nat /\ Len(u[n].kids) \in Nat /\ Len(w[n].kids) \in Nat
    BY <2>1, TreeFacts
  <2>3. Len(t[n].kids) <= Len(u[n].kids) /\ Len(u[n].kids) <= Len(w[n].kids)
    BY <2>1 DEF Grows
  <2>4. \A i \in 1 .. Len(t[n].kids) : i \in 1 .. Len(u[n].kids)
    BY <2>2, <2>3
  <2>5. Len(t[n].kids) <= Len(w[n].kids)
    <3>1. \A a, b, c \in Nat : a <= b /\ b <= c => a <= c
      OBVIOUS
    <3> QED BY <2>2, <2>3, <3>1, Zenon
  <2>6. ASSUME NEW i \in 1 .. Len(t[n].kids) PROVE w[n].kids[i] = t[n].kids[i]
    <3>1. u[n].kids[i] = t[n].kids[i]
      BY DEF Grows
    <3>2. w[n].kids[i] = u[n].kids[i]
      BY <2>1, <2>4 DEF Grows
    <3> QED BY <3>1, <3>2
  <2>7. /\ u[n].name = t[n].name /\ u[n].sum = t[n].sum /\ u[n].driver = t[n].driver
        /\ w[n].name = u[n].name /\ w[n].sum = u[n].sum /\ w[n].driver = u[n].driver
    BY <2>1 DEF Grows
  <2> QED BY <2>5, <2>6, <2>7
<1> QED BY <1>1, <1>2 DEF Grows

\* One name further down a path.
Down(tree, n, name) == IF n = Null THEN Null ELSE Child(tree, n, name)

\* A path, name by name.
LEMMA ByNameSteps ==
  ASSUME NEW t \in Tree, NEW base \in 0 .. Len(t), NEW parts \in Seq(Text), NEW text,
         parts = Components(text)
  PROVE  \E f \in [0 .. Len(parts) -> 0 .. Len(t)] :
           /\ f[0] = base
           /\ \A k \in 1 .. Len(parts) : f[k] = Down(t, f[k - 1], parts[k])
           /\ ByName(t, base, text) = f[Len(parts)]
<1> DEFINE V == 0 .. Len(t)
           b == base
           n == Len(parts)
           F == [p \in (1 .. n) \X V |-> Down(t, p[2], parts[p[1]])]
           Iter(g) == g = [s \in SUBSET (1 .. n) |->
                IF s = {} THEN b ELSE Down(t, g[s \ {Max(s)}], parts[Max(s)])]
           iter == CHOOSE g : Iter(g)
<1>1. n \in Nat /\ DOMAIN parts = 1 .. n /\ b \in V
  BY DEF Text
<1>2. ASSUME NEW v \in V, NEW x \in Text PROVE Down(t, v, x) \in V
  <2>1. v # Null => v \in 1 .. Len(t)
    BY DEF Null
  <2>2. Null \in V
    BY TreeFacts DEF Null
  <2> QED BY <2>1, <2>2, ChildIs DEF Down
<1> HIDE DEF V
<1>3. Folding(n, V, b, F)
  <2>1. \A p \in (1 .. n) \X V : parts[p[1]] \in Text /\ p[2] \in V
    BY <1>1
  <2>2. \A p \in (1 .. n) \X V : Down(t, p[2], parts[p[1]]) \in V
    BY <1>2, <2>1
  <2> QED BY <1>1, <2>2 DEF Folding
<1>4. \A k \in 1 .. n, v \in V : F[<<k, v>>] = Down(t, v, parts[k])
  BY DEF F
<1>5. ByName(t, base, text) = iter[1 .. n]
  BY <1>1 DEF iter, b, n, ByName, Down, FoldLeft, MapThenFoldSet
<1> HIDE DEF F, n, b, iter
<1>6. Iter(iter)
  <2>1. PICK g : Iterates(g, n, V, b, F)
    BY <1>3, FoldExists
  <2>2. ASSUME NEW s \in SUBSET (1 .. n), s # {} PROVE Max(s) \in 1 .. n /\ g[s \ {Max(s)}] \in V
    BY <1>1, <2>1, <2>2, MaxIn DEF Iterates
  <2>3. ASSUME NEW s \in SUBSET (1 .. n)
        PROVE g[s] = IF s = {} THEN b ELSE Down(t, g[s \ {Max(s)}], parts[Max(s)])
    BY <1>4, <2>1, <2>2 DEF Iterates
  <2>4. Iter(g)
    BY <2>1, <2>3 DEF Iterates
  <2> HIDE DEF Iter
  <2> QED BY <2>4 DEF iter
<1>7. \A s \in SUBSET (1 .. n) :
        iter[s] = IF s = {} THEN b ELSE Down(t, iter[s \ {Max(s)}], parts[Max(s)])
  BY <1>6
<1> HIDE DEF Iter
<1>8. IterSteps(iter, n, V, b, F)
  <2>1. iter[{}] = b
    BY <1>7
  <2>2. ASSUME NEW k \in 1 .. n, iter[1 .. (k - 1)] \in V
        PROVE  iter[1 .. k] = F[<<k, iter[1 .. (k - 1)]>>]
    <3>1. /\ Max(1 .. k) = k /\ (1 .. k) \ {k} = 1 .. (k - 1) /\ 1 .. k # {}
          /\ 1 .. k \in SUBSET (1 .. n)
      BY <1>1, FirstOnes
    <3>2. iter[1 .. k] = Down(t, iter[1 .. (k - 1)], parts[k])
      BY <1>7, <3>1
    <3> QED BY <1>4, <2>2, <3>2
  <2> QED BY <2>1, <2>2 DEF IterSteps
<1>9. PICK f : StepsTo(f, iter[1 .. n], n, V, b, F)
  BY <1>3, <1>8, FoldSteps
<1>10. ASSUME NEW k \in 1 .. n PROVE f[k] = Down(t, f[k - 1], parts[k])
  <2>1. k - 1 \in 0 .. n
    BY <1>1
  <2> QED BY <1>4, <1>9, <2>1 DEF StepsTo
<1> QED BY <1>5, <1>9, <1>10 DEF V, n, b, StepsTo

\* No letters lead nowhere.
LEMMA NoLetters == ASSUME NEW t \in Tree, NEW text
                   PROVE  Resolve(t, Absolute(text)) = ByName(t, 1, text)
<1> DEFINE down(n, letter) == IF n = Null \/ letter >= Len(t[n].kids) THEN Null
                              ELSE t[n].kids[letter + 1]
           Iter(g) == g = [s \in SUBSET (DOMAIN <<>>) |-> IF s = {} THEN 1 ELSE
                             down(g[s \ {Max(s)}], <<>>[Max(s)])]
           iter == CHOOSE g : Iter(g)
<1>1. Resolve(t, Absolute(text)) =
        LET start == iter[DOMAIN <<>>] IN IF start = Null THEN Null ELSE ByName(t, start, text)
  BY DEF Resolve, Absolute, FoldLeft, MapThenFoldSet
<1> HIDE DEF down
<1>2. DOMAIN <<>> = {} /\ SUBSET {} = {{}}
  OBVIOUS
<1>3. Iter([s \in SUBSET (DOMAIN <<>>) |-> 1])
  BY <1>2
<1>4. Iter(iter)
  <2> HIDE DEF Iter
  <2> QED BY <1>3
<1>5. iter[DOMAIN <<>>] = 1
  <2> HIDE DEF iter
  <2> QED BY <1>2, <1>4
<1> HIDE DEF iter
<1> QED BY <1>1, <1>5 DEF Null

\* Each name of a path leads one step down.
LEMMA ByEachName ==
  ASSUME NEW t \in Tree, NEW base \in 0 .. Len(t), NEW text, Components(text) \in Seq(Text)
  PROVE  \E f \in [0 .. Len(Components(text)) -> 0 .. Len(t)] :
           /\ f[0] = base
           /\ \A k \in 1 .. Len(Components(text)) : f[k] = Down(t, f[k - 1], Components(text)[k])
           /\ ByName(t, base, text) = f[Len(Components(text))]
BY ByNameSteps

\* A path without names leads to where it begins.
LEMMA ByNothing ==
  ASSUME NEW t \in Tree, NEW base \in 0 .. Len(t), NEW text,
         Components(text) \in Seq(Text)
  PROVE  Len(Components(text)) = 0 => ByName(t, base, text) = base
<1>1. PICK f \in [0 .. Len(Components(text)) -> 0 .. Len(t)] :
        /\ f[0] = base
        /\ \A k \in 1 .. Len(Components(text)) : f[k] = Down(t, f[k - 1], Components(text)[k])
        /\ ByName(t, base, text) = f[Len(Components(text))]
  BY ByEachName
<1> QED BY <1>1

\* A path of two names leads down by the one and then by the other.
LeadsByTwo(t, base, text) ==
    \A first, name, d :
        Components(text) = <<first, name>> /\ base # Null /\ d # Null /\ Child(t, base, first) = d
          => ByName(t, base, text) = Child(t, d, name)

\* Each of the two is one step.
LEMMA ByTwoNames ==
  ASSUME NEW t \in Tree, NEW base \in 0 .. Len(t), NEW text, Components(text) \in Seq(Text)
  PROVE  LeadsByTwo(t, base, text)
<1>1. PICK f \in [0 .. Len(Components(text)) -> 0 .. Len(t)] :
        /\ f[0] = base
        /\ \A k \in 1 .. Len(Components(text)) : f[k] = Down(t, f[k - 1], Components(text)[k])
        /\ ByName(t, base, text) = f[Len(Components(text))]
  BY ByEachName
<1> SUFFICES ASSUME NEW first, NEW name, NEW d, Components(text) = <<first, name>>,
                    base # Null, d # Null, Child(t, base, first) = d
             PROVE  ByName(t, base, text) = Child(t, d, name)
  BY DEF LeadsByTwo
<1>2. /\ Len(Components(text)) = 2
      /\ Components(text)[1] = first /\ Components(text)[2] = name
  BY Two
<1>3. f[1] = Down(t, f[0], first) /\ f[2] = Down(t, f[1], name)
  BY <1>1, <1>2
<1> QED BY <1>1, <1>2, <1>3 DEF Down

\* A path leads to a node or nowhere.
LEMMA ResolveIs ==
  ASSUME NEW t \in Tree, NEW text \in Text
  PROVE  Resolve(t, Absolute(text)) \in 0 .. Len(t)
<1>1. 1 \in 0 .. Len(t) /\ Components(text) \in Seq(Text)
  BY TreeFacts, ComponentsIn
<1>2. PICK f \in [0 .. Len(Components(text)) -> 0 .. Len(t)] :
        ByName(t, 1, text) = f[Len(Components(text))]
  BY <1>1, ByNameSteps
<1>3. Len(Components(text)) \in 0 .. Len(Components(text))
  BY <1>1 DEF Text
<1> QED BY <1>2, <1>3, NoLetters

\* A node is always created: what does not resolve is taken for the root.
LEMMA CreateIs ==
  ASSUME NEW t \in Tree, NEW text \in Text, NEW name \in Text, NEW driver \in Driver
  PROVE  \E parent \in 1 .. Len(t) :
            CreatedUnder(t, Create(t, text, name, driver), parent, name, driver)
<1>1. PICK parent \in 1 .. Len(t) : Create(t, text, name, driver) = CreateUnder(t, parent, name, driver)
  BY ResolveIs, TreeFacts DEF Create, Null
<1> QED BY <1>1, CreateUnderIs

-----------------------------------------------------------------------------
\* The trees boot has before the disk is mounted: none of their names is the mount point's.
BootName == {<<word>> : word \in Word}
BootTree == {t \in Tree : \A n \in 2 .. Len(t) : t[n].name \in BootName}

\* By the assumption none of them is cut or taken for the mount point's, which is not cut.
LEMMA BootNames ==
  /\ BootName \subseteq Text /\ \A name \in BootName : Sum(name) # Sum(<<"RDISK">>)
  /\ \A name \in BootName : Truncated(name) = name
  /\ <<"RDISK">> \in Text /\ Truncated(<<"RDISK">>) = <<"RDISK">>
<1>1. ASSUME NEW word \in Word PROVE <<word>> \in Text
  <2>1. word \in Token
    BY DEF Token
  <2> QED BY <2>1, One DEF Text
<1>2. /\ \A word \in Word : Sum(<<word>>) # Sum(<<"RDISK">>) /\ Sum(<<word>>).length <= NameSize
      /\ Sum(<<"RDISK">>).length <= NameSize
  BY NamesAssumption DEF Same, Word
<1>3. <<"RDISK">> \in Text
  <2>1. "RDISK" \in Token
    BY DEF Token
  <2> QED BY <2>1, One DEF Text
<1>4. ASSUME NEW word \in Word PROVE Truncated(<<word>>) = <<word>>
  BY <1>1, <1>2, TruncatedIs
<1>5. Truncated(<<"RDISK">>) = <<"RDISK">>
  BY <1>2, <1>3, TruncatedIs
<1> QED BY <1>1, <1>2, <1>3, <1>4, <1>5 DEF BootName

\* A creation of boot leaves a tree of boot.
LEMMA CreateBoot ==
  ASSUME NEW t \in BootTree, NEW text \in Text, NEW name \in BootName, NEW driver \in Driver
  PROVE  Create(t, text, name, driver) \in BootTree
<1> DEFINE u == Create(t, text, name, driver)
<1>1. t \in Tree /\ name \in Text /\ \A n \in 2 .. Len(t) : t[n].name \in BootName
  BY BootNames DEF BootTree
<1>2. PICK parent \in 1 .. Len(t) : CreatedUnder(t, u, parent, name, driver)
  BY <1>1, CreateIs
<1> HIDE DEF u
<1>3. /\ u \in Tree /\ Len(u) = Len(t) + 1 /\ Len(t) \in Nat /\ u[Len(u)].name = name
      /\ \A n \in 1 .. Len(t) : u[n].name = t[n].name
  <2>1. Truncated(name) = name
    BY BootNames
  <2> QED BY <1>1, <1>2, <2>1, TreeFacts DEF CreatedUnder, Grows
<1>4. \A n \in 2 .. Len(u) : u[n].name \in BootName
  BY <1>1, <1>3
<1> QED BY <1>3, <1>4 DEF BootTree, u

\* What boot creates: where, by which name and with which driver.
Creation == Text \X BootName \X Driver

\* A sequence of creations, one by one.
LEMMA CreateAllSteps ==
  ASSUME NEW t \in BootTree, NEW list \in Seq(Creation)
  PROVE  \E f \in [0 .. Len(list) -> BootTree] :
           /\ f[0] = t
           /\ \A k \in 1 .. Len(list) : f[k] = Create(f[k - 1], list[k][1], list[k][2], list[k][3])
           /\ CreateAll(t, list) = f[Len(list)]
<1> DEFINE V == BootTree
           b == t
           n == Len(list)
           F == [p \in (1 .. n) \X V |-> Create(p[2], list[p[1]][1], list[p[1]][2], list[p[1]][3])]
           Iter(g) == g = [s \in SUBSET (1 .. n) |->
                IF s = {} THEN b ELSE Create(g[s \ {Max(s)}], list[Max(s)][1], list[Max(s)][2], list[Max(s)][3])]
           iter == CHOOSE g : Iter(g)
<1>1. n \in Nat /\ DOMAIN list = 1 .. n /\ b \in V
  OBVIOUS
<1>2. ASSUME NEW v \in V, NEW x \in Creation PROVE Create(v, x[1], x[2], x[3]) \in V
  BY CreateBoot DEF Creation
<1> HIDE DEF V
<1>3. Folding(n, V, b, F)
  <2>1. \A p \in (1 .. n) \X V : list[p[1]] \in Creation /\ p[2] \in V
    BY <1>1
  <2>2. \A p \in (1 .. n) \X V : Create(p[2], list[p[1]][1], list[p[1]][2], list[p[1]][3]) \in V
    BY <1>2, <2>1
  <2> QED BY <1>1, <2>2 DEF Folding
<1>4. \A k \in 1 .. n, v \in V : F[<<k, v>>] = Create(v, list[k][1], list[k][2], list[k][3])
  BY DEF F
<1>5. CreateAll(t, list) = iter[1 .. n]
  BY <1>1 DEF iter, b, n, CreateAll, FoldLeft, MapThenFoldSet
<1> HIDE DEF F, n, b, iter
<1>6. Iter(iter)
  <2>1. PICK g : Iterates(g, n, V, b, F)
    BY <1>3, FoldExists
  <2>2. ASSUME NEW s \in SUBSET (1 .. n), s # {} PROVE Max(s) \in 1 .. n /\ g[s \ {Max(s)}] \in V
    BY <1>1, <2>1, <2>2, MaxIn DEF Iterates
  <2>3. ASSUME NEW s \in SUBSET (1 .. n)
        PROVE g[s] = IF s = {} THEN b ELSE Create(g[s \ {Max(s)}], list[Max(s)][1], list[Max(s)][2], list[Max(s)][3])
    BY <1>4, <2>1, <2>2 DEF Iterates
  <2>4. Iter(g)
    BY <2>1, <2>3 DEF Iterates
  <2> HIDE DEF Iter
  <2> QED BY <2>4 DEF iter
<1>7. \A s \in SUBSET (1 .. n) :
        iter[s] = IF s = {} THEN b ELSE Create(iter[s \ {Max(s)}], list[Max(s)][1], list[Max(s)][2], list[Max(s)][3])
  BY <1>6
<1> HIDE DEF Iter
<1>8. IterSteps(iter, n, V, b, F)
  <2>1. iter[{}] = b
    BY <1>7
  <2>2. ASSUME NEW k \in 1 .. n, iter[1 .. (k - 1)] \in V
        PROVE  iter[1 .. k] = F[<<k, iter[1 .. (k - 1)]>>]
    <3>1. /\ Max(1 .. k) = k /\ (1 .. k) \ {k} = 1 .. (k - 1) /\ 1 .. k # {}
          /\ 1 .. k \in SUBSET (1 .. n)
      BY <1>1, FirstOnes
    <3>2. iter[1 .. k] = Create(iter[1 .. (k - 1)], list[k][1], list[k][2], list[k][3])
      BY <1>7, <3>1
    <3> QED BY <1>4, <2>2, <3>2
  <2> QED BY <2>1, <2>2 DEF IterSteps
<1>9. PICK f : StepsTo(f, iter[1 .. n], n, V, b, F)
  BY <1>3, <1>8, FoldSteps
<1>10. ASSUME NEW k \in 1 .. n PROVE f[k] = Create(f[k - 1], list[k][1], list[k][2], list[k][3])
  <2>1. k - 1 \in 0 .. n
    BY <1>1
  <2> QED BY <1>4, <1>9, <2>1 DEF StepsTo
<1> QED BY <1>5, <1>9, <1>10 DEF V, n, b, StepsTo

\* All of them leave a tree of boot.
LEMMA CreateAllBoot ==
  ASSUME NEW t \in BootTree, NEW list \in Seq(Creation)
  PROVE  CreateAll(t, list) \in BootTree
<1>1. PICK f \in [0 .. Len(list) -> BootTree] : CreateAll(t, list) = f[Len(list)]
  BY CreateAllSteps
<1> QED BY <1>1

\* Lists of one, two and six.
LEMMA Lists ==
  ASSUME NEW S, NEW a \in S, NEW b \in S, NEW c \in S, NEW d \in S, NEW e \in S, NEW f \in S
  PROVE  /\ <<a>> \in Seq(S) /\ <<a, b>> \in Seq(S) /\ <<a, b, c, d>> \in Seq(S)
         /\ <<a, b, c, d, e, f>> \in Seq(S)
<1>1. <<a>> \in Seq(S)
  OBVIOUS
<1>2. <<a, b>> \in Seq(S)
  OBVIOUS
<1>3. <<a, b, c, d>> \in Seq(S)
  OBVIOUS
<1>4. <<a, b, c, d, e, f>> \in Seq(S)
  OBVIOUS
<1> QED BY <1>1, <1>2, <1>3, <1>4

\* The paths of boot are texts.
LEMMA BootPaths ==
  /\ <<"/">> \in Text /\ <<"/", "SYSTEM">> \in Text /\ <<"/", "CSUP">> \in Text
  /\ Devices \in Text /\ <<"/", "TAPE">> \in Text
  /\ \A word \in Token : <<word>> \in Text
<1>1. "/" \in Token /\ "SYSTEM" \in Token /\ "CSUP" \in Token /\ "DEVICES" \in Token /\ "TAPE" \in Token
  BY DEF Token, Separator, Word
<1> QED BY <1>1, Lists DEF Text, Devices

\* What the disk init and the console's create.
LEMMA BootLists ==
  /\ << << <<"/">>, <<"SYSTEM">>, "none" >>, << <<"/", "SYSTEM">>, <<"DEVICES">>, "none" >> >>
        \in Seq(Creation)
  /\ Console \in Seq(Creation) /\ << <<Devices, <<"DASD001">>, "dasd">> >> \in Seq(Creation)
<1>1. ASSUME NEW text \in Text, NEW word \in Word, NEW driver \in Driver
      PROVE  <<text, <<word>>, driver>> \in Creation
  BY DEF Creation, BootName
<1>2. /\ "SYSTEM" \in Word /\ "DEVICES" \in Word /\ "CSUP" \in Word /\ "IN" \in Word
      /\ "OUT" \in Word /\ "ERR" \in Word /\ "PRN" \in Word /\ "DBG" \in Word /\ "DASD001" \in Word
      /\ "none" \in Driver /\ "cin" \in Driver /\ "cout" \in Driver /\ "dasd" \in Driver
  BY DEF Word, Driver
<1>3. /\ << <<"/">>, <<"SYSTEM">>, "none" >> \in Creation
      /\ << <<"/", "SYSTEM">>, <<"DEVICES">>, "none" >> \in Creation
      /\ <<Devices, <<"DASD001">>, "dasd">> \in Creation
  BY <1>1, <1>2, BootPaths
<1>4. /\ << <<"/">>, <<"CSUP">>, "none" >> \in Creation
      /\ << <<"/", "CSUP">>, <<"IN">>, "cin" >> \in Creation
      /\ << <<"/", "CSUP">>, <<"OUT">>, "cout" >> \in Creation
      /\ << <<"/", "CSUP">>, <<"ERR">>, "cout" >> \in Creation
      /\ << <<"/", "CSUP">>, <<"PRN">>, "cout" >> \in Creation
      /\ << <<"/", "CSUP">>, <<"DBG">>, "cout" >> \in Creation
  BY <1>1, <1>2, BootPaths
<1>5. Console \in Seq(Creation)
  BY <1>4, Lists DEF Console
<1> QED BY <1>3, <1>5, Lists

\* The system starts with a tree of boot.
LEMMA BootIs == DiskInit => nodes \in BootTree
<1> SUFFICES ASSUME DiskInit PROVE nodes \in BootTree
  OBVIOUS
<1>1. <<Root>> \in BootTree
  <2>1. <<>> \in Text /\ <<>> \in Seq(Nat)
    BY DEF Text
  <2>2. Root \in Node /\ Root.name = <<>> /\ Root.sum = Sum(<<>>) /\ Root.kids = <<>> /\ Root.perms = Perm
    BY <2>1 DEF Root, Node, Driver
  <2> HIDE DEF Root
  <2>3. <<Root>> \in Seq(Node) /\ Len(<<Root>>) = 1 /\ <<Root>>[1] = Root /\ Len(<<>>) = 0
    BY <2>2, One
  <2>4. \A n \in 1 .. 1 : /\ <<Root>>[n].sum = Sum(<<Root>>[n].name) /\ <<Root>>[n].perms = Perm
                          /\ <<Root>>[n].kids = <<>> /\ <<Root>>[n].sum.length <= NameSize
    <3>1. Sum(<<>>).length <= NameSize
      BY EmptyFits
    <3> QED BY <2>2, <2>3, <3>1
  <2>5. <<Root>> \in Tree
    BY <2>3, <2>4 DEF Tree
  <2> QED BY <2>3, <2>5 DEF BootTree
<1>2. Base \in BootTree
  BY <1>1, BootLists, CreateAllBoot DEF Base
<1>3. Console \o << <<Devices, <<"DASD001">>, "dasd">> >> \in Seq(Creation)
  BY BootLists
<1> QED BY <1>2, <1>3, CreateAllBoot DEF DiskInit

-----------------------------------------------------------------------------
\* A dataset's name as a node has no separators.
LEMMA SanitizedIs ==
  ASSUME NEW name \in Seq(STRING)
  PROVE  /\ Sanitized(name) \in Text
         /\ \A k \in 1 .. Len(Sanitized(name)) : Sanitized(name)[k] \notin Separator
<1> DEFINE cut == SelectInSeq(name, LAMBDA token : token = " ")
           blank == " "
           I == {i \in 1 .. Len(name) : name[i] = blank}
           kept == IF cut = 0 THEN name ELSE SubSeq(name, 1, cut - 1)
           new == [k \in DOMAIN kept |-> IF kept[k] \in Separator THEN "$" ELSE kept[k]]
<1>1. Sanitized(name) = new
  BY DEF Sanitized
<1>2. cut \in 0 .. Len(name)
  <2>1. cut = IF I # {} THEN Min(I) ELSE 0
    BY DEF SelectInSeq
  <2> HIDE DEF cut, blank
  <2>2. I \in SUBSET Nat /\ I \subseteq 1 .. Len(name)
    OBVIOUS
  <2> HIDE DEF I
  <2>3. I # {} => \E m \in I : \A j \in I : m <= j
    BY <2>2, LeastNumber
  <2>4. I # {} => Min(I) \in I
    BY <2>3 DEF Min
  <2>5. CASE I = {}
    BY <2>1, <2>5
  <2>6. CASE I # {}
    <3>1. cut = Min(I) /\ Min(I) \in 1 .. Len(name)
      BY <2>1, <2>2, <2>4, <2>6
    <3>2. 1 .. Len(name) \subseteq 0 .. Len(name)
      OBVIOUS
    <3> QED BY <3>1, <3>2
  <2> QED BY <2>5, <2>6
<1> HIDE DEF cut
<1>3. kept \in Seq(STRING)
  <2>1. cut # 0 => SubSeq(name, 1, cut - 1) \in Seq(STRING)
    BY <1>2
  <2> QED BY <2>1
<1> HIDE DEF kept
<1>4. Len(kept) \in Nat /\ DOMAIN kept = 1 .. Len(kept) /\ \A k \in 1 .. Len(kept) : kept[k] \in Token
  BY <1>3 DEF Token
<1>5. "$" \in Token /\ "$" \notin Separator
  BY DEF Token, Separator
<1>6. new \in [1 .. Len(kept) -> Token] /\ \A k \in 1 .. Len(kept) : new[k] \notin Separator
  BY <1>4, <1>5
<1> HIDE DEF new
<1>7. new \in Text /\ Len(new) = Len(kept)
  BY <1>4, <1>6, SequenceOf DEF Text
<1> QED BY <1>1, <1>6, <1>7

\* The names on the disk.
LEMMA DatasetsAre == Datasets \in Seq(Seq(STRING)) /\ Len(Datasets) \in Nat
                     /\ DOMAIN Datasets = 1 .. Len(Datasets)
                     /\ \A j \in DOMAIN Datasets :
                           /\ Datasets[j] \in Seq(STRING)
                           /\ Called[j] = Sanitized(Datasets[j]) /\ Called[j] \in Text
                           /\ \A i \in 1 .. Len(Called[j]) : Called[j][i] \notin Separator
                           /\ Kept[j] = Truncated(Called[j])
<1>1. Datasets \in Seq(Seq(STRING))
  BY VirtualDiskAssumption
<1>2. ASSUME NEW j \in DOMAIN Datasets PROVE Datasets[j] \in Seq(STRING)
  BY <1>1
<1> QED BY <1>1, <1>2, SanitizedIs DEF Called, Kept

\* One dataset more.
WithDataset(t, d, name) ==
    IF Sanitized(name) = <<>> THEN t ELSE CreateUnder(t, d, Sanitized(name), "ds")

\* It leaves a tree that has grown.
LEMMA WithDatasetIs ==
  ASSUME NEW t \in Tree, NEW d \in 1 .. Len(t), NEW name \in Seq(STRING)
  PROVE  /\ WithDataset(t, d, name) \in Tree /\ Len(t) <= Len(WithDataset(t, d, name))
         /\ Sanitized(name) # <<>> =>
              CreatedUnder(t, WithDataset(t, d, name), d, Sanitized(name), "ds")
<1>1. Sanitized(name) \in Text /\ "ds" \in Driver /\ Len(t) \in Nat
  BY SanitizedIs, TreeFacts DEF Driver
<1>2. CreatedUnder(t, CreateUnder(t, d, Sanitized(name), "ds"), d, Sanitized(name), "ds")
  BY <1>1, CreateUnderIs
<1> DEFINE u == CreateUnder(t, d, Sanitized(name), "ds")
<1>3. u \in Tree /\ Len(u) = Len(t) + 1
  BY <1>2 DEF CreatedUnder
<1>4. Len(t) <= Len(t) /\ Len(t) <= Len(u)
  <2> HIDE DEF u
  <2> QED BY <1>1, <1>3
<1>5. WithDataset(t, d, name) = IF Sanitized(name) = <<>> THEN t ELSE u
  BY DEF WithDataset
<1> HIDE DEF u
<1> QED BY <1>2, <1>3, <1>4, <1>5 DEF u

\* The datasets, one by one.
LEMMA MountSteps ==
  ASSUME NEW tree, NEW disk \in Tree, NEW d \in 1 .. Len(disk),
         disk = Create(tree, <<"/">>, <<"RDISK">>, "pds"), d = Len(disk)
  PROVE  \E f \in [0 .. Len(Datasets) -> {t \in Tree : d <= Len(t)}] :
           /\ f[0] = disk
           /\ \A k \in 1 .. Len(Datasets) : f[k] = WithDataset(f[k - 1], d, Datasets[k])
           /\ Mount(tree) = f[Len(Datasets)]
<1> DEFINE V == {t \in Tree : d <= Len(t)}
           b == disk
           n == Len(Datasets)
           F == [p \in (1 .. n) \X V |-> WithDataset(p[2], d, Datasets[p[1]])]
           Iter(g) == g = [s \in SUBSET (1 .. n) |->
                IF s = {} THEN b ELSE WithDataset(g[s \ {Max(s)}], d, Datasets[Max(s)])]
           iter == CHOOSE g : Iter(g)
<1>1. n \in Nat /\ DOMAIN Datasets = 1 .. n /\ b \in V
  BY TreeFacts, DatasetsAre
<1>2. ASSUME NEW v \in V, NEW x \in Seq(STRING) PROVE WithDataset(v, d, x) \in V
  <2>1. d \in Nat /\ d >= 1 /\ v \in Tree /\ d <= Len(v) /\ Len(v) \in Nat
    BY TreeFacts
  <2>2. d \in 1 .. Len(v)
    BY <2>1
  <2>3. WithDataset(v, d, x) \in Tree /\ Len(v) <= Len(WithDataset(v, d, x))
    BY <2>1, <2>2, WithDatasetIs
  <2>4. Len(WithDataset(v, d, x)) \in Nat
    BY <2>3, TreeFacts
  <2> QED BY <2>1, <2>3, <2>4
<1> HIDE DEF V
<1>3. Folding(n, V, b, F)
  <2>1. \A p \in (1 .. n) \X V : Datasets[p[1]] \in Seq(STRING) /\ p[2] \in V
    BY <1>1, DatasetsAre
  <2>2. \A p \in (1 .. n) \X V : WithDataset(p[2], d, Datasets[p[1]]) \in V
    BY <1>2, <2>1
  <2> QED BY <1>1, <2>2 DEF Folding
<1>4. \A k \in 1 .. n, v \in V : F[<<k, v>>] = WithDataset(v, d, Datasets[k])
  BY DEF F
<1>5. Mount(tree) = iter[1 .. n]
  BY <1>1, d = Len(disk) DEF iter, b, n, Mount, WithDataset, FoldLeft, MapThenFoldSet
<1> HIDE DEF F, n, b, iter
<1>6. Iter(iter)
  <2>1. PICK g : Iterates(g, n, V, b, F)
    BY <1>3, FoldExists
  <2>2. ASSUME NEW s \in SUBSET (1 .. n), s # {} PROVE Max(s) \in 1 .. n /\ g[s \ {Max(s)}] \in V
    BY <1>1, <2>1, <2>2, MaxIn DEF Iterates
  <2>3. ASSUME NEW s \in SUBSET (1 .. n)
        PROVE g[s] = IF s = {} THEN b ELSE WithDataset(g[s \ {Max(s)}], d, Datasets[Max(s)])
    BY <1>4, <2>1, <2>2 DEF Iterates
  <2>4. Iter(g)
    BY <2>1, <2>3 DEF Iterates
  <2> HIDE DEF Iter
  <2> QED BY <2>4 DEF iter
<1>7. \A s \in SUBSET (1 .. n) :
        iter[s] = IF s = {} THEN b ELSE WithDataset(iter[s \ {Max(s)}], d, Datasets[Max(s)])
  BY <1>6
<1> HIDE DEF Iter
<1>8. IterSteps(iter, n, V, b, F)
  <2>1. iter[{}] = b
    BY <1>7
  <2>2. ASSUME NEW k \in 1 .. n, iter[1 .. (k - 1)] \in V
        PROVE  iter[1 .. k] = F[<<k, iter[1 .. (k - 1)]>>]
    <3>1. /\ Max(1 .. k) = k /\ (1 .. k) \ {k} = 1 .. (k - 1) /\ 1 .. k # {}
          /\ 1 .. k \in SUBSET (1 .. n)
      BY <1>1, FirstOnes
    <3>2. iter[1 .. k] = WithDataset(iter[1 .. (k - 1)], d, Datasets[k])
      BY <1>7, <3>1
    <3> QED BY <1>4, <2>2, <3>2
  <2> QED BY <2>1, <2>2 DEF IterSteps
<1>9. PICK f : StepsTo(f, iter[1 .. n], n, V, b, F)
  BY <1>3, <1>8, FoldSteps
<1>10. ASSUME NEW k \in 1 .. n PROVE f[k] = WithDataset(f[k - 1], d, Datasets[k])
  <2>1. k - 1 \in 0 .. n
    BY <1>1
  <2> QED BY <1>4, <1>9, <2>1 DEF StepsTo
<1> QED BY <1>5, <1>9, <1>10 DEF V, n, b, StepsTo

\* What is under the mount point d: nodes of the first k datasets.  By the name kept of one of
\* them a node is found, its own or one of a dataset before it.
Filled(t, d, k) ==
    /\ t \in Tree /\ d \in 1 .. Len(t) /\ Child(t, 1, <<"RDISK">>) = d
    /\ \A i \in 1 .. Len(t[d].kids) :
          /\ t[t[d].kids[i]].driver = "ds"
          /\ \E j \in 1 .. k : t[t[d].kids[i]].name = Kept[j]
    /\ \A j \in 1 .. k : Called[j] # <<>> =>
          /\ Child(t, d, Kept[j]) # Null
          /\ \E i \in 1 .. j : t[Child(t, d, Kept[j])].name = Kept[i]

\* A dataset more is under the mount point, and those before stay.
LEMMA FilledStep ==
  ASSUME NEW t, NEW d, NEW k \in DOMAIN Datasets, Filled(t, d, k - 1)
  PROVE  Filled(WithDataset(t, d, Datasets[k]), d, k)
<1> DEFINE name == Called[k]
           u == WithDataset(t, d, Datasets[k])
<1>1. /\ t \in Tree /\ d \in 1 .. Len(t) /\ Datasets[k] \in Seq(STRING) /\ k \in Nat /\ k >= 1
      /\ Len(t) \in Nat /\ name = Sanitized(Datasets[k]) /\ Kept[k] = Truncated(name)
  BY DatasetsAre, TreeFacts DEF Filled
<1>2. /\ 1 .. (k - 1) \subseteq 1 .. k /\ k \in 1 .. k
      /\ \A j \in 1 .. k : j # k => j \in 1 .. (k - 1)
  BY <1>1
<1>3. CASE name = <<>>
  <2>1. u = t
    BY <1>1, <1>3 DEF WithDataset
  <2>2. ASSUME NEW j \in 1 .. k, Called[j] # <<>> PROVE j \in 1 .. (k - 1)
    BY <1>2, <1>3, <2>2
  <2>3. ASSUME NEW i \in 1 .. Len(t[d].kids)
        PROVE  /\ t[t[d].kids[i]].driver = "ds"
               /\ \E j \in 1 .. k : t[t[d].kids[i]].name = Kept[j]
    BY <1>2 DEF Filled
  <2>4. ASSUME NEW j \in 1 .. k, Called[j] # <<>>
        PROVE  /\ Child(t, d, Kept[j]) # Null
               /\ \E i \in 1 .. j : t[Child(t, d, Kept[j])].name = Kept[i]
    BY <2>2, <2>4 DEF Filled
  <2> QED BY <1>1, <2>1, <2>3, <2>4 DEF Filled
<1>4. CASE name # <<>>
  <2>1. CreatedUnder(t, u, d, name, "ds")
    BY <1>1, <1>4, WithDatasetIs
  <2> HIDE DEF u
  <2>2. /\ u \in Tree /\ Len(u) = Len(t) + 1 /\ Grows(t, u) /\ d \in 1 .. Len(u)
        /\ u[d].kids = Append(t[d].kids, Len(u))
        /\ u[Len(u)].name = Kept[k] /\ u[Len(u)].driver = "ds"
    BY <1>1, <2>1 DEF CreatedUnder
  <2>3. /\ t[d].kids \in Seq(Nat) /\ Len(t[d].kids) \in Nat /\ 1 \in 1 .. Len(t) /\ d # Null
        /\ \A i \in 1 .. Len(t[d].kids) : t[d].kids[i] \in 2 .. Len(t)
    BY <1>1, TreeFacts DEF Null
  <2>4. /\ Len(u[d].kids) = Len(t[d].kids) + 1 /\ u[d].kids[Len(t[d].kids) + 1] = Len(u)
        /\ \A i \in 1 .. Len(t[d].kids) : u[d].kids[i] = t[d].kids[i]
    <3>1. Len(u) \in Nat
      BY <1>1, <2>2
    <3> QED BY <2>2, <2>3, <3>1, AppendAt
  <2>5. Child(u, 1, <<"RDISK">>) = d
    BY <1>1, <2>2, <2>3, ChildStays DEF Filled
  <2>6. ASSUME NEW i \in 1 .. Len(u[d].kids)
        PROVE  /\ u[u[d].kids[i]].driver = "ds"
               /\ \E j \in 1 .. k : u[u[d].kids[i]].name = Kept[j]
    <3>1. CASE i \in 1 .. Len(t[d].kids)
      <4>1. u[d].kids[i] = t[d].kids[i] /\ t[d].kids[i] \in 1 .. Len(t)
        <5>1. u[d].kids[i] = t[d].kids[i]
          BY <2>4, <3>1
        <5>2. t[d].kids[i] \in 2 .. Len(t)
          BY <2>3, <3>1
        <5>3. 2 .. Len(t) \subseteq 1 .. Len(t)
          BY <1>1
        <5> QED BY <5>1, <5>2, <5>3
      <4>2. /\ t[t[d].kids[i]].driver = "ds"
            /\ \E j \in 1 .. k : t[t[d].kids[i]].name = Kept[j]
        BY <1>2, <3>1 DEF Filled
      <4>3. /\ u[t[d].kids[i]].driver = t[t[d].kids[i]].driver
            /\ u[t[d].kids[i]].name = t[t[d].kids[i]].name
        BY <2>2, <4>1 DEF Grows
      <4> QED BY <4>1, <4>2, <4>3
    <3>2. CASE i = Len(t[d].kids) + 1
      BY <1>2, <2>2, <2>4, <3>2
    <3>3. i \in 1 .. Len(t[d].kids) \/ i = Len(t[d].kids) + 1
      BY <2>3, <2>4
    <3> QED BY <3>1, <3>2, <3>3
  <2>7. ASSUME NEW j \in 1 .. k, Called[j] # <<>>
        PROVE  /\ Child(u, d, Kept[j]) # Null
               /\ \E i \in 1 .. j : u[Child(u, d, Kept[j])].name = Kept[i]
    <3>1. CASE j = k
      <4>1. u[Len(u)].sum = Sum(Kept[k]) /\ Len(t[d].kids) + 1 \in 1 .. Len(u[d].kids)
        <5>1. Len(u) \in 1 .. Len(u)
          BY <1>1, <2>2
        <5>2. u[Len(u)].sum = Sum(u[Len(u)].name)
          BY <2>2, <5>1, TreeFacts
        <5>3. Len(t[d].kids) + 1 \in 1 .. Len(u[d].kids)
          BY <2>3, <2>4
        <5> QED BY <2>2, <5>2, <5>3
      <4>2. u[u[d].kids[Len(t[d].kids) + 1]].sum = Sum(Kept[k])
        BY <2>4, <4>1
      <4>3. PICK i : IsFirst(u, d, Kept[k], i) /\ Child(u, d, Kept[k]) = u[d].kids[i]
        BY <2>2, <4>1, <4>2, ChildIs
      <4>4. i \in 1 .. Len(u[d].kids)
        BY <4>3 DEF IsFirst
      <4>5. u[d].kids[i] \in 2 .. Len(u)
        BY <2>2, <4>4, TreeFacts
      <4>6. \E m \in 1 .. k : u[u[d].kids[i]].name = Kept[m]
        BY <2>6, <4>4
      <4> QED BY <3>1, <4>3, <4>5, <4>6 DEF Null
    <3>2. CASE j # k
      <4>1. j \in 1 .. (k - 1)
        BY <1>2, <3>2
      <4>2. /\ Child(t, d, Kept[j]) # Null
            /\ \E i \in 1 .. j : t[Child(t, d, Kept[j])].name = Kept[i]
        BY <2>7, <4>1 DEF Filled
      <4>3. Child(u, d, Kept[j]) = Child(t, d, Kept[j])
        BY <1>1, <2>2, <4>2, ChildStays
      <4>4. Child(t, d, Kept[j]) \in 1 .. Len(t)
        <5>1. Child(t, d, Kept[j]) \in 0 .. Len(t)
          BY <1>1, ChildIs
        <5> QED BY <1>1, <4>2, <5>1 DEF Null
      <4>5. u[Child(t, d, Kept[j])].name = t[Child(t, d, Kept[j])].name
        BY <2>2, <4>4 DEF Grows
      <4> QED BY <4>2, <4>3, <4>5
    <3> QED BY <3>1, <3>2
  <2> QED BY <2>2, <2>5, <2>6, <2>7 DEF Filled, u
<1> QED BY <1>3, <1>4

\* The mount point is found, and under it, by what is kept of the name of each dataset that has
\* one, a dataset's node: its own, or that of one before it.
Found(t) ==
    \E d \in 1 .. Len(t) :
        /\ Child(t, 1, <<"RDISK">>) = d
        /\ \A k \in DOMAIN Datasets : Called[k] # <<>> =>
              \E c \in 1 .. Len(t) :
                 /\ Child(t, d, Kept[k]) = c /\ t[c].driver = "ds"
                 /\ \E j \in 1 .. k : t[c].name = Kept[j]

\* All the datasets under the mount point: each is found.
LEMMA FoundInFilled ==
  ASSUME NEW t, NEW d, Filled(t, d, Len(Datasets))
  PROVE  t \in Tree /\ Found(t)
<1>1. t \in Tree /\ d \in 1 .. Len(t) /\ Child(t, 1, <<"RDISK">>) = d
  BY DEF Filled
<1>2. ASSUME NEW k \in DOMAIN Datasets, Called[k] # <<>>
      PROVE  \E c \in 1 .. Len(t) :
                /\ Child(t, d, Kept[k]) = c /\ t[c].driver = "ds"
                /\ \E j \in 1 .. k : t[c].name = Kept[j]
  <2>1. /\ Child(t, d, Kept[k]) # Null
        /\ \E j \in 1 .. k : t[Child(t, d, Kept[k])].name = Kept[j]
    <3>1. k \in 1 .. Len(Datasets)
      BY DatasetsAre
    <3> QED BY <1>2, <3>1 DEF Filled
  <2>2. PICK i : IsFirst(t, d, Kept[k], i) /\ Child(t, d, Kept[k]) = t[d].kids[i]
    <3>1. \A name : Child(t, d, name) # Null =>
                       \E i : IsFirst(t, d, name, i) /\ Child(t, d, name) = t[d].kids[i]
      BY <1>1, ChildIs
    <3> QED BY <2>1, <3>1
  <2>3. i \in 1 .. Len(t[d].kids)
    BY <2>2 DEF IsFirst
  <2>4. t[d].kids[i] \in 1 .. Len(t)
    <3>1. t[d].kids[i] \in 2 .. Len(t)
      BY <1>1, <2>3, TreeFacts
    <3> QED BY <3>1
  <2>5. t[t[d].kids[i]].driver = "ds"
    BY <2>3 DEF Filled
  <2> QED BY <2>1, <2>2, <2>4, <2>5
<1> QED BY <1>1, <1>2 DEF Found

\* What is found is still found when nodes are added.
LEMMA FoundStays ==
  ASSUME NEW t \in Tree, NEW u \in Tree, Grows(t, u), Found(t)
  PROVE  Found(u)
<1>1. PICK d \in 1 .. Len(t) :
        /\ Child(t, 1, <<"RDISK">>) = d
        /\ \A k \in DOMAIN Datasets : Called[k] # <<>> =>
              \E c \in 1 .. Len(t) :
                 /\ Child(t, d, Kept[k]) = c /\ t[c].driver = "ds"
                 /\ \E j \in 1 .. k : t[c].name = Kept[j]
  BY DEF Found
<1>2. \A n \in 1 .. Len(t) : n # Null /\ n \in 1 .. Len(u)
  BY TreeFacts DEF Grows, Null
<1>3. 1 \in 1 .. Len(t)
  BY TreeFacts
<1>4. Child(u, 1, <<"RDISK">>) = d
  BY <1>1, <1>2, <1>3, ChildStays
<1>5. ASSUME NEW k \in DOMAIN Datasets, Called[k] # <<>>
      PROVE  \E c \in 1 .. Len(u) :
                /\ Child(u, d, Kept[k]) = c /\ u[c].driver = "ds"
                /\ \E j \in 1 .. k : u[c].name = Kept[j]
  <2>1. PICK c \in 1 .. Len(t) :
          /\ Child(t, d, Kept[k]) = c /\ t[c].driver = "ds"
          /\ \E j \in 1 .. k : t[c].name = Kept[j]
    BY <1>1, <1>5
  <2>2. Child(u, d, Kept[k]) = c
    BY <1>2, <2>1, ChildStays
  <2>3. u[c].driver = t[c].driver /\ u[c].name = t[c].name
    BY DEF Grows
  <2> QED BY <1>2, <2>1, <2>2, <2>3
<1> QED BY <1>1, <1>2, <1>4, <1>5 DEF Found

\* zdsfs::init: the mount point is the first of its name, and the datasets are under it.
LEMMA MountIs ==
  ASSUME NEW t \in BootTree
  PROVE  Mount(t) \in Tree /\ Found(Mount(t))
<1> DEFINE disk == Create(t, <<"/">>, <<"RDISK">>, "pds")
           d == Len(disk)
<1>1. t \in Tree /\ 1 \in 1 .. Len(t) /\ Len(t) \in Nat
  BY TreeFacts DEF BootTree
<1>2. CreatedUnder(t, disk, 1, <<"RDISK">>, "pds")
  <2>1. <<>> \in Seq(Text) /\ Len(<<>>) = 0 /\ 1 \in 0 .. Len(t)
    BY <1>1
  <2>2. ByName(t, 1, <<"/">>) = 1
    <3>1. Components(<<"/">>) \in Seq(Text) /\ Len(Components(<<"/">>)) = 0
      BY <2>1, RootPath
    <3>2. 1 \in 0 .. Len(t) /\ t \in Tree
      BY <1>1
    <3> QED BY <3>1, <3>2, ByNothing, Zenon
  <2>3. Resolve(t, Absolute(<<"/">>)) = 1
    BY <1>1, <2>2, NoLetters
  <2>4. disk = CreateUnder(t, 1, <<"RDISK">>, "pds")
    BY <2>3 DEF Create, Null
  <2>5. <<"RDISK">> \in Text /\ "pds" \in Driver
    BY BootNames DEF Driver
  <2> QED BY <1>1, <2>4, <2>5, CreateUnderIs
<1> HIDE DEF disk
<1>3. /\ disk \in Tree /\ d = Len(t) + 1 /\ d \in 1 .. Len(disk) /\ Grows(t, disk)
      /\ disk[d].kids = <<>> /\ disk[d].name = <<"RDISK">>
      /\ disk[1].kids = Append(t[1].kids, d)
  BY <1>1, <1>2, BootNames DEF CreatedUnder
<1>4. Child(disk, 1, <<"RDISK">>) = d
  <2> DEFINE l == Len(t[1].kids)
  <2>1. /\ t[1].kids \in Seq(Nat) /\ l \in Nat
        /\ \A i \in 1 .. l : t[1].kids[i] \in 2 .. Len(t)
    BY <1>1, TreeFacts
  <2>2. /\ Len(disk[1].kids) = l + 1 /\ disk[1].kids[l + 1] = d
        /\ \A i \in 1 .. l : disk[1].kids[i] = t[1].kids[i]
    BY <1>1, <1>3, <2>1
  <2>3. disk[d].sum = Sum(<<"RDISK">>)
    BY <1>3, TreeFacts
  <2>4. ASSUME NEW i \in 1 .. l PROVE disk[disk[1].kids[i]].sum # Sum(<<"RDISK">>)
    <3>1. disk[1].kids[i] \in 2 .. Len(t) /\ disk[1].kids[i] \in 1 .. Len(t)
      <4>1. disk[1].kids[i] = t[1].kids[i]
        BY <2>2
      <4>2. t[1].kids[i] \in 2 .. Len(t)
        BY <2>1
      <4>3. 2 .. Len(t) \subseteq 1 .. Len(t)
        BY <1>1
      <4> QED BY <4>1, <4>2, <4>3
    <3>2. disk[disk[1].kids[i]].sum = t[disk[1].kids[i]].sum
      BY <1>3, <3>1 DEF Grows
    <3>3. t[disk[1].kids[i]].sum = Sum(t[disk[1].kids[i]].name)
      BY <1>1, <3>1, TreeFacts
    <3>4. t[disk[1].kids[i]].name \in BootName
      BY <3>1 DEF BootTree
    <3> QED BY <3>2, <3>3, <3>4, BootNames
  <2> HIDE DEF l
  <2>5. IsFirst(disk, 1, <<"RDISK">>, l + 1)
    <3>1. l + 1 \in 1 .. Len(disk[1].kids) /\ (l + 1) - 1 = l
      BY <2>1, <2>2
    <3> QED BY <2>2, <2>3, <2>4, <3>1 DEF IsFirst
  <2>6. 1 \in 1 .. Len(disk)
    BY <1>3, TreeFacts
  <2> QED BY <1>3, <2>2, <2>5, <2>6, FirstIsChild
<1>5. Filled(disk, d, 0)
  <2>1. Len(disk[d].kids) = 0
    BY <1>3
  <2> QED BY <1>3, <1>4, <2>1 DEF Filled
<1>6. PICK f \in [0 .. Len(Datasets) -> {u \in Tree : d <= Len(u)}] :
        /\ f[0] = disk
        /\ \A k \in 1 .. Len(Datasets) : f[k] = WithDataset(f[k - 1], d, Datasets[k])
        /\ Mount(t) = f[Len(Datasets)]
  <2>1. disk = Create(t, <<"/">>, <<"RDISK">>, "pds")
    BY DEF disk
  <2> QED BY <1>3, <2>1, MountSteps
<1> DEFINE G == {k \in 0 .. Len(Datasets) : Filled(f[k], d, k)}
<1> HIDE DEF d
<1>7. Len(Datasets) \in G
  <2>1. 0 \in G /\ Len(Datasets) \in Nat
    BY <1>5, <1>6, DatasetsAre
  <2>2. ASSUME NEW k \in 1 .. Len(Datasets), k - 1 \in G PROVE k \in G
    <3>1. Filled(f[k - 1], d, k - 1) /\ k \in DOMAIN Datasets
      BY <2>2, DatasetsAre
    <3>2. Filled(f[k], d, k)
      BY <1>6, <3>1, FilledStep
    <3> QED BY <3>2
  <2> HIDE DEF G
  <2>3. 0 .. Len(Datasets) \subseteq G
    BY <2>1, <2>2, UpTo
  <2> QED BY <2>1, <2>3
<1>8. Filled(Mount(t), d, Len(Datasets))
  BY <1>6, <1>7
<1> QED BY <1>8, FoundInFilled

-----------------------------------------------------------------------------
\* While the disk is not mounted no program runs and the tree is the one of boot; from then
\* on it only grows.
TreeInv ==
    /\ nodes \in Tree
    /\ mounted = Null => nodes \in BootTree /\ \A p \in Programs : pc[p] = BOOT
    /\ mounted # Null => Found(nodes)

\* A node more, wherever it goes: what was found still is.
LEMMA FoundAfterCreate ==
  ASSUME NEW t \in Tree, Found(t), NEW text \in Text, NEW name \in Text, NEW driver \in Driver
  PROVE  Create(t, text, name, driver) \in Tree /\ Found(Create(t, text, name, driver))
<1> DEFINE u == Create(t, text, name, driver)
<1>1. PICK parent \in 1 .. Len(t) : CreatedUnder(t, u, parent, name, driver)
  BY CreateIs
<1> HIDE DEF u
<1>2. u \in Tree /\ Grows(t, u)
  BY <1>1 DEF CreatedUnder
<1>3. Found(u)
  BY <1>2, FoundStays
<1> QED BY <1>2, <1>3 DEF u

\* What programs open files by are texts.
LEMMA StreamPaths ==
  /\ \A k \in DOMAIN Streams : Streams[k] \in Text
  /\ \A text \in Paths : text \in Text
<1>1. /\ "/" \in Token /\ "CSUP" \in Token /\ "." \in Token /\ "IN" \in Token
      /\ "OUT" \in Token /\ "ERR" \in Token /\ "PRN" \in Token
  BY DEF Token, Separator, Word
<1>2. \A a, b, c, e \in Token : <<a, b, c, e>> \in Text
  BY DEF Text
<1>3. \A k \in DOMAIN Streams : Streams[k] \in Text
  BY <1>1, <1>2 DEF Streams
<1>4. Seq(STRING) \subseteq Text
  BY DEF Text, Token
<1> QED BY <1>3, <1>4, FilesAssumption

\* The invariant holds at the start.
LEMMA TreeStart == Init => TreeInv
<1> SUFFICES ASSUME Init PROVE TreeInv
  OBVIOUS
<1>1. nodes \in BootTree /\ mounted = Null /\ pc = [p \in Programs |-> BOOT]
  BY BootIs DEF Init, DiskInit
<1> QED BY <1>1 DEF TreeInv, BootTree

\* A step that adds no node and mounts nothing.
LEMMA TreeStays ==
  ASSUME TreeInv, UNCHANGED <<nodes, mounted>>, mounted # Null \/ UNCHANGED pc
  PROVE  TreeInv'
BY DEF TreeInv

\* MountDisk: the terminal's node comes after the datasets'.
LEMMA MountTree == TreeInv /\ MountDisk => TreeInv'
<1> SUFFICES ASSUME TreeInv, MountDisk PROVE TreeInv'
  OBVIOUS
<1>1. nodes \in BootTree
  BY DEF TreeInv, MountDisk
<1>2. Mount(nodes) \in Tree /\ Found(Mount(nodes))
  BY <1>1, MountIs
<1>3. Devices \in Text /\ <<"TERM000">> \in Text /\ "gs" \in Driver
  <2>1. "TERM000" \in Token
    BY DEF Token
  <2> QED BY <2>1, BootPaths DEF Driver
<1>4. nodes' \in Tree /\ Found(nodes')
  BY <1>2, <1>3, FoundAfterCreate DEF MountDisk
<1>5. mounted' # Null
  BY NullIsNoHandle DEF MountDisk, Free
<1> QED BY <1>4, <1>5 DEF TreeInv

\* What could not be opened may be created, at the root.
LEMMA OpenTree ==
  ASSUME TreeInv, mounted # Null, NEW p \in Programs, NEW text \in Text, NEW flags, NEW next,
         NEW failed, Open(p, text, flags, next, failed)
  PROVE  TreeInv'
<1>1. nodes \in Tree /\ Found(nodes)
  BY DEF TreeInv
<1>2. CASE UNCHANGED <<nodes, mounted>>
  BY <1>2, TreeStays
<1>3. CASE nodes' = Added(<<"/", "TAPE">>, text) /\ UNCHANGED mounted
  <2>1. <<"/", "TAPE">> \in Text /\ "none" \in Driver
    BY BootPaths DEF Driver
  <2>2. nodes' \in Tree /\ Found(nodes')
    BY <1>1, <1>3, <2>1, FoundAfterCreate DEF Added
  <2> QED BY <1>3, <2>2 DEF TreeInv
<1> QED BY <1>2, <1>3 DEF Open, diskVars

\* No call on a handle adds a node or mounts a disk.
LEMMA OnHandleTree ==
  ASSUME NEW index, SvcWrite(index) \/ SvcFlush(index) \/ SvcRead(index) \/ SvcClose(index)
  PROVE  UNCHANGED <<nodes, mounted>>
BY DEF SvcWrite, SvcFlush, SvcRead, SvcClose, OnHandle

\* Whatever a program does.
LEMMA MainTree ==
  ASSUME TreeInv, mounted # Null, NEW p \in Programs, Main(p)
  PROVE  TreeInv'
<1>1. ASSUME UNCHANGED <<nodes, mounted>> PROVE TreeInv'
  BY <1>1, TreeStays
<1>2. ASSUME NEW text \in Paths, NEW flags \in Modes, Open(p, text, flags, MAIN, MAIN)
      PROVE  TreeInv'
  BY <1>2, StreamPaths, OpenTree
<1>3. ASSUME NEW fd \in Fd, Fclose(p, fd) \/ Fwrite(p, fd) \/ Fread(p, fd) \/ Fflush(p, fd)
      PROVE  TreeInv'
  BY <1>1, <1>3, OnHandleTree DEF Fclose, Fwrite, Fread, Fflush
<1>4. ASSUME NEW fd \in Fd, NEW newfd \in Fd, Dup(p, fd, newfd) PROVE TreeInv'
  BY <1>1, <1>3, <1>4 DEF Dup, diskVars
<1>5. ASSUME NEW text \in Paths, RemoveFile(text) PROVE TreeInv'
  BY <1>1, <1>5 DEF RemoveFile, SvcRemoveNode
<1>6. ASSUME UNCHANGED diskVars PROVE TreeInv'
  BY <1>1, <1>6 DEF diskVars
<1> QED BY <1>2, <1>3, <1>4, <1>5, <1>6 DEF Main

\* Each step preserves the invariant.
LEMMA TreeStep == TreeInv /\ [Next]_vars => TreeInv'
<1> SUFFICES ASSUME TreeInv, [Next]_vars PROVE TreeInv'
  OBVIOUS
<1>1. CASE UNCHANGED vars
  BY <1>1, TreeStays DEF vars
<1>2. ASSUME Boot PROVE TreeInv'
  <2>1. ASSUME LoadJda, mounted # Null PROVE TreeInv'
    BY <2>1, TreeStays DEF LoadJda
  <2> QED BY <1>2, <2>1, MountTree DEF Boot
<1>3. ASSUME NEW p \in Programs, pc[p] # BOOT PROVE mounted # Null
  BY <1>3 DEF TreeInv
<1>4. ASSUME NEW p \in Programs, NEW k \in DOMAIN Streams, Start(p, k) PROVE TreeInv'
  <2>1. DOMAIN Streams = 1 .. 4
    BY DEF Streams
  <2>2. mounted # Null
    BY <1>3, <1>4, <2>1 DEF Start, BOOT
  <2> QED BY <1>4, <2>2, StreamPaths, OpenTree DEF Start
<1>5. MAIN # BOOT /\ EXIT # BOOT
  BY DEF MAIN, EXIT, BOOT, Streams
<1>6. ASSUME NEW p \in Programs, Main(p) PROVE TreeInv'
  <2>1. mounted # Null
    BY <1>3, <1>5, <1>6 DEF Main
  <2> QED BY <1>6, <2>1, MainTree
<1>7. ASSUME NEW p \in Programs, Exit(p) PROVE TreeInv'
  <2>1. mounted # Null
    BY <1>3, <1>5, <1>7 DEF Exit
  <2>2. UNCHANGED <<nodes, mounted>>
    BY <1>7, OnHandleTree DEF Exit, Fclose
  <2> QED BY <2>1, <2>2, TreeStays
<1> QED BY <1>1, <1>2, <1>4, <1>6, <1>7 DEF Next

\* The path of a dataset leads to what is found under the mount point by the name, if it is.
LEMMA ByDatasetPath ==
  ASSUME NEW t \in Tree, NEW d \in 1 .. Len(t), Child(t, 1, <<"RDISK">>) = d,
         NEW k \in DOMAIN Datasets, Called[k] # <<>>
  PROVE  Resolve(t, Absolute(DatasetPath(Called[k]))) = Child(t, d, Called[k])
<1> DEFINE name == Called[k]
           path == DatasetPath(name)
           parts == << <<"RDISK">>, name >>
<1>1. name \in Text /\ name # <<>> /\ \A i \in 1 .. Len(name) : name[i] \notin Separator
  BY DatasetsAre
<1> HIDE DEF name
<1>2. Components(path) = parts
  BY <1>1, DatasetComponents
<1>3. Components(path) \in Seq(Text)
  <2>1. <<"RDISK">> \in Text
    BY BootNames
  <2> QED BY <1>1, <1>2, <2>1
<1>4. ByName(t, 1, path) = Child(t, d, name)
  <2> HIDE DEF path
  <2>1. PICK root \in 0 .. Len(t) : root = 1
    BY TreeFacts
  <2>2. LeadsByTwo(t, root, path)
    BY <1>3, ByTwoNames
  <2>3. root # Null /\ d # Null /\ Child(t, root, <<"RDISK">>) = d
    BY <2>1 DEF Null
  <2>4. ByName(t, root, path) = Child(t, d, name)
    BY <1>2, <2>2, <2>3 DEF LeadsByTwo
  <2> QED BY <2>1, <2>4
<1>5. Resolve(t, Absolute(path)) = Child(t, d, name)
  BY <1>4, NoLetters
<1> QED BY <1>5 DEF name, path

\* A name that does not fit into a node is none's.
LEMMA NoneSoLong ==
  ASSUME NEW t \in Tree, NEW n \in 1 .. Len(t), NEW name, ~(Sum(name).length <= NameSize)
  PROVE  Child(t, n, name) = Null
<1> SUFFICES ASSUME Child(t, n, name) # Null PROVE FALSE
  OBVIOUS
<1>1. PICK i : IsFirst(t, n, name, i)
  BY ChildIs
<1>2. i \in 1 .. Len(t[n].kids) /\ t[t[n].kids[i]].sum = Sum(name)
  BY <1>1 DEF IsFirst
<1>3. t[n].kids[i] \in 1 .. Len(t)
  <2>1. t[n].kids[i] \in 2 .. Len(t) /\ Len(t) \in Nat
    BY <1>2, TreeFacts
  <2> QED BY <2>1
<1>4. t[t[n].kids[i]].sum.length <= NameSize
  BY <1>3, TreeFacts
<1> QED BY <1>2, <1>4

\* Whatever the names on the disk, and whatever programs create beside them, each dataset whose
\* name fits into a node (vdisk.cxx:179) is found under the mount point, as its own node or
\* that of a dataset before it whose name, as far as it was kept, has the same length and sum
\* (vdisk.cxx:137); and none with a longer name is ever found (vdisk.cxx:134).
THEOREM DatasetsStayFound == Spec => []DatasetsFound
<1>1. TreeInv => DatasetsFound
  <2> SUFFICES ASSUME TreeInv, mounted # Null PROVE DatasetsFound
    BY DEF DatasetsFound
  <2>1. nodes \in Tree /\ Found(nodes)
    BY DEF TreeInv
  <2>2. PICK d \in 1 .. Len(nodes) :
          /\ Child(nodes, 1, <<"RDISK">>) = d
          /\ \A k \in DOMAIN Datasets : Called[k] # <<>> =>
                \E c \in 1 .. Len(nodes) :
                   /\ Child(nodes, d, Kept[k]) = c /\ nodes[c].driver = "ds"
                   /\ \E j \in 1 .. k : nodes[c].name = Kept[j]
    BY <2>1 DEF Found
  <2>3. ASSUME NEW k \in DOMAIN Datasets, Called[k] # <<>>
        PROVE  LET found == Resolve(nodes, Absolute(<<"/", "RDISK", "/">> \o Called[k]))
               IN  IF Sum(Called[k]).length <= NameSize
                   THEN /\ found # Null /\ nodes[found].driver = "ds"
                        /\ nodes[found].sum = Sum(Called[k])
                        /\ \E j \in 1 .. k : nodes[found].name = Kept[j]
                   ELSE found = Null
    <3> DEFINE name == Called[k]
               found == Resolve(nodes, Absolute(<<"/", "RDISK", "/">> \o name))
    <3>1. found = Child(nodes, d, name)
      BY <2>1, <2>2, <2>3, ByDatasetPath DEF DatasetPath
    <3> HIDE DEF found
    <3>2. CASE Sum(name).length <= NameSize
      <4>1. Kept[k] = name
        BY <3>2, DatasetsAre, TruncatedIs
      <4>2. PICK c \in 1 .. Len(nodes) :
              /\ Child(nodes, d, name) = c /\ nodes[c].driver = "ds"
              /\ \E j \in 1 .. k : nodes[c].name = Kept[j]
        BY <2>2, <2>3, <4>1
      <4>3. c # Null
        BY DEF Null
      <4>4. PICK i : IsFirst(nodes, d, name, i) /\ Child(nodes, d, name) = nodes[d].kids[i]
        <5>1. \A n : Child(nodes, d, n) # Null =>
                        \E i : IsFirst(nodes, d, n, i) /\ Child(nodes, d, n) = nodes[d].kids[i]
          BY <2>1, ChildIs
        <5> QED BY <4>2, <4>3, <5>1
      <4>5. nodes[c].sum = Sum(name)
        BY <4>2, <4>4 DEF IsFirst
      <4> QED BY <3>1, <3>2, <4>2, <4>3, <4>5 DEF found
    <3>3. CASE ~(Sum(name).length <= NameSize)
      <4>1. found = Null
        BY <2>1, <3>1, <3>3, NoneSoLong
      <4> QED BY <3>3, <4>1 DEF found
    <3> QED BY <3>2, <3>3
  <2> QED BY <2>3 DEF DatasetsFound
<1> QED BY <1>1, TreeStart, TreeStep, PTL DEF Spec
=============================================================================
