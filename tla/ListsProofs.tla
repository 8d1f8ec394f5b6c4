----------------------------- MODULE ListsProofs ------------------------------
(***************************************************************************)
(* Theorems about Lists, for any number of lists, sizes of elements and    *)
(* regions.  Cells are counted from the beginning of a list's chunk; the   *)
(* one numbered 0 is not among those that storage::move is known to keep.  *)
(***************************************************************************)
EXTENDS Lists, TLAPS

Elements == Values \cup {Unset}

\* Cells hold the elements mn of a list that has rm cells at p, its first cell aside.
Holds(s, p, rm, mn) ==
    \A i \in 0 .. Len(mn) - 1, q \in 0 .. ElementSize - 1 :
        (i # 0 \/ q # 0) /\ i * ElementSize + q < rm /\ mn[i + 1] # Unset
            => s[p + (i * ElementSize + q)] = Piece(mn[i + 1], q)

\* Elements there is no storage for have not been given a value.
Hollow(rm, mn) ==
    \A i \in 0 .. Len(mn) - 1 : i * ElementSize >= rm => mn[i + 1] = Unset

\* A list's chunk lies in the region and consists of elements.
Shaped(p, rm, sz, cp, mn) ==
    /\ p = Null => rm = 0
    /\ p # Null => p + rm <= High + 1
    /\ \E r \in Nat : rm = r * ElementSize
    /\ sz <= MaxElements /\ Len(mn) = sz
    /\ cp % ChunksPerAlloc = 0

Counted(rm, sz, cp) == sz <= cp /\ cp * ElementSize = rm

\* n cells at p and m cells at q have none in common.
Clear(p, n, q, m) == n = 0 \/ m = 0 \/ p + n <= q \/ q + m <= p

TypesInv ==
    /\ store \in [1 .. High + 1 -> Cells]
    /\ ptr \in [Names -> Nat] /\ room \in [Names -> Nat]
    /\ size \in [Names -> Nat] /\ capacity \in [Names -> Nat]
    /\ meant \in [Names -> Seq(Elements)]
    /\ failed \subseteq Names /\ stopped \in BOOLEAN

ListsInv ==
    /\ TypesInv
    /\ \A l \in Names : Shaped(ptr[l], room[l], size[l], capacity[l], meant[l])
    /\ \A l, m \in Names : l # m => Clear(ptr[l], room[l], ptr[m], room[m])
    /\ \A l \in Names \ failed : Counted(room[l], size[l], capacity[l])
    /\ stopped => failed # {}
    /\ ~stopped => \A l \in Names :
          Holds(store, ptr[l], room[l], meant[l]) /\ Hollow(room[l], meant[l])

-----------------------------------------------------------------------------
(* Numbers.                                                                *)

LEMMA Sizes ==
    /\ ElementSize \in Nat /\ ElementSize > 0
    /\ ChunksPerAlloc \in Nat /\ ChunksPerAlloc > 0
    /\ Align \in Nat /\ Align > 0
    /\ High \in Nat /\ MaxElements \in Nat /\ MaxCapacity \in Nat
BY ListsAssumption

\* A number is divided.
LEMMA Quotient ==
    ASSUME NEW x \in Nat, NEW a \in Nat, a > 0
    PROVE  /\ x \div a \in Nat /\ x % a \in 0 .. a - 1
           /\ x = (x \div a) * a + (x % a)
<1> DEFINE q == x \div a
           r == x % a
<1>1. q \in Int /\ r \in 0 .. a - 1 /\ x = a * q + r
  OBVIOUS
<1> HIDE DEF q, r
<1>2. CASE q <= -1
  <2>1. a * q <= -a
    BY <1>1, <1>2
  <2> QED BY <1>1, <2>1
<1>3. CASE q >= 0
  <2>1. q \in Nat /\ x = q * a + r
    BY <1>1, <1>3
  <2> QED BY <1>1, <2>1 DEF q, r
<1> QED BY <1>1, <1>2, <1>3

\* A multiple leaves nothing.
LEMMA NothingLeft ==
    ASSUME NEW a \in Nat, a > 0, NEW q \in Nat
    PROVE  (q * a) % a = 0
<1> DEFINE x == q * a
           p == x \div a
           s == x % a
<1>1. x \in Nat
  OBVIOUS
<1>2. p \in Int /\ s \in 0 .. a - 1 /\ x = a * p + s
  BY <1>1
<1> HIDE DEF p, s
<1>3. PICK e \in Int : e = q - p
  BY <1>2
<1>4. q * a = p * a + e * a
  BY <1>2, <1>3
<1>5. e * a = s
  BY <1>2, <1>4
<1>6. CASE e = 0
  BY <1>2, <1>5, <1>6 DEF s
<1>7. CASE e >= 1
  <2>1. e * a >= a
    BY <1>7
  <2> QED BY <1>2, <1>5, <2>1
<1>8. CASE e <= -1
  <2>1. e * a <= -a
    BY <1>8
  <2> QED BY <1>2, <1>5, <2>1
<1> QED BY <1>3, <1>6, <1>7, <1>8

\* An element's cells lie before those of the next ones.
LEMMA CellsInOrder ==
    ASSUME NEW i \in Nat, NEW j \in Nat, i < j
    PROVE  /\ i * ElementSize \in Nat /\ j * ElementSize \in Nat
           /\ i * ElementSize + ElementSize <= j * ElementSize
<1>1. PICK d \in Nat : j = i + 1 + d
  <2>1. j - (i + 1) \in Nat /\ j = i + 1 + (j - (i + 1))
    OBVIOUS
  <2> QED BY <2>1
<1>2. ElementSize \in Nat
  BY Sizes
<1>3. j * ElementSize = i * ElementSize + ElementSize + d * ElementSize
  BY <1>1, <1>2
<1>4. d * ElementSize \in Nat /\ i * ElementSize \in Nat /\ j * ElementSize \in Nat
  BY <1>2
<1> QED BY <1>2, <1>3, <1>4

LEMMA NextCell ==
    ASSUME NEW i \in Nat
    PROVE  i * ElementSize \in Nat /\ (i + 1) * ElementSize = i * ElementSize + ElementSize
BY Sizes

\* What begins in a chunk of whole elements ends in it.
LEMMA WholeElements ==
    ASSUME NEW rm \in Nat, \E r \in Nat : rm = r * ElementSize,
           NEW i \in Nat, i * ElementSize < rm
    PROVE  i * ElementSize + ElementSize <= rm
<1>1. PICK r \in Nat : rm = r * ElementSize
  OBVIOUS
<1>2. CASE i < r
  BY <1>1, <1>2, CellsInOrder
<1>3. CASE i = r
  BY <1>1, <1>3
<1>4. CASE r < i
  <2>1. r * ElementSize + ElementSize <= i * ElementSize /\ i * ElementSize \in Nat
    BY <1>4, CellsInOrder
  <2> QED BY <1>1, <2>1, Sizes
<1> QED BY <1>2, <1>3, <1>4

\* Storage in which nobody else's cells lie is clear of it.
LEMMA IntervalsApart ==
    ASSUME NEW p \in Nat, NEW n \in Nat, NEW q \in Nat, NEW m \in Nat,
           (p .. p + n - 1) \cap (q .. q + m - 1) = {}
    PROVE  Clear(p, n, q, m)
<1>1. CASE n > 0 /\ m > 0 /\ p <= q /\ q < p + n
  <2>1. q \in p .. p + n - 1 /\ q \in q .. q + m - 1
    BY <1>1
  <2> QED BY <2>1
<1>2. CASE n > 0 /\ m > 0 /\ q <= p /\ p < q + m
  <2>1. p \in p .. p + n - 1 /\ p \in q .. q + m - 1
    BY <1>2
  <2> QED BY <2>1
<1> QED BY <1>1, <1>2 DEF Clear

-----------------------------------------------------------------------------
(* Stores.                                                                 *)

Stores == [1 .. High + 1 -> Cells]

LEMMA JunkIsACell == Junk \in Cells
BY Sizes DEF Junk, Cells

LEMMA CellAt ==
    ASSUME NEW s \in Stores, NEW a
    PROVE  At(s, a) \in Cells /\ (a \in 1 .. High + 1 => At(s, a) = s[a])
BY JunkIsACell DEF At, Stores

\* Only the cells of the element are written.
LEMMA Written ==
    ASSUME NEW s \in Stores, NEW a \in Nat, NEW v \in Elements
    PROVE  /\ Put(s, a, v) \in Stores
           /\ \A b \in 1 .. High + 1 :
                /\ b < a \/ b >= a + ElementSize => Put(s, a, v)[b] = s[b]
                /\ v # Unset /\ a <= b /\ b < a + ElementSize
                      => Put(s, a, v)[b] = Piece(v, b - a)
                /\ v = Unset => Put(s, a, v)[b] = s[b]
<1>1. CASE v = Unset
  BY <1>1 DEF Put
<1>2. CASE v # Unset
  <2>1. ASSUME NEW b \in 1 .. High + 1, b \in a .. a + ElementSize - 1
        PROVE  Piece(v, b - a) \in Cells
    <3>1. b - a \in 0 .. ElementSize - 1
      BY <2>1, Sizes
    <3> QED BY <3>1 DEF Piece, Cells, Elements
  <2>2. DOMAIN s = 1 .. High + 1 /\ \A b \in 1 .. High + 1 : s[b] \in Cells
    BY DEF Stores
  <2>3. Put(s, a, v) = [b \in 1 .. High + 1 |->
            IF b \in a .. a + ElementSize - 1 THEN Piece(v, b - a) ELSE s[b]]
    BY <1>2, <2>2 DEF Put
  <2>4. Put(s, a, v) \in Stores
    BY <2>1, <2>2, <2>3 DEF Stores
  <2>5. ASSUME NEW b \in 1 .. High + 1
        PROVE  /\ b < a \/ b >= a + ElementSize => Put(s, a, v)[b] = s[b]
               /\ a <= b /\ b < a + ElementSize => Put(s, a, v)[b] = Piece(v, b - a)
    BY <2>3, Sizes
  <2> QED BY <1>2, <2>4, <2>5
<1> QED BY <1>1, <1>2

\* storage::move fills n cells at d with the ones at src, the first of them
\* only downwards; the cell behind the others it may fill as well.
MovesTo(s2, s, d, src, n) ==
    \A b \in 1 .. High + 1 :
        /\ b < d \/ b > d + n => s2[b] = s[b]
        /\ d < b /\ b < d + n => s2[b] = At(s, b - d + src)
        /\ d < src /\ d = b /\ b < d + n => s2[b] = At(s, b - d + src)
        /\ d < src /\ b = d + n => s2[b] = s[b]

LEMMA MovedCells ==
    ASSUME NEW s \in Stores, NEW d \in Nat, NEW src \in Nat, NEW n \in Nat
    PROVE  /\ Move(s, d, src, n) \in Stores
           /\ MovesTo(Move(s, d, src, n), s, d, src, n)
<1> DEFINE moved == IF d < src THEN d .. d + n - 1 ELSE d + 1 .. d + n
<1>1. DOMAIN s = 1 .. High + 1 /\ \A b \in 1 .. High + 1 : s[b] \in Cells
  BY DEF Stores
<1>2. Move(s, d, src, n) =
        [b \in 1 .. High + 1 |-> IF b \in moved THEN At(s, b - d + src) ELSE s[b]]
  BY <1>1 DEF Move
<1>3. \A b \in 1 .. High + 1 : At(s, b - d + src) \in Cells
  BY CellAt
<1>4. Move(s, d, src, n) \in Stores
  BY <1>1, <1>2, <1>3 DEF Stores
<1>5. ASSUME NEW b \in 1 .. High + 1
      PROVE  /\ b < d \/ b > d + n => b \notin moved
             /\ d < b /\ b < d + n => b \in moved
             /\ d < src /\ d = b /\ b < d + n => b \in moved
             /\ d < src /\ b = d + n => b \notin moved
  OBVIOUS
<1>6. \A b \in 1 .. High + 1 : Move(s, d, src, n)[b] = IF b \in moved THEN At(s, b - d + src) ELSE s[b]
  BY <1>2
<1> HIDE DEF moved
<1>7. MovesTo(Move(s, d, src, n), s, d, src, n)
  BY <1>5, <1>6 DEF MovesTo
<1> QED BY <1>4, <1>7

-----------------------------------------------------------------------------
(* Elements.                                                               *)

\* Cells are those of a store, and elements those of a list.
LEMMA HeldCell ==
    ASSUME NEW s, NEW p \in Nat, NEW rm \in Nat, NEW mn \in Seq(Elements),
           Holds(s, p, rm, mn), NEW i \in 0 .. Len(mn) - 1, NEW q \in 0 .. ElementSize - 1,
           i # 0 \/ q # 0, i * ElementSize + q < rm, mn[i + 1] # Unset
    PROVE  s[p + (i * ElementSize + q)] = Piece(mn[i + 1], q)
BY DEF Holds

\* The first cell is the only one with no other in front of it.
LEMMA NotFirst ==
    ASSUME NEW i \in Nat, NEW q \in 0 .. ElementSize - 1, i # 0 \/ q # 0
    PROVE  i * ElementSize + q \in Nat /\ i * ElementSize + q >= 1
<1>1. q \in Nat /\ ElementSize \in Nat /\ ElementSize > 0
  BY Sizes
<1>2. CASE i = 0
  BY <1>1, <1>2
<1>3. CASE i # 0
  <2>1. 0 * ElementSize + ElementSize <= i * ElementSize /\ i * ElementSize \in Nat
    BY <1>3, CellsInOrder
  <2> QED BY <1>1, <2>1
<1> QED BY <1>2, <1>3

\* What holds elements in other storage than was written still does.
LEMMA StillHolds ==
    ASSUME NEW s, NEW s2, NEW p \in Nat, NEW rm \in Nat, NEW mn \in Seq(Elements),
           Holds(s, p, rm, mn), \A k \in 1 .. rm - 1 : s2[p + k] = s[p + k]
    PROVE  Holds(s2, p, rm, mn)
<1> SUFFICES ASSUME NEW i \in 0 .. Len(mn) - 1, NEW q \in 0 .. ElementSize - 1,
                    i # 0 \/ q # 0, i * ElementSize + q < rm, mn[i + 1] # Unset
             PROVE  s2[p + (i * ElementSize + q)] = Piece(mn[i + 1], q)
  BY DEF Holds
<1>0. i \in Nat
  OBVIOUS
<1>1. PICK k \in Nat : k = i * ElementSize + q /\ k >= 1
  BY <1>0, NotFirst
<1>2. k \in 1 .. rm - 1
  BY <1>1
<1>3. s[p + (i * ElementSize + q)] = Piece(mn[i + 1], q)
  BY HeldCell
<1> QED BY <1>1, <1>2, <1>3

\* Whole elements of storage in the region.
Storage(p, rm) ==
    /\ p \in Nat /\ rm \in Nat /\ p + rm <= High + 1
    /\ \E r \in Nat : rm = r * ElementSize

\* new is old with v as element i, which may be the one behind the others.
Replaces(new, old, i, v) ==
    /\ new \in Seq(Elements) /\ old \in Seq(Elements)
    /\ \A j \in 0 .. Len(new) - 1 :
          \/ j = i /\ new[j + 1] = v
          \/ j # i /\ j < Len(old) /\ new[j + 1] = old[j + 1]

LEMMA Assigned ==
    ASSUME NEW s \in Stores, NEW p, NEW rm, Storage(p, rm),
           NEW mn, NEW mn2, NEW v \in Elements, NEW i \in Nat, i * ElementSize < rm,
           Replaces(mn2, mn, i, v), Holds(s, p, rm, mn)
    PROVE  Holds(Put(s, p + i * ElementSize, v), p, rm, mn2)
<1> DEFINE a == p + i * ElementSize
           s2 == Put(s, a, v)
<1>0. p \in Nat /\ rm \in Nat /\ p + rm <= High + 1 /\ i * ElementSize \in Nat /\ a \in Nat
  BY Sizes DEF Storage
<1>a. mn \in Seq(Elements) /\ mn2 \in Seq(Elements)
  BY DEF Replaces
<1>b. /\ s2 \in Stores
      /\ \A b \in 1 .. High + 1 :
                /\ b < a \/ b >= a + ElementSize => s2[b] = s[b]
                /\ v # Unset /\ a <= b /\ b < a + ElementSize
                      => s2[b] = Piece(v, b - a)
                /\ v = Unset => s2[b] = s[b]
  BY <1>0, Written
<1> HIDE DEF s2
<1>1. SUFFICES ASSUME NEW j \in 0 .. Len(mn2) - 1, NEW q \in 0 .. ElementSize - 1,
                      j # 0 \/ q # 0, j * ElementSize + q < rm, mn2[j + 1] # Unset
               PROVE  s2[p + (j * ElementSize + q)] = Piece(mn2[j + 1], q)
  BY DEF Holds, s2
<1>c. j \in Nat
  BY <1>a
<1>2. PICK k \in Nat : k = j * ElementSize + q /\ k >= 1
  BY <1>1, <1>c, NotFirst
<1>3. p + k \in 1 .. High + 1
  BY <1>0, <1>1, <1>2, Sizes
<1>4. j \in Nat /\ q \in Nat /\ q < ElementSize /\ ElementSize \in Nat /\ j * ElementSize \in Nat
  BY Sizes
<1>5. CASE j = i /\ mn2[j + 1] = v
  <2>1. p + k = a + q
    BY <1>0, <1>2, <1>4, <1>5
  <2>2. s2[p + k] = Piece(v, (p + k) - a)
    BY <1>0, <1>1, <1>3, <1>4, <1>5, <1>b, <2>1
  <2>3. (p + k) - a = q
    BY <1>0, <1>4, <2>1
  <2> QED BY <1>2, <1>5, <2>2, <2>3
<1>6. CASE j # i /\ j < Len(mn) /\ mn2[j + 1] = mn[j + 1]
  <2>1. p + k < a \/ p + k >= a + ElementSize
    <3>1. CASE j < i
      <4>1. j * ElementSize + ElementSize <= i * ElementSize
        BY <1>4, <3>1, CellsInOrder
      <4> QED BY <1>0, <1>2, <1>4, <4>1
    <3>2. CASE i < j
      <4>1. i * ElementSize + ElementSize <= j * ElementSize
        BY <1>4, <3>2, CellsInOrder
      <4> QED BY <1>0, <1>2, <1>4, <4>1
    <3> QED BY <1>4, <1>6, <3>1, <3>2
  <2>2. s2[p + k] = s[p + k]
    BY <1>3, <1>b, <2>1
  <2>3. j \in 0 .. Len(mn) - 1
    BY <1>6, <1>a
  <2>4. s[p + (j * ElementSize + q)] = Piece(mn[j + 1], q)
    BY <1>0, <1>1, <1>6, <1>a, <2>3, HeldCell
  <2> QED BY <1>2, <1>6, <2>2, <2>4
<1> QED BY <1>5, <1>6 DEF Replaces

\* A list without storage for element i and a new one behind the others.
LEMMA AppendedUnset ==
    ASSUME NEW mn \in Seq(Elements)
    PROVE  Replaces(Append(mn, Unset), mn, Len(mn), Unset)
BY DEF Replaces, Elements

LEMMA Appended ==
    ASSUME NEW mn \in Seq(Elements), NEW v \in Elements
    PROVE  /\ Replaces(Append(mn, v), mn, Len(mn), v)
           /\ Len(Append(mn, v)) = Len(mn) + 1
BY DEF Replaces

LEMMA AssignedTo ==
    ASSUME NEW mn \in Seq(Elements), NEW v \in Elements, NEW i \in 0 .. Len(mn) - 1
    PROVE  /\ Replaces([mn EXCEPT ![i + 1] = v], mn, i, v)
           /\ Len([mn EXCEPT ![i + 1] = v]) = Len(mn)
BY DEF Replaces

LEMMA OneLess ==
    ASSUME NEW mn \in Seq(Elements), Len(mn) > 0
    PROVE  /\ Front(mn) \in Seq(Elements) /\ Len(Front(mn)) = Len(mn) - 1
           /\ \A j \in 1 .. Len(mn) - 1 : Front(mn)[j] = mn[j]
<1>1. PICK n \in Nat : n = Len(mn) - 1
  <2>1. Len(mn) \in Nat /\ Len(mn) - 1 \in Nat
    OBVIOUS
  <2> QED BY <2>1
<1>2. n <= Len(mn) /\ n \in 0 .. Len(mn)
  BY <1>1
<1>3. Front(mn) = SubSeq(mn, 1, n)
  BY <1>1 DEF Front
<1>4. \A j \in 1 .. n : mn[j] \in Elements
  BY <1>2
<1>5. /\ SubSeq(mn, 1, n) \in Seq(Elements) /\ Len(SubSeq(mn, 1, n)) = n
      /\ \A j \in 1 .. n : SubSeq(mn, 1, n)[j] = mn[j]
  BY <1>2, <1>4
<1> QED BY <1>1, <1>3, <1>5

\* One sequence after another.
LEMMA Joined ==
    ASSUME NEW S, NEW a \in Seq(S), NEW b \in Seq(S)
    PROVE  /\ a \o b \in Seq(S) /\ Len(a \o b) = Len(a) + Len(b)
           /\ \A j \in 1 .. Len(a) + Len(b) :
                 (a \o b)[j] = IF j <= Len(a) THEN a[j] ELSE b[j - Len(a)]
OBVIOUS

\* SequencesExt, RemoveAt.
RemovedFrom(r, s, i) ==
    /\ Len(r) = Len(s) - 1
    /\ \A j \in 1 .. Len(s) - 1 : r[j] = IF j < i THEN s[j] ELSE s[j + 1]

LEMMA Removed ==
    ASSUME NEW S, NEW s \in Seq(S), NEW i \in 1 .. Len(s)
    PROVE  RemoveAt(s, i) \in Seq(S) /\ RemovedFrom(RemoveAt(s, i), s, i)
<1> DEFINE a == SubSeq(s, 1, i - 1)
           z == SubSeq(s, i + 1, Len(s))
<1>1. /\ a \in Seq(S) /\ Len(a) = i - 1 /\ \A j \in 1 .. i - 1 : a[j] = s[j]
  OBVIOUS
<1>2. /\ z \in Seq(S) /\ Len(z) = Len(s) - i
      /\ \A j \in 1 .. Len(s) - i : z[j] = s[i + j]
  OBVIOUS
<1>3. RemoveAt(s, i) = a \o z
  BY DEF RemoveAt
<1> HIDE DEF a, z
<1>4. a \o z \in Seq(S) /\ Len(a \o z) = Len(a) + Len(z)
  BY <1>1, <1>2, Joined
<1>5. a \o z \in Seq(S) /\ Len(a \o z) = Len(s) - 1
  <2>1. Len(s) \in Nat
    OBVIOUS
  <2> QED BY <1>1, <1>2, <1>4, <2>1
<1>6. ASSUME NEW j \in 1 .. Len(s) - 1
      PROVE  (a \o z)[j] = IF j < i THEN s[j] ELSE s[j + 1]
  <2>1. CASE j < i
    BY <1>1, <1>2, <2>1
  <2>2. CASE j >= i
    <3>1. (a \o z)[j] = z[j - (i - 1)]
      BY <1>1, <1>2, <2>2, SMTT(30)
    <3>2. j - (i - 1) \in 1 .. Len(s) - i /\ i + (j - (i - 1)) = j + 1
      BY <2>2
    <3>3. z[j - (i - 1)] = s[i + (j - (i - 1))]
      BY <1>2, <3>2
    <3> QED BY <2>2, <3>1, <3>2, <3>3
  <2>3. i \in Int /\ j \in Int
    OBVIOUS
  <2>4. j < i \/ j >= i
    BY <2>3
  <2> QED BY <2>1, <2>2, <2>4, Zenon
<1> QED BY <1>3, <1>5, <1>6 DEF RemovedFrom

\* Elements beyond a chunk of whole elements have none of their cells in it.
LEMMA Beyond ==
    ASSUME NEW p, NEW rm, Storage(p, rm), NEW mn \in Seq(Elements), Hollow(rm, mn),
           NEW i \in 0 .. Len(mn) - 1, NEW q \in 0 .. ElementSize - 1, mn[i + 1] # Unset
    PROVE  i * ElementSize + q < rm /\ i * ElementSize + ElementSize <= rm
<1>1. rm \in Nat /\ i \in Nat /\ i * ElementSize \in Nat /\ ElementSize \in Nat /\ q < ElementSize
  BY Sizes DEF Storage
<1>2. i * ElementSize < rm
  BY <1>1 DEF Hollow
<1>3. i * ElementSize + ElementSize <= rm
  BY <1>1, <1>2, WholeElements DEF Storage
<1> QED BY <1>1, <1>3

\* remove: the cells behind element i have moved down.
LEMMA Deleted ==
    ASSUME NEW s \in Stores, NEW p, NEW rm, Storage(p, rm),
           NEW mn \in Seq(Elements), NEW mn2 \in Seq(Elements), NEW i \in 0 .. Len(mn) - 1,
           Holds(s, p, rm, mn), Hollow(rm, mn), RemovedFrom(mn2, mn, i + 1)
    PROVE  /\ Holds(Move(s, p + i * ElementSize, p + (i + 1) * ElementSize,
                         (Len(mn) - (i + 1)) * ElementSize), p, rm, mn2)
           /\ Hollow(rm, mn2)
<1> DEFINE d == p + i * ElementSize
           src == p + (i + 1) * ElementSize
           n == (Len(mn) - (i + 1)) * ElementSize
           s2 == Move(s, d, src, n)
<1>0. /\ p \in Nat /\ rm \in Nat /\ p + rm <= High + 1 /\ i \in Nat /\ i * ElementSize \in Nat
      /\ (i + 1) * ElementSize = i * ElementSize + ElementSize
      /\ ElementSize \in Nat /\ ElementSize > 0 /\ High \in Nat
  BY Sizes, NextCell DEF Storage
<1>1. PICK rest \in Nat : rest = Len(mn) - (i + 1)
  <2>1. Len(mn) - (i + 1) \in Nat
    OBVIOUS
  <2> QED BY <2>1
<1>2. /\ d = p + i * ElementSize /\ d \in Nat /\ src \in Nat /\ d < src /\ src = d + ElementSize
      /\ n = rest * ElementSize /\ n \in Nat
  BY <1>0, <1>1
<1>3. /\ s2 \in Stores
      /\ \A b \in 1 .. High + 1 :
                /\ b < d => s2[b] = s[b]
                /\ d <= b /\ b < d + n => s2[b] = At(s, b - d + src)
  <2> HIDE DEF d, src, n
  <2>1. s2 \in Stores /\ MovesTo(s2, s, d, src, n)
    BY <1>2, MovedCells
  <2> HIDE DEF s2
  <2> QED BY <1>2, <2>1 DEF MovesTo
<1> HIDE DEF s2, d, src, n
<1>4. Len(mn2) = Len(mn) - 1 /\ Len(mn) \in Nat
  BY DEF RemovedFrom
<1>5. ASSUME NEW j \in 0 .. Len(mn2) - 1
      PROVE  /\ j \in Nat /\ j \in 0 .. Len(mn) - 1 /\ j + 1 \in 0 .. Len(mn) - 1
             /\ j < i => mn2[j + 1] = mn[j + 1]
             /\ j >= i => mn2[j + 1] = mn[(j + 1) + 1]
  <2>1. j + 1 \in 1 .. Len(mn) - 1
    BY <1>4
  <2>2. mn2[j + 1] = IF j + 1 < i + 1 THEN mn[j + 1] ELSE mn[(j + 1) + 1]
    BY <2>1 DEF RemovedFrom
  <2> QED BY <1>0, <1>4, <2>1, <2>2
<1>6. Hollow(rm, mn2)
  <2> SUFFICES ASSUME NEW j \in 0 .. Len(mn2) - 1, j * ElementSize >= rm
               PROVE  mn2[j + 1] = Unset
    BY DEF Hollow
  <2>1. CASE j < i
    BY <1>5, <2>1 DEF Hollow
  <2>2. CASE j >= i
    <3>1. (j + 1) * ElementSize >= rm
      BY <1>0, <1>5, NextCell
    <3> QED BY <1>5, <2>2, <3>1 DEF Hollow
  <2> QED BY <1>0, <1>5, <2>1, <2>2
<1>7. ASSUME NEW j \in 0 .. Len(mn2) - 1, NEW q \in 0 .. ElementSize - 1,
             j # 0 \/ q # 0, j * ElementSize + q < rm, mn2[j + 1] # Unset
      PROVE  s2[p + (j * ElementSize + q)] = Piece(mn2[j + 1], q)
  <2>0. j \in Nat /\ q \in Nat /\ q < ElementSize /\ j * ElementSize \in Nat
        /\ (j + 1) * ElementSize = j * ElementSize + ElementSize
    <3>1. j \in Nat
      BY <1>5
    <3>2. q \in Nat /\ q < ElementSize
      BY Sizes
    <3> QED BY <3>1, <3>2, NextCell
  <2>1. PICK k \in Nat : k = j * ElementSize + q /\ k >= 1
    BY <1>5, <1>7, NotFirst
  <2>2. p + k \in 1 .. High + 1
    BY <1>0, <1>7, <2>1
  <2>3. CASE j < i
    <3>1. j * ElementSize + ElementSize <= i * ElementSize
      BY <1>0, <2>0, <2>3, CellsInOrder
    <3>2. p + k < d
      BY <1>0, <1>2, <2>0, <2>1, <3>1
    <3>3. s2[p + k] = s[p + k]
      BY <1>3, <2>2, <3>2
    <3>4. mn2[j + 1] = mn[j + 1] /\ j \in 0 .. Len(mn) - 1
      BY <1>5, <2>3
    <3>5. s[p + (j * ElementSize + q)] = Piece(mn[j + 1], q)
      BY <1>0, <1>7, <3>4, HeldCell
    <3> QED BY <2>1, <3>3, <3>4, <3>5
  <2>4. CASE j >= i
    <3>1. /\ (j + 1) * ElementSize + q < rm
      <4>1. mn[(j + 1) + 1] # Unset
        BY <1>5, <1>7, <2>4
      <4> QED BY <1>5, <4>1, Beyond
    <3>2. d <= p + k
      <4>1. CASE i = j
        BY <1>0, <1>2, <2>0, <2>1, <4>1
      <4>2. CASE i < j
        <5>1. i * ElementSize + ElementSize <= j * ElementSize
          BY <1>0, <2>0, <4>2, CellsInOrder
        <5> QED BY <1>0, <1>2, <2>0, <2>1, <5>1
      <4> QED BY <1>0, <2>0, <2>4, <4>1, <4>2
    <3>3. p + k < d + n
      <4>1. j < i + rest /\ i + rest \in Nat
        BY <1>0, <1>1, <1>4, <2>0
      <4>2. j * ElementSize + ElementSize <= (i + rest) * ElementSize
        BY <2>0, <4>1, CellsInOrder
      <4>3. (i + rest) * ElementSize = i * ElementSize + rest * ElementSize
        BY <1>0
      <4> QED BY <1>0, <1>2, <2>0, <2>1, <4>2, <4>3
    <3>4. s2[p + k] = At(s, (p + k) - d + src)
      BY <1>3, <2>2, <3>2, <3>3
    <3>5. (p + k) - d + src = p + ((j + 1) * ElementSize + q)
      BY <1>0, <1>2, <2>0, <2>1
    <3>6. p + ((j + 1) * ElementSize + q) \in 1 .. High + 1
      BY <1>0, <2>0, <3>1
    <3>7. s2[p + k] = s[p + ((j + 1) * ElementSize + q)]
      BY <3>4, <3>5, <3>6, CellAt
    <3>8. mn2[j + 1] = mn[(j + 1) + 1] /\ j + 1 \in 0 .. Len(mn) - 1
      BY <1>5, <2>4
    <3>9. j + 1 # 0
      BY <2>0
    <3>10. s[p + ((j + 1) * ElementSize + q)] = Piece(mn[(j + 1) + 1], q)
      <4> DEFINE e == j + 1
      <4>1. e \in 0 .. Len(mn) - 1 /\ e # 0 /\ e * ElementSize + q < rm /\ mn[e + 1] # Unset
        BY <1>7, <3>1, <3>8, <3>9
      <4> HIDE DEF e
      <4>2. s[p + (e * ElementSize + q)] = Piece(mn[e + 1], q)
        BY <1>0, <4>1, HeldCell
      <4> QED BY <4>2 DEF e
    <3> QED BY <2>1, <3>7, <3>8, <3>10
  <2> QED BY <1>0, <2>0, <2>3, <2>4
<1>8. Holds(s2, p, rm, mn2)
  BY <1>7 DEF Holds
<1> QED BY <1>6, <1>8 DEF s2, d, src, n

\* Other lists' elements are not touched by what is done inside a chunk.
LEMMA PutElsewhere ==
    ASSUME NEW s \in Stores, NEW p, NEW rm, Storage(p, rm), NEW mn \in Seq(Elements),
           NEW a \in Nat, NEW v \in Elements, Clear(a, ElementSize, p, rm), Holds(s, p, rm, mn)
    PROVE  Holds(Put(s, a, v), p, rm, mn)
<1>0. p \in Nat /\ rm \in Nat /\ p + rm <= High + 1 /\ High \in Nat
      /\ ElementSize \in Nat /\ ElementSize > 0
  BY Sizes DEF Storage
<1>1. ASSUME NEW k \in 1 .. rm - 1
      PROVE  Put(s, a, v)[p + k] = s[p + k]
  <2>1. p + k \in 1 .. High + 1
    BY <1>0
  <2>2. p + k < a \/ p + k >= a + ElementSize
    BY <1>0 DEF Clear
  <2> QED BY <2>1, <2>2, Written
<1> HIDE DEF Put
<1> QED BY <1>0, <1>1, StillHolds

LEMMA DeletedElsewhere ==
    ASSUME NEW s \in Stores, NEW p, NEW rm, Storage(p, rm), NEW mn \in Seq(Elements),
           NEW d \in Nat, NEW src \in Nat, NEW n \in Nat, d < src, Clear(d, n, p, rm),
           Holds(s, p, rm, mn)
    PROVE  Holds(Move(s, d, src, n), p, rm, mn)
<1>0. p \in Nat /\ rm \in Nat /\ p + rm <= High + 1 /\ High \in Nat
  BY Sizes DEF Storage
<1>1. MovesTo(Move(s, d, src, n), s, d, src, n)
  BY MovedCells
<1>2. ASSUME NEW k \in 1 .. rm - 1
      PROVE  Move(s, d, src, n)[p + k] = s[p + k]
  <2>1. p + k \in 1 .. High + 1
    BY <1>0
  <2>2. p + k < d \/ p + k > d + n \/ p + k = d + n \/ n = 0
    BY <1>0 DEF Clear
  <2>3. CASE n = 0
    BY <1>0, <1>1, <2>1, <2>3 DEF MovesTo
  <2> QED BY <1>1, <2>1, <2>2, <2>3 DEF MovesTo
<1> QED BY <1>0, <1>2, StillHolds

\* storage::move upwards goes one cell too far: what it overwrites there is
\* the first cell of a chunk.
LEMMA MovedElsewhere ==
    ASSUME NEW s \in Stores, NEW p, NEW rm, Storage(p, rm), NEW mn \in Seq(Elements),
           NEW d \in Nat, NEW src \in Nat, NEW n \in Nat, n > 0, Clear(d, n, p, rm),
           Holds(s, p, rm, mn)
    PROVE  Holds(Move(s, d, src, n), p, rm, mn)
<1>0. p \in Nat /\ rm \in Nat /\ p + rm <= High + 1 /\ High \in Nat
  BY Sizes DEF Storage
<1>1. MovesTo(Move(s, d, src, n), s, d, src, n)
  BY MovedCells
<1>2. ASSUME NEW k \in 1 .. rm - 1
      PROVE  Move(s, d, src, n)[p + k] = s[p + k]
  <2>1. p + k \in 1 .. High + 1
    BY <1>0
  <2>2. p + k < d \/ p + k > d + n
    BY <1>0 DEF Clear
  <2> QED BY <1>1, <2>1, <2>2 DEF MovesTo
<1> QED BY <1>0, <1>2, StillHolds

\* The list itself takes all its elements along.
LEMMA MovedAlong ==
    ASSUME NEW s \in Stores, NEW p, NEW rm, Storage(p, rm), NEW mn \in Seq(Elements),
           NEW a, NEW n, Storage(a, n), Holds(s, p, rm, mn), Hollow(rm, mn)
    PROVE  Holds(Move(s, a, p, n), a, n, mn)
<1>0. p \in Nat /\ rm \in Nat /\ p + rm <= High + 1 /\ High \in Nat
      /\ a \in Nat /\ n \in Nat /\ a + n <= High + 1
  BY Sizes DEF Storage
<1>1. MovesTo(Move(s, a, p, n), s, a, p, n)
  BY <1>0, MovedCells
<1>2. ASSUME NEW i \in 0 .. Len(mn) - 1, NEW q \in 0 .. ElementSize - 1,
             i # 0 \/ q # 0, i * ElementSize + q < n, mn[i + 1] # Unset
      PROVE  Move(s, a, p, n)[a + (i * ElementSize + q)] = Piece(mn[i + 1], q)
  <2>1. PICK k \in Nat : k = i * ElementSize + q /\ k >= 1
    BY <1>2, NotFirst
  <2>2. k < rm
    BY <1>2, <2>1, Beyond
  <2>3. a + k \in 1 .. High + 1 /\ p + k \in 1 .. High + 1 /\ (a + k) - a + p = p + k
    BY <1>0, <1>2, <2>1, <2>2
  <2>4. a < a + k /\ a + k < a + n
    BY <1>0, <1>2, <2>1
  <2>5. Move(s, a, p, n)[a + k] = At(s, (a + k) - a + p)
    BY <1>1, <2>3, <2>4 DEF MovesTo
  <2>6. Move(s, a, p, n)[a + k] = s[p + k]
    BY <2>3, <2>5, CellAt
  <2>7. s[p + (i * ElementSize + q)] = Piece(mn[i + 1], q)
    BY <1>0, <1>2, <2>1, <2>2, HeldCell
  <2> QED BY <2>1, <2>6, <2>7
<1> QED BY <1>2 DEF Holds

\* Of storage nobody holds nothing is known.
Kept(s, held) == [b \in DOMAIN s |-> IF b \in held THEN s[b] ELSE Junk]

LEMMA Forgotten ==
    ASSUME NEW s \in Stores, NEW held, NEW p, NEW rm, Storage(p, rm), NEW mn \in Seq(Elements),
           p .. p + rm - 1 \subseteq held, Holds(s, p, rm, mn)
    PROVE  Holds(Kept(s, held), p, rm, mn)
<1> DEFINE s2 == Kept(s, held)
<1>0. p \in Nat /\ rm \in Nat /\ p + rm <= High + 1 /\ High \in Nat
  BY Sizes DEF Storage
<1>1. ASSUME NEW k \in 1 .. rm - 1
      PROVE  s2[p + k] = s[p + k]
  <2>1. p + k \in DOMAIN s
    BY <1>0 DEF Stores
  <2>2. p + k \in held
    BY <1>0
  <2> QED BY <2>1, <2>2 DEF Kept
<1> HIDE DEF s2
<1>2. Holds(s2, p, rm, mn)
  BY <1>0, <1>1, StillHolds
<1> QED BY <1>2 DEF s2

LEMMA ForgottenTyped ==
    ASSUME NEW s \in Stores, NEW held
    PROVE  Kept(s, held) \in Stores
BY JunkIsACell DEF Stores, Kept

-----------------------------------------------------------------------------
(* Steps.                                                                  *)

\* Storage that l has after a step is nobody else's.
Exclusive(l, p, rm) == \A m \in Names \ {l} : Clear(p, rm, ptr[m], room[m])

\* Nobody else's elements are touched.
OthersHold(l, s) == \A m \in Names \ {l} : Holds(s, ptr[m], room[m], meant[m])

\* A step of list l that leaves it and the others as they should be.
After(l) ==
    /\ TypesInv'
    /\ \A m \in Names \ {l} :
          /\ ptr'[m] = ptr[m] /\ room'[m] = room[m] /\ size'[m] = size[m]
          /\ capacity'[m] = capacity[m] /\ meant'[m] = meant[m]
    /\ Shaped(ptr'[l], room'[l], size'[l], capacity'[l], meant'[l])
    /\ Exclusive(l, ptr'[l], room'[l])
    /\ failed \subseteq failed'
    /\ l \notin failed' => Counted(room'[l], size'[l], capacity'[l])
    /\ stopped' => failed' # {}
    /\ ~stopped' => /\ Holds(store', ptr'[l], room'[l], meant'[l])
                    /\ Hollow(room'[l], meant'[l])
                    /\ OthersHold(l, store')

LEMMA AfterInv ==
    ASSUME ListsInv, ~stopped, NEW l \in Names, After(l)
    PROVE  ListsInv'
<1> DEFINE Same(m) == /\ ptr'[m] = ptr[m] /\ room'[m] = room[m] /\ size'[m] = size[m]
                      /\ capacity'[m] = capacity[m] /\ meant'[m] = meant[m]
<1>1. \A m \in Names \ {l} : Same(m)
  BY DEF After
<1>2. TypesInv' /\ TypesInv
  BY DEF After, ListsInv
<1>3. ASSUME NEW m \in Names
      PROVE  Shaped(ptr'[m], room'[m], size'[m], capacity'[m], meant'[m])
  <2>1. CASE m = l
    BY <2>1 DEF After
  <2>2. CASE m # l
    BY <1>1, <2>2 DEF ListsInv
  <2> QED BY <2>1, <2>2
<1>4. ASSUME NEW m \in Names, NEW o \in Names, m # o
      PROVE  Clear(ptr'[m], room'[m], ptr'[o], room'[o])
  <2>1. CASE m = l
    <3>1. Clear(ptr'[l], room'[l], ptr[o], room[o])
      BY <1>4, <2>1 DEF After, Exclusive
    <3> QED BY <1>1, <1>4, <2>1, <3>1
  <2>2. CASE o = l
    <3>1. Clear(ptr'[l], room'[l], ptr[m], room[m])
      BY <1>4, <2>2 DEF After, Exclusive
    <3>2. Clear(ptr[m], room[m], ptr'[l], room'[l])
      BY <3>1 DEF Clear
    <3> QED BY <1>1, <1>4, <2>2, <3>2
  <2>3. CASE m # l /\ o # l
    BY <1>1, <1>4, <2>3 DEF ListsInv
  <2> QED BY <2>1, <2>2, <2>3
<1>5. ASSUME NEW m \in Names, m \notin failed'
      PROVE  Counted(room'[m], size'[m], capacity'[m])
  <2>1. CASE m = l
    BY <1>5, <2>1 DEF After
  <2>2. CASE m # l
    <3>1. m \notin failed
      BY <1>5 DEF After
    <3> QED BY <1>1, <2>2, <3>1 DEF ListsInv
  <2> QED BY <2>1, <2>2
<1>6. stopped' => failed' # {}
  BY DEF After
<1>7. ASSUME ~stopped', NEW m \in Names
      PROVE  Holds(store', ptr'[m], room'[m], meant'[m]) /\ Hollow(room'[m], meant'[m])
  <2>1. CASE m = l
    BY <1>7, <2>1 DEF After
  <2>2. CASE m # l
    <3>1. Holds(store', ptr[m], room[m], meant[m])
      BY <1>7, <2>2 DEF After, OthersHold
    <3>2. Hollow(room[m], meant[m])
      BY DEF ListsInv
    <3> QED BY <1>1, <2>2, <3>1, <3>2
  <2> QED BY <2>1, <2>2
<1> HIDE DEF Same
<1> QED BY <1>2, <1>3, <1>4, <1>5, <1>6, <1>7 DEF ListsInv

\* What the invariant says of one list, and of it and the others.
LEMMA OfOne ==
    ASSUME ListsInv, NEW l \in Names
    PROVE  /\ ptr[l] \in Nat /\ room[l] \in Nat /\ size[l] \in Nat /\ capacity[l] \in Nat
           /\ meant[l] \in Seq(Elements) /\ Len(meant[l]) = size[l]
           /\ Storage(ptr[l], room[l])
           /\ Shaped(ptr[l], room[l], size[l], capacity[l], meant[l])
           /\ l \notin failed => Counted(room[l], size[l], capacity[l])
           /\ ~stopped => Holds(store, ptr[l], room[l], meant[l]) /\ Hollow(room[l], meant[l])
           /\ Exclusive(l, ptr[l], room[l])
<1>1. /\ ptr[l] \in Nat /\ room[l] \in Nat /\ size[l] \in Nat /\ capacity[l] \in Nat
      /\ meant[l] \in Seq(Elements)
  BY DEF ListsInv, TypesInv
<1>2. Shaped(ptr[l], room[l], size[l], capacity[l], meant[l])
  BY DEF ListsInv
<1>3. Len(meant[l]) = size[l]
  BY <1>2 DEF Shaped
<1>4. Storage(ptr[l], room[l])
  BY <1>1, <1>2, Sizes DEF Shaped, Storage, Null
<1>5. l \notin failed => Counted(room[l], size[l], capacity[l])
  BY DEF ListsInv
<1>6. ~stopped => Holds(store, ptr[l], room[l], meant[l]) /\ Hollow(room[l], meant[l])
  BY DEF ListsInv
<1>7. Exclusive(l, ptr[l], room[l])
  BY DEF ListsInv, Exclusive
<1> QED BY <1>1, <1>2, <1>3, <1>4, <1>5, <1>6, <1>7

LEMMA Stored == ListsInv => store \in Stores
BY DEF ListsInv, TypesInv, Stores

\* Cells of an element the list has storage for are in its chunk.
LEMMA InChunk ==
    ASSUME ListsInv, NEW l \in Names, NEW i \in Nat, i * ElementSize + ElementSize <= room[l]
    PROVE  Address(l, i) .. Address(l, i + 1) - 1 \subseteq Chunk(l)
<1>1. /\ ptr[l] \in Nat /\ room[l] \in Nat /\ i * ElementSize \in Nat /\ ElementSize \in Nat
      /\ (i + 1) * ElementSize = i * ElementSize + ElementSize
  BY OfOne, Sizes, NextCell
<1> QED BY <1>1 DEF Address, Chunk

\* The other way round.
LEMMA ChunkHas ==
    ASSUME ListsInv, NEW l \in Names, NEW i \in Nat,
           Address(l, i) .. Address(l, i + 1) - 1 \subseteq Chunk(l)
    PROVE  /\ i * ElementSize + ElementSize <= room[l] /\ i * ElementSize < room[l]
           /\ Address(l, i) = ptr[l] + i * ElementSize /\ Address(l, i) \in Nat
<1>1. /\ ptr[l] \in Nat /\ room[l] \in Nat /\ i * ElementSize \in Nat
      /\ ElementSize \in Nat /\ ElementSize > 0
      /\ (i + 1) * ElementSize = i * ElementSize + ElementSize
  BY OfOne, Sizes, NextCell
<1>2. Address(l, i + 1) - 1 \in Address(l, i) .. Address(l, i + 1) - 1
  BY <1>1 DEF Address
<1>3. Address(l, i + 1) - 1 \in Chunk(l)
  BY <1>2
<1> QED BY <1>1, <1>3 DEF Address, Chunk

\* A list that has never failed has storage for each element its capacity has.
LEMMA HasStorage ==
    ASSUME ListsInv, NEW l \in Names, l \notin failed, NEW i \in Nat, i < capacity[l]
    PROVE  i * ElementSize + ElementSize <= room[l]
<1>1. capacity[l] \in Nat /\ capacity[l] * ElementSize = room[l]
  BY OfOne DEF Counted
<1> QED BY <1>1, CellsInOrder

\* An element of l that is written inside its chunk is in nobody else's.
LEMMA InsideClear ==
    ASSUME ListsInv, NEW l \in Names, NEW d \in Nat, NEW n \in Nat,
           ptr[l] <= d, d + n <= ptr[l] + room[l]
    PROVE  Exclusive(l, d, n)
<1>1. ptr[l] \in Nat /\ room[l] \in Nat /\ Exclusive(l, ptr[l], room[l])
  BY OfOne
<1> SUFFICES ASSUME NEW m \in Names \ {l}
             PROVE  Clear(d, n, ptr[m], room[m])
  BY DEF Exclusive
<1>2. Clear(ptr[l], room[l], ptr[m], room[m]) /\ ptr[m] \in Nat /\ room[m] \in Nat
  BY <1>1, OfOne DEF Exclusive
<1> QED BY <1>1, <1>2 DEF Clear

\* The counters of the others, where one list's are changed.
LEMMA OthersSame ==
    ASSUME NEW f \in [Names -> Nat], NEW l \in Names, NEW x \in Nat
    PROVE  /\ [f EXCEPT ![l] = x] \in [Names -> Nat] /\ [f EXCEPT ![l] = x][l] = x
           /\ \A m \in Names \ {l} : [f EXCEPT ![l] = x][m] = f[m]
OBVIOUS

\* The bounds on a list whose storage stays.
LEMMA ShapeStays ==
    ASSUME ListsInv, NEW l \in Names, NEW sz \in 0 .. MaxElements, NEW mn, Len(mn) = sz
    PROVE  Shaped(ptr[l], room[l], sz, capacity[l], mn)
<1>1. Shaped(ptr[l], room[l], size[l], capacity[l], meant[l])
  BY OfOne
<1> QED BY <1>1, Sizes DEF Shaped

\* The elements and the size are changed, the storage stays.
Steady(l, sz, mn) ==
    /\ sz \in 0 .. MaxElements /\ mn \in Seq(Elements) /\ Len(mn) = sz
    /\ size' = [size EXCEPT ![l] = sz] /\ meant' = [meant EXCEPT ![l] = mn]
    /\ UNCHANGED <<ptr, capacity, room, failed>>

\* Where the storage stays, what is left to know is what it holds.
LEMMA SteadyAfter ==
    ASSUME ListsInv, ~stopped, NEW l \in Names, NEW sz, NEW mn, Steady(l, sz, mn),
           l \notin failed => sz <= capacity[l],
           store' \in Stores, stopped' \in BOOLEAN, stopped' => failed # {},
           ~stopped' => /\ Holds(store', ptr[l], room[l], mn)
                        /\ Hollow(room[l], mn)
                        /\ OthersHold(l, store')
    PROVE  After(l)
<1>1. sz \in Nat /\ sz \in 0 .. MaxElements /\ mn \in Seq(Elements) /\ Len(mn) = sz
  BY Sizes DEF Steady
<1>2. TypesInv
  BY DEF ListsInv
<1>3. size' \in [Names -> Nat] /\ size'[l] = sz /\ \A m \in Names \ {l} : size'[m] = size[m]
  BY <1>1, <1>2 DEF TypesInv, Steady
<1>4. meant' \in [Names -> Seq(Elements)] /\ meant'[l] = mn
      /\ \A m \in Names \ {l} : meant'[m] = meant[m]
  BY <1>1, <1>2 DEF TypesInv, Steady
<1>5. ptr' = ptr /\ capacity' = capacity /\ room' = room /\ failed' = failed
  BY DEF Steady
<1>6. TypesInv'
  BY <1>2, <1>3, <1>4, <1>5 DEF TypesInv, Stores
<1>7. Shaped(ptr'[l], room'[l], size'[l], capacity'[l], meant'[l])
  BY <1>1, <1>3, <1>4, <1>5, ShapeStays
<1>8. Exclusive(l, ptr'[l], room'[l])
  BY <1>5, OfOne
<1>9. l \notin failed' => Counted(room'[l], size'[l], capacity'[l])
  BY <1>3, <1>5, OfOne DEF Counted
<1>10. ~stopped' => /\ Holds(store', ptr'[l], room'[l], meant'[l])
                    /\ Hollow(room'[l], meant'[l])
                    /\ OthersHold(l, store')
  BY <1>4, <1>5
<1> QED BY <1>3, <1>4, <1>5, <1>6, <1>7, <1>8, <1>9, <1>10 DEF After

\* Elements of the others are where they were when an element is written.
LEMMA PutOthers ==
    ASSUME ListsInv, ~stopped, NEW l \in Names, NEW a \in Nat, NEW v \in Elements,
           Exclusive(l, a, ElementSize)
    PROVE  OthersHold(l, Put(store, a, v))
<1> SUFFICES ASSUME NEW m \in Names \ {l}
             PROVE  Holds(Put(store, a, v), ptr[m], room[m], meant[m])
  BY DEF OthersHold
<1>1. store \in Stores
  BY Stored
<1>2. /\ Storage(ptr[m], room[m]) /\ meant[m] \in Seq(Elements)
      /\ Holds(store, ptr[m], room[m], meant[m])
  BY OfOne
<1>3. Clear(a, ElementSize, ptr[m], room[m])
  BY DEF Exclusive
<1> QED BY <1>1, <1>2, <1>3, PutElsewhere

\* Storing v as element i of l.
LEMMA StoreElement ==
    ASSUME ListsInv, ~stopped, NEW l \in Names, NEW i \in Nat, NEW v \in Elements, NEW mn,
           Replaces(mn, meant[l], i, v),
           Address(l, i) .. Address(l, i + 1) - 1 \subseteq Chunk(l)
    PROVE  /\ Put(store, Address(l, i), v) \in Stores
           /\ Holds(Put(store, Address(l, i), v), ptr[l], room[l], mn)
           /\ OthersHold(l, Put(store, Address(l, i), v))
<1>1. /\ i * ElementSize + ElementSize <= room[l] /\ i * ElementSize < room[l]
      /\ Address(l, i) = ptr[l] + i * ElementSize /\ Address(l, i) \in Nat
  BY ChunkHas
<1>2. store \in Stores
  BY Stored
<1>3. Storage(ptr[l], room[l]) /\ Holds(store, ptr[l], room[l], meant[l])
  BY OfOne
<1>4. Holds(Put(store, ptr[l] + i * ElementSize, v), ptr[l], room[l], mn)
  BY <1>1, <1>2, <1>3, Assigned
<1>5. ptr[l] \in Nat /\ room[l] \in Nat /\ ElementSize \in Nat /\ i * ElementSize \in Nat
  BY OfOne, Sizes
<1>6. Exclusive(l, Address(l, i), ElementSize)
  BY <1>1, <1>5, InsideClear
<1> QED BY <1>1, <1>2, <1>4, <1>6, Written, PutOthers

\* The element that is replaced makes no other hollow.
LEMMA HollowStays ==
    ASSUME NEW rm, NEW old, NEW new, NEW i \in Nat, NEW v,
           Replaces(new, old, i, v), Hollow(rm, old), i * ElementSize < rm \/ v = Unset, rm \in Nat
    PROVE  Hollow(rm, new)
<1> SUFFICES ASSUME NEW j \in 0 .. Len(new) - 1, j * ElementSize >= rm
             PROVE  new[j + 1] = Unset
  BY DEF Hollow
<1>1. CASE j = i /\ new[j + 1] = v
  <2>1. i * ElementSize \in Nat
    BY Sizes
  <2> QED BY <1>1, <2>1
<1>2. CASE j # i /\ j < Len(old) /\ new[j + 1] = old[j + 1]
  <2>1. j \in 0 .. Len(old) - 1
    BY <1>2 DEF Replaces
  <2> QED BY <1>2, <2>1 DEF Hollow
<1> QED BY <1>1, <1>2 DEF Replaces

\* resize goes to a capacity that is enough, in whole allocations.
LEMMA ExpandedTo ==
    ASSUME NEW l \in Names, capacity[l] \in Nat, NEW n \in Nat
    PROVE  /\ Expanded(l, n) \in Nat /\ Expanded(l, n) % ChunksPerAlloc = 0
           /\ n <= Expanded(l, n) /\ Expanded(l, n) > 0
<1>1. PICK c \in Nat : c = (IF capacity[l] < n THEN n ELSE capacity[l])
  OBVIOUS
<1>2. n <= c
  BY <1>1
<1>3. PICK a \in Nat : a = ChunksPerAlloc /\ a > 0
  BY Sizes
<1>4. PICK q \in Nat, r \in 0 .. a - 1 : q = c \div a /\ r = c % a /\ c = q * a + r
  BY <1>3, Quotient
<1>5. Expanded(l, n) = c + (a - r)
  BY <1>1, <1>3, <1>4 DEF Expanded
<1>6. Expanded(l, n) = (q + 1) * a
  BY <1>4, <1>5
<1>7. ((q + 1) * a) % a = 0
  <2>1. q + 1 \in Nat
    OBVIOUS
  <2> QED BY <1>3, <2>1, NothingLeft
<1>8. a - r \in Nat /\ a - r > 0
  BY <1>4
<1> QED BY <1>2, <1>3, <1>5, <1>6, <1>7, <1>8

\* An element without a value has no cells.
LEMMA HoldsUnset ==
    ASSUME NEW s, NEW p \in Nat, NEW rm \in Nat, NEW old, NEW new, NEW i \in Nat,
           Replaces(new, old, i, Unset), Holds(s, p, rm, old)
    PROVE  Holds(s, p, rm, new)
<1> SUFFICES ASSUME NEW j \in 0 .. Len(new) - 1, NEW q \in 0 .. ElementSize - 1,
                    j # 0 \/ q # 0, j * ElementSize + q < rm, new[j + 1] # Unset
             PROVE  s[p + (j * ElementSize + q)] = Piece(new[j + 1], q)
  BY DEF Holds
<1>1. j < Len(old) /\ new[j + 1] = old[j + 1] /\ old \in Seq(Elements)
  BY DEF Replaces
<1>2. j \in 0 .. Len(old) - 1
  BY <1>1
<1> QED BY <1>1, <1>2, HeldCell

LEMMA InsertFitsAfter ==
    ASSUME ListsInv, ~stopped, NEW l \in Names, NEW v \in Elements,
           size[l] < MaxElements, InsertFits(l, v)
    PROVE  After(l)
<1> DEFINE sz == size[l] + 1
           mn == Append(meant[l], v)
           there == Address(l, size[l]) .. Address(l, size[l] + 1) - 1
<1>0. /\ size[l] \in Nat /\ meant[l] \in Seq(Elements) /\ Len(meant[l]) = size[l]
      /\ ptr[l] \in Nat /\ room[l] \in Nat /\ capacity[l] \in Nat
      /\ Holds(store, ptr[l], room[l], meant[l]) /\ Hollow(room[l], meant[l])
  BY OfOne
<1>1. mn \in Seq(Elements) /\ Len(mn) = sz /\ Replaces(mn, meant[l], size[l], v)
  BY <1>0, Appended
<1>2. sz \in 0 .. MaxElements
  BY <1>0, Sizes
<1>3. /\ size' = [size EXCEPT ![l] = sz] /\ meant' = [meant EXCEPT ![l] = mn]
      /\ UNCHANGED <<ptr, capacity, room, failed>>
  BY DEF InsertFits, Extended
<1>4. sz <= capacity[l]
  BY <1>0 DEF InsertFits, Fits
<1> HIDE DEF sz, mn
<1>5. Steady(l, sz, mn)
  BY <1>1, <1>2, <1>3 DEF Steady
<1>6. CASE there \subseteq Chunk(l)
  <2>1. store' = Put(store, Address(l, size[l]), v) /\ stopped' = stopped
    BY <1>6 DEF InsertFits
  <2>2. /\ Put(store, Address(l, size[l]), v) \in Stores
        /\ Holds(Put(store, Address(l, size[l]), v), ptr[l], room[l], mn)
        /\ OthersHold(l, Put(store, Address(l, size[l]), v))
    BY <1>0, <1>1, <1>6, StoreElement
  <2>3. size[l] * ElementSize < room[l]
    BY <1>0, <1>6, ChunkHas
  <2>4. Hollow(room[l], mn)
    BY <1>0, <1>1, <2>3, HollowStays
  <2>5. store' \in Stores /\ stopped' = FALSE
    BY <2>1, <2>2 DEF ListsInv, TypesInv
  <2>6. Holds(store', ptr[l], room[l], mn) /\ OthersHold(l, store')
    BY <2>1, <2>2
  <2> QED BY <1>4, <1>5, <2>4, <2>5, <2>6, SteadyAfter
<1>7. CASE ~(there \subseteq Chunk(l))
  <2>1. stopped' = (v # Unset) /\ store' = store
    BY <1>7 DEF InsertFits
  <2>2. l \in failed
    <3>1. size[l] < capacity[l]
      BY <1>0, <1>4 DEF sz
    <3> QED BY <1>0, <1>7, <3>1, HasStorage, InChunk
  <2>3. store \in Stores
    BY Stored
  <2>4. ASSUME v = Unset
        PROVE  Holds(store, ptr[l], room[l], mn) /\ Hollow(room[l], mn) /\ OthersHold(l, store)
    <3>1. Holds(store, ptr[l], room[l], mn)
      BY <1>0, <1>1, <2>4, HoldsUnset
    <3>2. Hollow(room[l], mn)
      BY <1>0, <1>1, <2>4, HollowStays
    <3>3. OthersHold(l, store)
      BY OfOne DEF OthersHold
    <3> QED BY <3>1, <3>2, <3>3
  <2> QED BY <1>4, <1>5, <2>1, <2>2, <2>3, <2>4, SteadyAfter
<1> QED BY <1>6, <1>7

LEMMA InsertFailsAfter ==
    ASSUME ListsInv, ~stopped, NEW l \in Names, size[l] < MaxElements, InsertFails(l)
    PROVE  After(l)
<1> DEFINE sz == size[l] + 1
           mn == Append(meant[l], Unset)
           c == Expanded(l, size[l] + 1)
<1>0. /\ size[l] \in Nat /\ meant[l] \in Seq(Elements) /\ Len(meant[l]) = size[l]
      /\ ptr[l] \in Nat /\ room[l] \in Nat /\ capacity[l] \in Nat
      /\ Holds(store, ptr[l], room[l], meant[l]) /\ Hollow(room[l], meant[l])
  BY OfOne
<1>1. mn \in Seq(Elements) /\ Len(mn) = sz /\ Replaces(mn, meant[l], size[l], Unset)
  BY <1>0, Appended DEF Elements
<1>2. sz \in 0 .. MaxElements /\ sz \in Nat
  BY <1>0, Sizes
<1>3. c \in Nat /\ c % ChunksPerAlloc = 0
  BY <1>0, <1>2, ExpandedTo
<1>4. /\ size' = [size EXCEPT ![l] = sz] /\ meant' = [meant EXCEPT ![l] = mn]
      /\ capacity' = [capacity EXCEPT ![l] = c] /\ failed' = failed \cup {l}
      /\ store' = store /\ ptr' = ptr /\ room' = room /\ stopped' = stopped
  BY DEF InsertFails, Extended
<1> HIDE DEF sz, mn, c
<1>5. TypesInv
  BY DEF ListsInv
<1>6. /\ size' \in [Names -> Nat] /\ size'[l] = sz
      /\ \A m \in Names \ {l} : size'[m] = size[m]
  BY <1>2, <1>4, <1>5 DEF TypesInv
<1>7. /\ capacity' \in [Names -> Nat] /\ capacity'[l] = c
      /\ \A m \in Names \ {l} : capacity'[m] = capacity[m]
  BY <1>3, <1>4, <1>5 DEF TypesInv
<1>8. /\ meant' \in [Names -> Seq(Elements)] /\ meant'[l] = mn
      /\ \A m \in Names \ {l} : meant'[m] = meant[m]
  BY <1>1, <1>4, <1>5 DEF TypesInv
<1>9. TypesInv'
  BY <1>4, <1>5, <1>6, <1>7, <1>8 DEF TypesInv
<1>10. Shaped(ptr'[l], room'[l], size'[l], capacity'[l], meant'[l])
  <2>1. Shaped(ptr[l], room[l], size[l], capacity[l], meant[l])
    BY OfOne
  <2>2. Shaped(ptr[l], room[l], sz, c, mn)
    BY <1>1, <1>2, <1>3, <2>1, Sizes DEF Shaped
  <2> QED BY <1>4, <1>6, <1>7, <1>8, <2>2
<1>11. Exclusive(l, ptr'[l], room'[l])
  BY <1>4, OfOne
<1>12. /\ Holds(store', ptr'[l], room'[l], meant'[l]) /\ Hollow(room'[l], meant'[l])
       /\ OthersHold(l, store')
  <2>1. Holds(store, ptr[l], room[l], mn)
    BY <1>0, <1>1, HoldsUnset
  <2>2. Hollow(room[l], mn)
    BY <1>0, <1>1, HollowStays
  <2>3. OthersHold(l, store)
    BY OfOne DEF OthersHold
  <2> QED BY <1>4, <1>8, <2>1, <2>2, <2>3
<1>13. l \in failed' /\ failed \subseteq failed' /\ ~stopped'
  BY <1>4
<1> QED BY <1>4, <1>6, <1>7, <1>8, <1>9, <1>10, <1>11, <1>12, <1>13 DEF After

LEMMA AssignAfter ==
    ASSUME ListsInv, ~stopped, NEW l \in Names, Assign(l)
    PROVE  After(l)
<1>1. PICK i \in 0 .. size[l] - 1, v \in Values :
        /\ meant' = [meant EXCEPT ![l] = [meant[l] EXCEPT ![i + 1] = v]]
        /\ IF Address(l, i) .. Address(l, i + 1) - 1 \subseteq Chunk(l)
           THEN store' = Put(store, Address(l, i), v) /\ UNCHANGED stopped
           ELSE stopped' = TRUE /\ UNCHANGED store
        /\ UNCHANGED <<ptr, size, capacity, room, failed>>
  BY DEF Assign
<1> DEFINE mn == [meant[l] EXCEPT ![i + 1] = v]
<1>0. /\ size[l] \in Nat /\ meant[l] \in Seq(Elements) /\ Len(meant[l]) = size[l]
      /\ ptr[l] \in Nat /\ room[l] \in Nat /\ capacity[l] \in Nat /\ i \in Nat /\ v \in Elements
      /\ Holds(store, ptr[l], room[l], meant[l]) /\ Hollow(room[l], meant[l])
  BY OfOne DEF Elements
<1>2. mn \in Seq(Elements) /\ Len(mn) = size[l] /\ Replaces(mn, meant[l], i, v)
  BY <1>0, AssignedTo DEF Replaces
<1>3. meant' = [meant EXCEPT ![l] = mn] /\ UNCHANGED <<ptr, size, capacity, room, failed>>
  BY <1>1
<1> HIDE DEF mn
<1>4. Steady(l, size[l], mn)
  <2>1. size[l] \in 0 .. MaxElements
    BY <1>0, OfOne DEF Shaped
  <2>2. size' = [size EXCEPT ![l] = size[l]]
    BY <1>3 DEF ListsInv, TypesInv
  <2> QED BY <1>2, <1>3, <2>1, <2>2 DEF Steady
<1>5. l \notin failed => size[l] <= capacity[l]
  BY OfOne DEF Counted
<1>6. CASE Address(l, i) .. Address(l, i + 1) - 1 \subseteq Chunk(l)
  <2>1. store' = Put(store, Address(l, i), v) /\ stopped' = stopped
    BY <1>1, <1>6
  <2>2. /\ Put(store, Address(l, i), v) \in Stores
        /\ Holds(Put(store, Address(l, i), v), ptr[l], room[l], mn)
        /\ OthersHold(l, Put(store, Address(l, i), v))
    BY <1>0, <1>2, <1>6, StoreElement
  <2>3. i * ElementSize < room[l]
    BY <1>0, <1>6, ChunkHas
  <2>4. Hollow(room[l], mn)
    BY <1>0, <1>2, <2>3, HollowStays
  <2>5. store' \in Stores /\ stopped' = FALSE
    BY <2>1, <2>2 DEF ListsInv, TypesInv
  <2>6. Holds(store', ptr[l], room[l], mn) /\ OthersHold(l, store')
    BY <2>1, <2>2
  <2> QED BY <1>4, <1>5, <2>4, <2>5, <2>6, SteadyAfter
<1>7. CASE ~(Address(l, i) .. Address(l, i + 1) - 1 \subseteq Chunk(l))
  <2>1. stopped' = TRUE /\ store' = store
    BY <1>1, <1>7
  <2>2. l \in failed
    <3>1. ASSUME l \notin failed
          PROVE  i < capacity[l]
      BY <1>0, <1>5, <3>1
    <3> QED BY <1>0, <1>7, <3>1, HasStorage, InChunk
  <2>3. store' \in Stores
    BY <2>1, Stored
  <2> QED BY <1>4, <1>5, <2>1, <2>2, <2>3, SteadyAfter
<1> QED BY <1>6, <1>7

\* resize to one element less.
LEMMA ShrinkAfter ==
    ASSUME ListsInv, ~stopped, NEW l \in Names, Shrink(l)
    PROVE  After(l)
<1> DEFINE sz == size[l] - 1
           mn == Front(meant[l])
<1>0. /\ size[l] \in Nat /\ meant[l] \in Seq(Elements) /\ Len(meant[l]) = size[l]
      /\ ptr[l] \in Nat /\ room[l] \in Nat /\ capacity[l] \in Nat /\ size[l] > 0
      /\ Holds(store, ptr[l], room[l], meant[l]) /\ Hollow(room[l], meant[l])
  BY OfOne DEF Shrink
<1>1. /\ mn \in Seq(Elements) /\ Len(mn) = sz
      /\ \A j \in 1 .. Len(mn) : mn[j] = meant[l][j]
  BY <1>0, OneLess
<1>2. /\ size' = [size EXCEPT ![l] = sz] /\ meant' = [meant EXCEPT ![l] = mn]
      /\ UNCHANGED <<store, ptr, capacity, room, failed, stopped>> /\ sz <= capacity[l]
  BY <1>0 DEF Shrink, Fits
<1>3. sz \in 0 .. MaxElements
  BY <1>0, OfOne, Sizes DEF Shaped
<1> HIDE DEF mn
<1>4. Steady(l, sz, mn)
  BY <1>1, <1>2, <1>3 DEF Steady
<1>5. ASSUME NEW j \in 0 .. Len(mn) - 1
      PROVE  j \in 0 .. Len(meant[l]) - 1 /\ mn[j + 1] = meant[l][j + 1]
  <2>1. j + 1 \in 1 .. Len(mn)
    BY <1>1, <1>3, Sizes
  <2> QED BY <1>0, <1>1, <2>1
<1>6. Holds(store, ptr[l], room[l], mn)
  BY <1>0, <1>5 DEF Holds
<1>7. Hollow(room[l], mn)
  BY <1>0, <1>5 DEF Hollow
<1>8. OthersHold(l, store)
  BY OfOne DEF OthersHold
<1>9. store' \in Stores /\ stopped' = FALSE /\ store' = store
  BY <1>2, Stored DEF ListsInv, TypesInv
<1> HIDE DEF sz
<1> QED BY <1>2, <1>4, <1>6, <1>7, <1>8, <1>9, SteadyAfter

\* Cells from d on that lie in a chunk.
LEMMA SpanIn ==
    ASSUME NEW p \in Nat, NEW rm \in Nat, NEW d \in Nat, NEW n \in Nat
    PROVE  /\ n > 0 /\ d .. d + n - 1 \subseteq p .. p + rm - 1 => p <= d /\ d + n <= p + rm
           /\ p <= d /\ d + n <= p + rm => d .. d + n - 1 \subseteq p .. p + rm - 1
<1>1. ASSUME n > 0, d .. d + n - 1 \subseteq p .. p + rm - 1
      PROVE  p <= d /\ d + n <= p + rm
  <2>1. d \in d .. d + n - 1 /\ d + n - 1 \in d .. d + n - 1
    BY <1>1
  <2>2. d \in p .. p + rm - 1 /\ d + n - 1 \in p .. p + rm - 1
    BY <1>1, <2>1
  <2> QED BY <2>2
<1> QED BY <1>1

LEMMA DeleteAfter ==
    ASSUME ListsInv, ~stopped, NEW l \in Names, Delete(l)
    PROVE  After(l)
<1>1. PICK i \in 0 .. size[l] - 1 :
        /\ size' = [size EXCEPT ![l] = size[l] - 1]
        /\ meant' = [meant EXCEPT ![l] = RemoveAt(meant[l], i + 1)]
        /\ IF Address(l, i) .. Address(l, i) + Behind(l, i) - 1 \subseteq Chunk(l)
           THEN /\ store' = Move(store, Address(l, i), Address(l, i + 1), Behind(l, i))
                /\ UNCHANGED stopped
           ELSE stopped' = TRUE /\ UNCHANGED store
        /\ UNCHANGED <<ptr, capacity, room, failed>>
  BY DEF Delete
<1> DEFINE sz == size[l] - 1
           mn == RemoveAt(meant[l], i + 1)
           n == Behind(l, i)
           d == Address(l, i)
           src == Address(l, i + 1)
<1>0. /\ size[l] \in Nat /\ meant[l] \in Seq(Elements) /\ Len(meant[l]) = size[l]
      /\ ptr[l] \in Nat /\ room[l] \in Nat /\ capacity[l] \in Nat /\ i \in Nat
      /\ Holds(store, ptr[l], room[l], meant[l]) /\ Hollow(room[l], meant[l])
      /\ Storage(ptr[l], room[l])
  BY OfOne
<1>2. /\ mn \in Seq(Elements) /\ Len(mn) = sz /\ RemovedFrom(mn, meant[l], i + 1)
  <2>1. i + 1 \in 1 .. Len(meant[l])
    BY <1>0
  <2>2. mn \in Seq(Elements) /\ RemovedFrom(mn, meant[l], i + 1)
    BY <1>0, <2>1, Removed
  <2> QED BY <1>0, <2>2 DEF RemovedFrom
<1>3. sz \in 0 .. MaxElements /\ (l \notin failed => size[l] <= capacity[l])
  <2>1. size[l] <= MaxElements /\ MaxElements \in Nat
    BY OfOne, Sizes DEF Shaped
  <2>2. size[l] - 1 \in 0 .. MaxElements
    BY <1>0, <2>1
  <2>3. l \notin failed => size[l] <= capacity[l]
    BY OfOne DEF Counted
  <2> QED BY <2>2, <2>3
<1> HIDE DEF mn
<1>4. Steady(l, sz, mn)
  BY <1>1, <1>2, <1>3 DEF Steady, mn
<1>5. PICK rest \in Nat : rest = size[l] - (i + 1)
  <2>1. size[l] - (i + 1) \in Nat
    BY <1>0
  <2> QED BY <2>1
<1>6. /\ d = ptr[l] + i * ElementSize /\ src = d + ElementSize /\ i * ElementSize \in Nat
      /\ n = rest * ElementSize /\ n \in Nat /\ d \in Nat /\ src \in Nat
      /\ ElementSize \in Nat /\ ElementSize > 0
  <2>1. ElementSize \in Nat /\ ElementSize > 0
    BY Sizes
  <2>2. i * ElementSize \in Nat /\ (i + 1) * ElementSize = i * ElementSize + ElementSize
    BY <1>0, NextCell
  <2>3. d = ptr[l] + i * ElementSize /\ src = ptr[l] + (i + 1) * ElementSize
    BY DEF Address
  <2>4. n = rest * ElementSize /\ rest * ElementSize \in Nat
    BY <1>5, <2>1 DEF Behind
  <2> HIDE DEF d, src, n
  <2>5. PICK x \in Nat, y \in Nat : x = i * ElementSize /\ y = x + ElementSize
    BY <2>1, <2>2
  <2>6. d = ptr[l] + x /\ src = ptr[l] + y
    BY <2>2, <2>3, <2>5
  <2>7. d \in Nat /\ src \in Nat /\ src = d + ElementSize
    <3>1. ptr[l] \in Nat /\ y = x + ElementSize
      BY <1>0, <2>5
    <3> QED BY <2>1, <2>6, <3>1
  <2>8. d = ptr[l] + i * ElementSize
    BY <2>3
  <2>9. n = rest * ElementSize /\ n \in Nat
    BY <2>4
  <2> QED BY <2>1, <2>2, <2>7, <2>8, <2>9
<1> HIDE DEF d, src, n
<1>7. CASE d .. d + n - 1 \subseteq Chunk(l)
  <2>1. store' = Move(store, d, src, n) /\ stopped' = FALSE
    BY <1>1, <1>7 DEF ListsInv, TypesInv, d, src, n
  <2>2. store \in Stores
    BY Stored
  <2>3. i \in 0 .. Len(meant[l]) - 1
    BY <1>0
  <2>4. /\ Holds(Move(store, ptr[l] + i * ElementSize, ptr[l] + (i + 1) * ElementSize,
                         (Len(meant[l]) - (i + 1)) * ElementSize), ptr[l], room[l], mn)
        /\ Hollow(room[l], mn)
    BY <1>0, <1>2, <2>2, <2>3, Deleted
  <2>5. Holds(store', ptr[l], room[l], mn) /\ Hollow(room[l], mn)
    BY <1>0, <2>1, <2>4 DEF Address, Behind, d, src, n
  <2>6. store' \in Stores
    BY <1>6, <2>1, <2>2, MovedCells
  <2>7. n = 0 \/ (ptr[l] <= d /\ d + n <= ptr[l] + room[l])
    <3>1. CASE n > 0
      <4>1. d .. d + n - 1 \subseteq ptr[l] .. ptr[l] + room[l] - 1
        BY <1>7 DEF Chunk
      <4>2. d \in Nat /\ n \in Nat /\ ptr[l] \in Nat /\ room[l] \in Nat
        BY <1>0, <1>6
      <4> QED BY <3>1, <4>1, <4>2, SpanIn
    <3> QED BY <1>6, <3>1
  <2>8. Exclusive(l, d, n)
    <3>1. CASE n = 0
      BY <3>1 DEF Exclusive, Clear
    <3> QED BY <1>6, <2>7, <3>1, InsideClear
  <2>9. ASSUME NEW m \in Names \ {l}
        PROVE  Holds(Move(store, d, src, n), ptr[m], room[m], meant[m])
    <3>1. /\ Storage(ptr[m], room[m]) /\ meant[m] \in Seq(Elements)
          /\ Holds(store, ptr[m], room[m], meant[m])
      BY OfOne
    <3>2. Clear(d, n, ptr[m], room[m])
      BY <2>8 DEF Exclusive
    <3>3. d < src
      BY <1>6
    <3> QED BY <1>6, <2>2, <3>1, <3>2, <3>3, DeletedElsewhere
  <2>10. OthersHold(l, store')
    BY <2>1, <2>9 DEF OthersHold
  <2>11. l \notin failed => sz <= capacity[l]
    BY <1>0, <1>3
  <2> HIDE DEF sz
  <2> QED BY <1>4, <2>1, <2>5, <2>6, <2>10, <2>11, SteadyAfter
<1>8. CASE ~(d .. d + n - 1 \subseteq Chunk(l))
  <2>1. stopped' = TRUE /\ store' = store
    BY <1>1, <1>8 DEF d, n
  <2>2. l \in failed
    <3>1. SUFFICES ASSUME l \notin failed PROVE ptr[l] <= d /\ d + n <= ptr[l] + room[l]
      <4>1. d \in Nat /\ n \in Nat /\ ptr[l] \in Nat /\ room[l] \in Nat
        BY <1>0, <1>6
      <4> QED BY <1>8, <3>1, <4>1, SpanIn DEF Chunk
    <3>2. capacity[l] * ElementSize = room[l] /\ size[l] <= capacity[l]
      BY <3>1, OfOne DEF Counted
    <3>3. i + rest < capacity[l] /\ i + rest \in Nat
      <4>1. size[l] <= capacity[l]
        BY <3>2
      <4>2. i \in Nat /\ size[l] \in Nat /\ capacity[l] \in Nat
        BY <1>0
      <4> QED BY <1>5, <4>1, <4>2
    <3>4. (i + rest) * ElementSize + ElementSize <= capacity[l] * ElementSize
      BY <1>0, <3>3, CellsInOrder
    <3>5. (i + rest) * ElementSize = i * ElementSize + rest * ElementSize
      BY <1>0, Sizes
    <3>6. PICK x \in Nat, y \in Nat : x = i * ElementSize /\ y = rest * ElementSize
      BY <1>0, <1>6
    <3>7. x + y + ElementSize <= room[l]
      BY <3>2, <3>4, <3>5, <3>6
    <3>8. d = ptr[l] + x
      BY <1>6, <3>6
    <3>9. n = y
      BY <1>6, <3>6
    <3>10. ptr[l] \in Nat /\ room[l] \in Nat /\ ElementSize \in Nat
      BY <1>0, <1>6
    <3>11. ptr[l] <= ptr[l] + x /\ ptr[l] + x + y <= ptr[l] + room[l]
      BY <3>6, <3>7, <3>10
    <3> QED BY <3>8, <3>9, <3>11
  <2>3. store' \in Stores
    BY <2>1, Stored
  <2>4. l \notin failed => sz <= capacity[l]
    BY <2>2
  <2> QED BY <1>4, <2>1, <2>2, <2>3, <2>4, SteadyAfter
<1> QED BY <1>7, <1>8

\* real_storage promises storage in the region that is nobody's.
LEMMA Placed ==
    ASSUME ListsInv, NEW n \in Nat, \E r \in Nat : n = r * ElementSize, NEW a \in Places(n)
    PROVE  /\ a \in Nat /\ a > 0 /\ Storage(a, n)
           /\ \A m \in Names : Clear(a, n, ptr[m], room[m])
<1>1. a \in Nat /\ a > 0 /\ a + n <= High + 1
  BY Sizes DEF Places
<1>2. Storage(a, n)
  BY <1>1 DEF Storage
<1>3. ASSUME NEW m \in Names
      PROVE  Clear(a, n, ptr[m], room[m])
  <2>1. (a .. a + n - 1) \cap (ptr[m] .. ptr[m] + room[m] - 1) = {}
    BY DEF Places, Chunk
  <2>2. ptr[m] \in Nat /\ room[m] \in Nat
    BY OfOne
  <2> QED BY <1>1, <2>1, <2>2, IntervalsApart
<1> QED BY <1>1, <1>2, <1>3

\* The list's elements are in the new chunk, and the others' where they were.
LEMMA MovedHolds ==
    ASSUME ListsInv, ~stopped, NEW l \in Names, NEW a \in Nat, NEW n \in Nat, n > 0,
           Storage(a, n), \A m \in Names : Clear(a, n, ptr[m], room[m])
    PROVE  /\ Moved(l, a, n) \in Stores
           /\ Holds(Moved(l, a, n), a, n, meant[l])
           /\ OthersHold(l, Moved(l, a, n))
<1> DEFINE s == IF ptr[l] = Null THEN store ELSE Move(store, a, ptr[l], n)
           held == (a .. a + n - 1) \cup UNION {Chunk(m) : m \in Names \ {l}}
<1>0. store \in Stores
  BY Stored
<1>1. /\ ptr[l] \in Nat /\ meant[l] \in Seq(Elements) /\ Storage(ptr[l], room[l])
      /\ Holds(store, ptr[l], room[l], meant[l]) /\ Hollow(room[l], meant[l])
      /\ Shaped(ptr[l], room[l], size[l], capacity[l], meant[l])
  BY OfOne
<1>2. s \in Stores
  BY <1>0, <1>1, MovedCells
<1>3. Holds(s, a, n, meant[l])
  <2>1. CASE ptr[l] = Null
    <3>1. room[l] = 0
      BY <1>1, <2>1 DEF Shaped
    <3>2. ASSUME NEW i \in 0 .. Len(meant[l]) - 1
          PROVE  meant[l][i + 1] = Unset
      <4>1. i * ElementSize >= 0
        BY Sizes
      <4> QED BY <1>1, <3>1, <4>1 DEF Hollow
    <3> QED BY <3>2 DEF Holds
  <2>2. CASE ptr[l] # Null
    <3>1. Holds(Move(store, a, ptr[l], n), a, n, meant[l])
      BY <1>0, <1>1, MovedAlong
    <3> QED BY <2>2, <3>1
  <2> QED BY <2>1, <2>2
<1>4. ASSUME NEW m \in Names \ {l}
      PROVE  /\ Holds(s, ptr[m], room[m], meant[m])
             /\ Storage(ptr[m], room[m]) /\ meant[m] \in Seq(Elements)
  <2>1. /\ Storage(ptr[m], room[m]) /\ meant[m] \in Seq(Elements)
        /\ Holds(store, ptr[m], room[m], meant[m])
    BY OfOne
  <2>2. Holds(Move(store, a, ptr[l], n), ptr[m], room[m], meant[m])
    BY <1>0, <1>1, <2>1, MovedElsewhere
  <2> QED BY <2>1, <2>2
<1>5. Moved(l, a, n) = Kept(s, held)
  BY DEF Moved, Kept
<1>6. a .. a + n - 1 \subseteq held
  OBVIOUS
<1>7. \A m \in Names \ {l} : ptr[m] .. ptr[m] + room[m] - 1 \subseteq held
  BY DEF Chunk
<1> HIDE DEF s, held
<1>8. Moved(l, a, n) \in Stores
  BY <1>2, <1>5, ForgottenTyped
<1>9. Holds(Moved(l, a, n), a, n, meant[l])
  BY <1>1, <1>2, <1>3, <1>5, <1>6, Forgotten
<1>10. ASSUME NEW m \in Names \ {l}
       PROVE  Holds(Moved(l, a, n), ptr[m], room[m], meant[m])
  <2>1. ptr[m] .. ptr[m] + room[m] - 1 \subseteq held
    BY <1>7
  <2> QED BY <1>2, <1>4, <1>5, <2>1, Forgotten
<1> QED BY <1>8, <1>9, <1>10 DEF OthersHold

LEMMA InsertGrowsAfter ==
    ASSUME ListsInv, ~stopped, NEW l \in Names, NEW v \in Elements,
           size[l] < MaxElements, InsertGrows(l, v)
    PROVE  After(l)
<1> DEFINE sz == size[l] + 1
           mn == Append(meant[l], v)
           c == Expanded(l, size[l] + 1)
           n == c * ElementSize
<1>0. /\ size[l] \in Nat /\ meant[l] \in Seq(Elements) /\ Len(meant[l]) = size[l]
      /\ ptr[l] \in Nat /\ room[l] \in Nat /\ capacity[l] \in Nat
  BY OfOne
<1>1. mn \in Seq(Elements) /\ Len(mn) = sz /\ Replaces(mn, meant[l], size[l], v)
  BY <1>0, Appended
<1>2. sz \in 0 .. MaxElements /\ sz \in Nat
  BY <1>0, Sizes
<1>3. c \in Nat /\ c % ChunksPerAlloc = 0 /\ sz <= c
  BY <1>0, <1>2, ExpandedTo
<1>4. PICK a \in Places(n) :
        /\ ptr' = [ptr EXCEPT ![l] = a]
        /\ store' = Put(Moved(l, a, n), a + size[l] * ElementSize, v)
  BY DEF InsertGrows
<1>5. /\ size' = [size EXCEPT ![l] = sz] /\ meant' = [meant EXCEPT ![l] = mn]
      /\ capacity' = [capacity EXCEPT ![l] = c] /\ room' = [room EXCEPT ![l] = n]
      /\ failed' = failed /\ stopped' = stopped
  BY DEF InsertGrows, Extended
<1>6. size[l] < c
  BY <1>0, <1>3
<1> HIDE DEF sz, mn, c
<1>7. size[l] * ElementSize + ElementSize <= n /\ size[l] * ElementSize \in Nat /\ n \in Nat
      /\ ElementSize \in Nat /\ ElementSize > 0
  BY <1>0, <1>3, <1>6, CellsInOrder, Sizes
<1>8. (\E r \in Nat : n = r * ElementSize) /\ n = c * ElementSize
  BY <1>3
<1> HIDE DEF n
<1>9. n > 0 /\ size[l] * ElementSize < n
  BY <1>7
<1>10. /\ a \in Nat /\ a > 0 /\ Storage(a, n)
       /\ \A m \in Names : Clear(a, n, ptr[m], room[m])
  BY <1>7, <1>8, Placed
<1>11. /\ Moved(l, a, n) \in Stores /\ Holds(Moved(l, a, n), a, n, meant[l])
       /\ OthersHold(l, Moved(l, a, n))
  BY <1>7, <1>9, <1>10, MovedHolds
<1>12. store' \in Stores /\ Holds(store', a, n, mn)
  <2>1. a + size[l] * ElementSize \in Nat
    BY <1>7, <1>10
  <2>2. store' \in Stores
    BY <1>4, <1>11, <2>1, Written
  <2>3. Holds(Put(Moved(l, a, n), a + size[l] * ElementSize, v), a, n, mn)
    BY <1>0, <1>1, <1>9, <1>10, <1>11, Assigned
  <2> QED BY <1>4, <2>2, <2>3
<1>13. OthersHold(l, store')
  <2> SUFFICES ASSUME NEW m \in Names \ {l}
               PROVE  Holds(store', ptr[m], room[m], meant[m])
    BY DEF OthersHold
  <2> DEFINE d == a + size[l] * ElementSize
  <2>1. Storage(ptr[m], room[m]) /\ meant[m] \in Seq(Elements) /\ ptr[m] \in Nat /\ room[m] \in Nat
    BY OfOne
  <2>2. Holds(Moved(l, a, n), ptr[m], room[m], meant[m])
    BY <1>11 DEF OthersHold
  <2>3. d \in Nat
    BY <1>7, <1>10
  <2>4. Clear(d, ElementSize, ptr[m], room[m])
    <3>1. Clear(a, n, ptr[m], room[m])
      BY <1>10
    <3> QED BY <1>7, <1>10, <2>1, <3>1 DEF Clear
  <2>5. store' = Put(Moved(l, a, n), d, v)
    BY <1>4
  <2> HIDE DEF d
  <2> QED BY <1>11, <2>1, <2>2, <2>3, <2>4, <2>5, PutElsewhere
<1>14. TypesInv
  BY DEF ListsInv
<1>15. /\ size' \in [Names -> Nat] /\ size'[l] = sz
       /\ \A m \in Names \ {l} : size'[m] = size[m]
  BY <1>2, <1>5, <1>14 DEF TypesInv
<1>16. /\ capacity' \in [Names -> Nat] /\ capacity'[l] = c
       /\ \A m \in Names \ {l} : capacity'[m] = capacity[m]
  BY <1>3, <1>5, <1>14 DEF TypesInv
<1>17. /\ room' \in [Names -> Nat] /\ room'[l] = n
       /\ \A m \in Names \ {l} : room'[m] = room[m]
  BY <1>5, <1>7, <1>14 DEF TypesInv
<1>18. /\ ptr' \in [Names -> Nat] /\ ptr'[l] = a
       /\ \A m \in Names \ {l} : ptr'[m] = ptr[m]
  BY <1>4, <1>10, <1>14 DEF TypesInv
<1>19. /\ meant' \in [Names -> Seq(Elements)] /\ meant'[l] = mn
       /\ \A m \in Names \ {l} : meant'[m] = meant[m]
  BY <1>1, <1>5, <1>14 DEF TypesInv
<1>20. TypesInv'
  BY <1>5, <1>12, <1>14, <1>15, <1>16, <1>17, <1>18, <1>19 DEF TypesInv, Stores
<1>21. Shaped(a, n, sz, c, mn)
  <2>1. a + n <= High + 1
    BY <1>10 DEF Storage
  <2> QED BY <1>1, <1>2, <1>3, <1>8, <1>10, <2>1, Sizes DEF Shaped, Null
<1>22. Hollow(n, mn)
  <2> SUFFICES ASSUME NEW i \in 0 .. Len(mn) - 1, i * ElementSize >= n
               PROVE  FALSE
    BY DEF Hollow
  <2>1. i \in Nat /\ i < c
    BY <1>1, <1>2, <1>3
  <2>2. i * ElementSize + ElementSize <= n /\ i * ElementSize \in Nat
    BY <1>3, <1>8, <2>1, CellsInOrder
  <2> QED BY <1>7, <2>2
<1>23. Counted(n, sz, c)
  BY <1>3, <1>8 DEF Counted
<1>24. Exclusive(l, a, n)
  BY <1>10 DEF Exclusive
<1>25. stopped' = FALSE /\ failed \subseteq failed'
  BY <1>5, <1>14 DEF TypesInv
<1> QED BY <1>12, <1>13, <1>15, <1>16, <1>17, <1>18, <1>19, <1>20, <1>21, <1>22, <1>23, <1>24,
           <1>25 DEF After

-----------------------------------------------------------------------------
(* Theorems.                                                               *)

LEMMA ListsInit == Init => ListsInv
<1> SUFFICES ASSUME Init PROVE ListsInv
  OBVIOUS
<1>1. TypesInv
  <2>1. store \in [1 .. High + 1 -> Cells]
    BY JunkIsACell DEF Init
  <2>2. /\ ptr \in [Names -> Nat] /\ room \in [Names -> Nat]
        /\ size \in [Names -> Nat] /\ capacity \in [Names -> Nat]
    BY DEF Init, Null
  <2>3. meant \in [Names -> Seq(Elements)]
    <3>1. <<>> \in Seq(Elements)
      OBVIOUS
    <3> QED BY <3>1 DEF Init
  <2>4. failed \subseteq Names /\ stopped \in BOOLEAN
    BY DEF Init
  <2> QED BY <2>1, <2>2, <2>3, <2>4 DEF TypesInv
<1>2. ASSUME NEW l \in Names
      PROVE  /\ ptr[l] = 0 /\ room[l] = 0 /\ size[l] = 0 /\ capacity[l] = 0
             /\ meant[l] = <<>> /\ Len(meant[l]) = 0
  BY DEF Init, Null
<1>3. ASSUME NEW l \in Names
      PROVE  Shaped(ptr[l], room[l], size[l], capacity[l], meant[l])
  <2>1. 0 % ChunksPerAlloc = 0 /\ 0 = 0 * ElementSize
    BY Sizes
  <2>2. \E r \in Nat : 0 = r * ElementSize
    BY <2>1
  <2> QED BY <1>2, <2>1, <2>2, Sizes DEF Shaped, Null
<1>4. ASSUME NEW l \in Names, NEW m \in Names
      PROVE  Clear(ptr[l], room[l], ptr[m], room[m])
  BY <1>2 DEF Clear
<1>5. ASSUME NEW l \in Names
      PROVE  Counted(room[l], size[l], capacity[l])
  BY <1>2, Sizes DEF Counted
<1>6. ASSUME NEW l \in Names
      PROVE  Holds(store, ptr[l], room[l], meant[l]) /\ Hollow(room[l], meant[l])
  BY <1>2 DEF Holds, Hollow
<1>7. ~stopped
  BY DEF Init
<1> QED BY <1>1, <1>3, <1>4, <1>5, <1>6, <1>7 DEF ListsInv

LEMMA ListsStep == ListsInv /\ [Next]_vars => ListsInv'
<1> SUFFICES ASSUME ListsInv, [Next]_vars PROVE ListsInv'
  OBVIOUS
<1>1. ASSUME Next PROVE ListsInv'
  <2>1. PICK l \in Names : Insert(l) \/ Assign(l) \/ Delete(l) \/ Shrink(l)
    BY <1>1 DEF Next
  <2>2. ~stopped
    BY <1>1 DEF Next
  <2>3. After(l)
    <3>1. CASE Insert(l)
      <4>1. size[l] < MaxElements
        BY <3>1 DEF Insert
      <4>2. ASSUME NEW v \in Elements, InsertFits(l, v) PROVE After(l)
        BY <2>2, <4>1, <4>2, InsertFitsAfter
      <4>3. ASSUME NEW v \in Elements, InsertGrows(l, v) PROVE After(l)
        BY <2>2, <4>1, <4>3, InsertGrowsAfter
      <4>4. ASSUME InsertFails(l) PROVE After(l)
        BY <2>2, <4>1, <4>4, InsertFailsAfter
      <4> QED BY <3>1, <4>2, <4>3, <4>4 DEF Insert, Elements
    <3>2. CASE Assign(l)
      BY <2>2, <3>2, AssignAfter
    <3>3. CASE Delete(l)
      BY <2>2, <3>3, DeleteAfter
    <3>4. CASE Shrink(l)
      BY <2>2, <3>4, ShrinkAfter
    <3> QED BY <2>1, <3>1, <3>2, <3>3, <3>4
  <2> QED BY <2>2, <2>3, AfterInv
<1>2. ASSUME UNCHANGED vars PROVE ListsInv'
  BY <1>2 DEF vars, ListsInv, TypesInv
<1> QED BY <1>1, <1>2

\* A cell of a list is one of an element it counts.
LEMMA ElementOf ==
    ASSUME NEW n \in Nat, NEW k \in 1 .. n * ElementSize - 1
    PROVE  /\ k \div ElementSize \in 0 .. n - 1 /\ k % ElementSize \in 0 .. ElementSize - 1
           /\ k \div ElementSize # 0 \/ k % ElementSize # 0
           /\ (k \div ElementSize) * ElementSize + (k % ElementSize) = k
<1>0. PICK e \in Nat : e = ElementSize /\ e > 0
  BY Sizes
<1>1. PICK i \in Nat, q \in 0 .. e - 1 : i = k \div e /\ q = k % e /\ k = i * e + q
  <2>1. k \in Nat
    BY <1>0
  <2> QED BY <1>0, <2>1, Quotient
<1>2. i < n
  <2>1. CASE i = n
    BY <1>0, <1>1, <2>1
  <2>2. CASE n < i
    <3>1. n * ElementSize + ElementSize <= i * ElementSize
      BY <2>2, CellsInOrder
    <3> QED BY <1>0, <1>1, <3>1
  <2> QED BY <2>1, <2>2
<1>3. i # 0 \/ q # 0
  <2>1. CASE i = 0
    BY <1>1, <2>1
  <2> QED BY <2>1
<1> QED BY <1>0, <1>1, <1>2, <1>3

LEMMA Whole ==
    ASSUME ListsInv
    PROVE  TypeOK /\ ListsAreWhole
<1>1. TypeOK
  <2>1. store \in [1 .. High + 1 -> Cells] /\ failed \subseteq Names /\ stopped \in BOOLEAN
    BY DEF ListsInv, TypesInv
  <2>2. ASSUME NEW l \in Names
        PROVE  /\ size[l] \in 0 .. MaxElements
               /\ Len(meant[l]) = size[l]
               /\ capacity[l] % ChunksPerAlloc = 0
               /\ ptr[l] # Null => Chunk(l) \subseteq 1 .. High
               /\ ptr[l] = Null => room[l] = 0
    <3>1. /\ ptr[l] \in Nat /\ room[l] \in Nat /\ size[l] \in Nat
          /\ Shaped(ptr[l], room[l], size[l], capacity[l], meant[l])
      BY OfOne
    <3>2. ptr[l] # Null => Chunk(l) \subseteq 1 .. High
      BY <3>1, Sizes DEF Shaped, Chunk, Null
    <3> QED BY <3>1, <3>2, Sizes DEF Shaped
  <2> QED BY <2>1, <2>2 DEF TypeOK
<1>2. HasWhatItCounts
  BY DEF ListsInv, Counted, HasWhatItCounts
<1>3. ElementsSurvive
  <2> SUFFICES ASSUME ~stopped, NEW l \in Names, NEW k \in 1 .. size[l] * ElementSize - 1,
                      k < room[l]
               PROVE  RightCell(l, k)
    BY DEF ElementsSurvive
  <2>1. /\ ptr[l] \in Nat /\ room[l] \in Nat /\ size[l] \in Nat /\ meant[l] \in Seq(Elements)
        /\ Len(meant[l]) = size[l] /\ Holds(store, ptr[l], room[l], meant[l])
    BY OfOne
  <2>2. PICK i \in 0 .. Len(meant[l]) - 1, q \in 0 .. ElementSize - 1 :
          /\ i = k \div ElementSize /\ q = k % ElementSize
          /\ (i # 0 \/ q # 0)
          /\ i * ElementSize + q = k
    BY <2>1, ElementOf
  <2>3. ASSUME meant[l][i + 1] # Unset
        PROVE  store[ptr[l] + (i * ElementSize + q)] = Piece(meant[l][i + 1], q)
    <3>1. i * ElementSize + q < room[l] /\ (i # 0 \/ q # 0)
      BY <2>2
    <3> QED BY <2>1, <2>3, <3>1 DEF Holds
  <2> QED BY <2>2, <2>3 DEF RightCell
<1> QED BY <1>1, <1>2, <1>3 DEF ListsAreWhole

LEMMA ListsAlways == Spec => []ListsInv
BY ListsInit, ListsStep, PTL DEF Spec

\* storage::dynamic_list: whatever is inserted, removed, assigned and taken
\* back, and whether or not real_storage had storage, a list counts no more
\* than MaxElements elements, its capacity is in whole allocations, and its
\* chunk is in the region.
THEOREM ListTypes == Spec => []TypeOK
<1>1. ListsInv => TypeOK
  BY Whole
<1> QED BY <1>1, ListsAlways, PTL

\* dynamic_list::resize, insert and remove with storage::move: a list that has
\* never failed to grow has storage for all it counts and leaves its chunk in no
\* access; and of every list, also of one that has failed, all cells of elements
\* that have storage hold what was put there, the first cell of the chunk aside,
\* through the moves of this list and of the ones in front of its storage.
THEOREM ListsStayWhole == Spec => []ListsAreWhole
<1>1. ListsInv => ListsAreWhole
  BY Whole
<1> QED BY <1>1, ListsAlways, PTL
===============================================================================
