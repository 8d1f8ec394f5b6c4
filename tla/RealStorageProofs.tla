-------------------------- MODULE RealStorageProofs ---------------------------
(***************************************************************************)
(* Theorems about RealStorage, for every region and table.                 *)
(*                                                                         *)
(* Coalesced holds of every client.  The others are about clients that ask *)
(* for no alignment and never for exactly what the table occupies: with an *)
(* alignment alloc may cut a block on its right, where a create that fails *)
(* loses the blocks behind, and realloc to the size of the table gives the *)
(* table away.  Without these a block is cut in two at most, by a create   *)
(* that either finds a descriptor, or faults at once.                      *)
(***************************************************************************)
EXTENDS RealStorage, FiniteSetTheorems, TLAPS

\* The table's sizes: it is made with Table0 descriptors and grows by Grow.
TableSizes == {(Table0 + n * Grow) * DescSize : n \in Nat}

Plain == Aligns \subseteq {0} /\ Sizes \cap TableSizes = {}

-----------------------------------------------------------------------------
\* Where the blocks of h begin, and where the last one ends.
Starts(h) == [k \in 1 .. Len(h) + 1 |-> Start(h, k)]

\* f says where the blocks of h begin: they fill the region.
Laid(h, f) ==
    /\ f \in [1 .. Len(h) + 1 -> Nat]
    /\ f[1] = Base /\ f[Len(h) + 1] = Base + RegionSize
    /\ \A k \in 1 .. Len(h) : f[k + 1] = f[k] + h[k].size

\* Blocks as they are described before it is known that they fit.
Piece == [id : Nat, size : Nat, flag : Flags]

\* The table describes itself first and then the block it grows into; every
\* descriptor in it describes one block.
Table(h) ==
    /\ h \in Seq(Piece) /\ Len(h) >= 2
    /\ h[1].flag = "USED" /\ h[1].size \in TableSizes
    /\ h[1].id = 0 /\ h[2].id = 1
    /\ \A k, l \in 1 .. Len(h) : h[k].id = h[l].id => k = l
    /\ \A k \in 1 .. Len(h) : h[k].id < Slots(h)

\* The clients have chunks H in a region whose blocks begin where f says.
Given(h, f, H) ==
    /\ H \subseteq Chunk
    /\ \A c, d \in H : c.ptr = d.ptr => c = d
    /\ \A c \in H : \E k \in 2 .. Len(h) :
          h[k].flag = "USED" /\ f[k] = c.ptr /\ h[k].size >= c.size
    /\ \A k \in 2 .. Len(h) :
          h[k].flag = "USED" => \E c \in H : f[k] = c.ptr /\ h[k].size >= c.size

Sound(h, f, H) == Laid(h, f) /\ Table(h) /\ Given(h, f, H)

StorageInv ==
    /\ faulted \in BOOLEAN
    /\ moving \subseteq held
    /\ IF faulted THEN heap \in Seq(Block) /\ heap # <<>> /\ held \subseteq Chunk
                       /\ lost \subseteq 0 .. RegionSize
       ELSE lost = {} /\ Sound(heap, Starts(heap), held)

-----------------------------------------------------------------------------
(* Numbers and sequences.                                                  *)

\* A set of numbers has a least one.
LEMMA LeastNumber ==
  ASSUME NEW T \in SUBSET Nat, T # {}
  PROVE  \E m \in T : \A n \in T : m <= n
<1> DEFINE D == {0 .. n : n \in T}
           R == StrictSubsetOrdering(Nat)
<1>1. D \subseteq FiniteSubsetsOf(Nat)
  <2>1. ASSUME NEW n \in T PROVE IsFiniteSet(0 .. n) /\ 0 .. n \subseteq Nat
    BY FS_Interval
  <2> QED BY <2>1 DEF FiniteSubsetsOf
<1>2. D # {}
  OBVIOUS
<1>3. IsWellFoundedOn(R, FiniteSubsetsOf(Nat))
  BY FS_StrictSubsetOrderingWellFounded
<1> HIDE DEF D, R
<1>4. PICK d \in D : \A e \in D : ~(<<e, d>> \in R)
  BY <1>1, <1>2, <1>3, WFMin
<1>5. PICK m \in T : d = 0 .. m
  BY DEF D
<1>6. ASSUME NEW n \in T, n < m PROVE FALSE
  <2>1. 0 .. n \in D
    BY DEF D
  <2>2. 0 .. n \subseteq 0 .. m /\ 0 .. n # 0 .. m
    BY <1>6
  <2>3. 0 .. n \in SUBSET Nat /\ 0 .. m \in SUBSET Nat
    OBVIOUS
  <2>4. <<0 .. n, 0 .. m>> \in StrictSubsetOrdering(Nat)
    BY <2>2, <2>3 DEF StrictSubsetOrdering
  <2> QED BY <1>4, <1>5, <2>1, <2>4 DEF R
<1>7. \A n \in T : m <= n
  BY <1>6
<1> QED BY <1>7

\* What is FALSE somewhere is FALSE somewhere first: induction along 0 .. n.
LEMMA FirstFailure ==
    ASSUME NEW n \in Nat, NEW P \in SUBSET (0 .. n), 0 \in P,
           \A i \in 0 .. n - 1 : i \in P => i + 1 \in P
    PROVE  P = 0 .. n
<1> SUFFICES ASSUME 0 .. n \ P # {} PROVE FALSE
  OBVIOUS
<1> DEFINE T == 0 .. n \ P
<1>1. T \in SUBSET Nat /\ T # {}
  OBVIOUS
<1> HIDE DEF T
<1>2. \E m \in T : \A i \in T : m <= i
  BY <1>1, LeastNumber
<1>3. PICK m \in 0 .. n \ P : \A i \in 0 .. n \ P : m <= i
  BY <1>2 DEF T
<1>4. m # 0 /\ m - 1 \in 0 .. n - 1 /\ ~(m <= m - 1)
  BY <1>3
<1>5. m - 1 \in P
  BY <1>3, <1>4
<1> QED BY <1>3, <1>4, <1>5

\* The least and the greatest of a set of numbers.
LEMMA MinIsLeast ==
    ASSUME NEW T \in SUBSET Nat, T # {}
    PROVE  Min(T) \in T /\ \A n \in T : Min(T) <= n
BY LeastNumber DEF Min

LEMMA MaxIsGreatest ==
    ASSUME NEW b \in Nat, NEW T \in SUBSET (0 .. b), T # {}
    PROVE  Max(T) \in T /\ \A n \in T : Max(T) >= n
<1> DEFINE U == {i \in 0 .. b : b - i \in T}
<1>1. PICK t \in T : TRUE
  OBVIOUS
<1>2. t \in 0 .. b /\ b - t \in 0 .. b /\ b - (b - t) = t
  OBVIOUS
<1>3. b - t \in U
  BY <1>2
<1>4. U \in SUBSET Nat /\ U # {}
  BY <1>3
<1> HIDE DEF U
<1>5. PICK m \in U : \A i \in U : m <= i
  BY <1>4, LeastNumber
<1> USE DEF U
<1>6. ASSUME NEW n \in T PROVE b - m >= n
  <2>1. n \in 0 .. b /\ b - n \in 0 .. b /\ b - (b - n) = n
    OBVIOUS
  <2>2. m <= b - n
    BY <1>5, <2>1
  <2> QED BY <2>1, <2>2
<1>7. b - m \in T
  BY <1>5
<1> QED BY <1>6, <1>7 DEF Max

\* One sequence after another.
LEMMA Joined ==
    ASSUME NEW S, NEW a \in Seq(S), NEW b \in Seq(S)
    PROVE  /\ a \o b \in Seq(S) /\ Len(a \o b) = Len(a) + Len(b)
           /\ \A j \in 1 .. Len(a) + Len(b) :
                 (a \o b)[j] = IF j <= Len(a) THEN a[j] ELSE b[j - Len(a)]
OBVIOUS

\* SequencesExt, InsertAt and RemoveAt.
InsertedTo(r, s, i, e) ==
    /\ Len(r) = Len(s) + 1
    /\ \A j \in 1 .. Len(s) + 1 :
          r[j] = IF j < i THEN s[j] ELSE IF j = i THEN e ELSE s[j - 1]

RemovedFrom(r, s, i) ==
    /\ Len(r) = Len(s) - 1
    /\ \A j \in 1 .. Len(s) - 1 : r[j] = IF j < i THEN s[j] ELSE s[j + 1]

LEMMA Inserted ==
    ASSUME NEW S, NEW s \in Seq(S), NEW e \in S, NEW i \in 1 .. Len(s) + 1
    PROVE  InsertAt(s, i, e) \in Seq(S) /\ InsertedTo(InsertAt(s, i, e), s, i, e)
<1> DEFINE a == SubSeq(s, 1, i - 1)
           z == SubSeq(s, i, Len(s))
<1>1. /\ a \in Seq(S) /\ Len(a) = i - 1 /\ \A j \in 1 .. i - 1 : a[j] = s[j]
  OBVIOUS
<1>2. /\ z \in Seq(S) /\ Len(z) = Len(s) + 1 - i
      /\ \A j \in 1 .. Len(s) + 1 - i : z[j] = s[i + j - 1]
  OBVIOUS
<1>3. <<e>> \in Seq(S) /\ Len(<<e>>) = 1 /\ <<e>>[1] = e
  OBVIOUS
<1>4. InsertAt(s, i, e) = a \o <<e>> \o z
  BY DEF InsertAt
<1> HIDE DEF a, z
<1> DEFINE b == a \o <<e>>
<1>5. b \in Seq(S) /\ Len(b) = i
  BY <1>1, <1>3
<1>6. \A j \in 1 .. i : b[j] = IF j < i THEN s[j] ELSE e
  BY <1>1, <1>3
<1> HIDE DEF b
<1>7. b \o z \in Seq(S) /\ Len(b \o z) = Len(b) + Len(z)
  BY <1>2, <1>5, Joined
<1>8. b \o z \in Seq(S) /\ Len(b \o z) = Len(s) + 1
  <2>1. Len(s) \in Nat
    OBVIOUS
  <2> QED BY <1>2, <1>5, <1>7, <2>1
<1>9. ASSUME NEW j \in 1 .. Len(s) + 1
      PROVE  (b \o z)[j] = IF j < i THEN s[j] ELSE IF j = i THEN e ELSE s[j - 1]
  <2>1. CASE j <= i
    BY <1>2, <1>5, <1>6, <2>1
  <2>2. CASE j > i
    <3>1. (b \o z)[j] = z[j - i]
      BY <1>2, <1>5, <2>2, SMTT(30)
    <3>2. j - i \in 1 .. Len(s) + 1 - i /\ i + (j - i) - 1 = j - 1
      BY <2>2
    <3>3. z[j - i] = s[i + (j - i) - 1]
      BY <1>2, <3>2
    <3> QED BY <2>2, <3>1, <3>2, <3>3
  <2>3. i \in Int /\ j \in Int
    OBVIOUS
  <2>4. j <= i \/ j > i
    BY <2>3
  <2> QED BY <2>1, <2>2, <2>4, Zenon
<1> QED BY <1>4, <1>8, <1>9 DEF b, InsertedTo

LEMMA Removed ==
    ASSUME NEW S, NEW s \in Seq(S), NEW i \in 1 .. Len(s)
    PROVE  RemoveAt(s, i) \in Seq(S) /\ RemovedFrom(RemoveAt(s, i), s, i)
<1> DEFINE a == SubSeq(s, 1, i - 1)
           z == SubSeq(s, i + 1, Len(s))
<1>1. /\ a \in Seq(S) /\ Len(a) = i - 1 /\ \A j \in 1 .. i - 1 : a[j] = s[j]
  OBVIOUS
<1>2. /\ z \in Seq(S) /\ Len(z) = Len(s) - i
      /\ \A j \in 1 .. Len(s) - i : z[j] = s[i + j]
  OBVIOUS
<1>3. RemoveAt(s, i) = a \o z
  BY DEF RemoveAt
<1> HIDE DEF a, z
<1>4. a \o z \in Seq(S) /\ Len(a \o z) = Len(a) + Len(z)
  BY <1>1, <1>2, Joined
<1>5. a \o z \in Seq(S) /\ Len(a \o z) = Len(s) - 1
  <2>1. Len(s) \in Nat
    OBVIOUS
  <2> QED BY <1>1, <1>2, <1>4, <2>1
<1>6. ASSUME NEW j \in 1 .. Len(s) - 1
      PROVE  (a \o z)[j] = IF j < i THEN s[j] ELSE s[j + 1]
  <2>1. CASE j < i
    BY <1>1, <1>2, <2>1
  <2>2. CASE j >= i
    <3>1. (a \o z)[j] = z[j - (i - 1)]
      BY <1>1, <1>2, <2>2, SMTT(30)
    <3>2. j - (i - 1) \in 1 .. Len(s) - i /\ i + (j - (i - 1)) = j + 1
      BY <2>2
    <3>3. z[j - (i - 1)] = s[i + (j - (i - 1))]
      BY <1>2, <3>2
    <3> QED BY <2>2, <3>1, <3>2, <3>3
  <2>3. i \in Int /\ j \in Int
    OBVIOUS
  <2>4. j < i \/ j >= i
    BY <2>3
  <2> QED BY <2>1, <2>2, <2>4, Zenon
<1> QED BY <1>3, <1>5, <1>6 DEF RemovedFrom

-----------------------------------------------------------------------------
(* Where blocks begin.                                                     *)

LEMMA Constants ==
    /\ Base \in Nat /\ RegionSize \in Nat /\ DescSize \in Nat /\ Table0 \in Nat
    /\ Grow \in Nat /\ Word \in Nat /\ MaxHeld \in Nat
    /\ DescSize > 0 /\ Grow > 0 /\ Table0 > 1 /\ Table0 * DescSize < RegionSize
    /\ Base + RegionSize < Word /\ Sizes \subseteq Nat \ {0}
BY RealStorageAssumption

LEMMA ElementOf ==
    ASSUME NEW S, NEW s \in Seq(S), NEW k \in 1 .. Len(s)
    PROVE  s[k] \in S /\ Len(s) \in Nat
OBVIOUS

\* A block begins no earlier than the blocks before it.
LEMMA Rising ==
    ASSUME NEW h \in Seq(Piece), NEW f, Laid(h, f),
           NEW i \in 1 .. Len(h) + 1, NEW j \in i .. Len(h) + 1
    PROVE  f[i] <= f[j]
<1> DEFINE n == Len(h) + 1 - i
           P == {m \in 0 .. n : f[i] <= f[i + m]}
<1>1. n \in Nat /\ Len(h) \in Nat
  OBVIOUS
<1>2. \A k \in 1 .. Len(h) + 1 : f[k] \in Nat
  BY DEF Laid
<1>3. 0 \in P
  BY <1>1, <1>2
<1>4. ASSUME NEW m \in 0 .. n - 1, m \in P PROVE m + 1 \in P
  <2>1. i + m \in 1 .. Len(h) /\ i + (m + 1) = (i + m) + 1 /\ i + m + 1 \in 1 .. Len(h) + 1
    BY <1>1
  <2>2. h[i + m] \in Piece
    BY <2>1, ElementOf
  <2>3. h[i + m].size \in Nat
    BY <2>2 DEF Piece
  <2>4. f[(i + m) + 1] = f[i + m] + h[i + m].size
    BY <2>1 DEF Laid
  <2>5. f[i] \in Nat /\ f[i + m] \in Nat /\ f[i] <= f[i + m]
    BY <1>2, <1>4, <2>1
  <2>6. f[i] <= f[i + (m + 1)]
    BY <2>1, <2>4, <2>5, <2>3, SMTT(30)
  <2> QED BY <1>1, <2>6
<1> HIDE DEF P, n
<1>5. P \in SUBSET (0 .. n)
  BY DEF P
<1>6. P = 0 .. n
  BY <1>1, <1>3, <1>4, <1>5, FirstFailure
<1>7. j - i \in 0 .. n /\ i + (j - i) = j
  BY DEF n
<1>8. f[i] <= f[i + (j - i)]
  BY <1>6, <1>7 DEF P
<1> QED BY <1>7, <1>8

\* No block reaches beyond the region, and no address wraps.
LEMMA InRegion ==
    ASSUME NEW h \in Seq(Piece), NEW f, Laid(h, f)
    PROVE  /\ \A k \in 1 .. Len(h) + 1 :
                 f[k] \in Nat /\ Base <= f[k] /\ f[k] <= Base + RegionSize
                 /\ f[k] < Word /\ f[k] % Word = f[k]
           /\ \A k \in 1 .. Len(h) : h[k].size <= RegionSize /\ h[k].size < Word
<1>1. ASSUME NEW k \in 1 .. Len(h) + 1
      PROVE  f[k] \in Nat /\ Base <= f[k] /\ f[k] <= Base + RegionSize
             /\ f[k] < Word /\ f[k] % Word = f[k]
  <2>1. f[1] <= f[k] /\ f[k] <= f[Len(h) + 1]
    BY Rising
  <2>2. f[k] \in Nat /\ f[1] = Base /\ f[Len(h) + 1] = Base + RegionSize
    BY DEF Laid
  <2>3. f[k] < Word
    BY <2>1, <2>2, Constants
  <2>4. f[k] % Word = f[k]
    BY <2>2, <2>3, Constants
  <2> QED BY <2>1, <2>2, <2>3, <2>4, SMTT(30)
<1>2. ASSUME NEW k \in 1 .. Len(h) PROVE h[k].size <= RegionSize /\ h[k].size < Word
  <2>1. h[k] \in Piece
    BY ElementOf
  <2>2. h[k].size \in Nat
    BY <2>1 DEF Piece
  <2>3. f[k + 1] = f[k] + h[k].size
    BY DEF Laid
  <2>4. k \in 1 .. Len(h) + 1
    OBVIOUS
  <2>5. k + 1 \in 1 .. Len(h) + 1
    OBVIOUS
  <2>6. f[k] \in Nat /\ Base <= f[k] /\ f[k + 1] <= Base + RegionSize
    BY <1>1, <2>4, <2>5
  <2> QED BY <2>2, <2>3, <2>6, Constants, SMTT(30)
<1> QED BY <1>1, <1>2

\* The loops over the blocks find each where it begins.
LEMMA FoundWhereLaid ==
    ASSUME NEW h \in Seq(Piece), NEW f, Laid(h, f)
    PROVE  /\ \A k \in 1 .. Len(h) + 1 : Start(h, k) = f[k]
           /\ Starts(h) = f
<1> DEFINE Sums(s) == s = [i \in 0 .. Len(h) |->
                            IF i = 0 THEN Base ELSE (s[i - 1] + h[i].size) % Word]
           sum == CHOOSE s : Sums(s)
           g == [i \in 0 .. Len(h) |-> f[i + 1]]
<1>1. Len(h) \in Nat
  OBVIOUS
<1>2. Sums(g)
  <2>1. ASSUME NEW i \in 0 .. Len(h)
        PROVE  f[i + 1] = IF i = 0 THEN Base ELSE (g[i - 1] + h[i].size) % Word
    <3>1. CASE i = 0
      BY <3>1 DEF Laid
    <3>2. CASE i # 0
      <4>1. i \in 1 .. Len(h) /\ i - 1 \in 0 .. Len(h) /\ (i - 1) + 1 = i
            /\ i + 1 \in 1 .. Len(h) + 1
        BY <3>2, <1>1
      <4>2. g[i - 1] = f[i]
        BY <4>1
      <4>3. f[i + 1] = f[i] + h[i].size
        BY <4>1 DEF Laid
      <4>4. f[i + 1] % Word = f[i + 1]
        BY <4>1, InRegion, SMTT(30)
      <4> QED BY <3>2, <4>2, <4>3, <4>4
    <3> QED BY <3>1, <3>2
  <2> QED BY <2>1
<1>3. Sums(sum)
  BY <1>2
<1> HIDE DEF sum
<1>4. /\ sum[0] = Base
      /\ \A i \in 1 .. Len(h) : sum[i] = (sum[i - 1] + h[i].size) % Word
  BY <1>1, <1>3
<1> DEFINE P == {i \in 0 .. Len(h) : sum[i] = f[i + 1]}
<1>5. 0 \in P
  BY <1>1, <1>4 DEF Laid
<1>6. ASSUME NEW i \in 0 .. Len(h) - 1, i \in P PROVE i + 1 \in P
  <2>1. i + 1 \in 1 .. Len(h) /\ (i + 1) - 1 = i /\ (i + 1) + 1 \in 1 .. Len(h) + 1
    BY <1>1
  <2>2. sum[i + 1] = (f[i + 1] + h[i + 1].size) % Word
    BY <1>4, <1>6, <2>1
  <2>3. f[(i + 1) + 1] = f[i + 1] + h[i + 1].size
    BY <2>1 DEF Laid
  <2>4. f[(i + 1) + 1] % Word = f[(i + 1) + 1]
    BY <2>1, InRegion
  <2>5. i + 1 \in 0 .. Len(h)
    BY <2>1
  <2> QED BY <2>2, <2>3, <2>4, <2>5
<1> HIDE DEF P
<1>7. P \in SUBSET (0 .. Len(h))
  BY DEF P
<1>8. P = 0 .. Len(h)
  BY <1>1, <1>5, <1>6, <1>7, FirstFailure
<1>9. ASSUME NEW k \in 1 .. Len(h) + 1 PROVE Start(h, k) = f[k]
  <2>1. Start(h, k) = sum[k - 1]
    BY DEF Start, sum
  <2>2. k - 1 \in 0 .. Len(h) /\ (k - 1) + 1 = k
    BY <1>1
  <2> QED BY <1>8, <2>1, <2>2 DEF P
<1>10. Starts(h) = f
  BY <1>9 DEF Starts, Laid
<1> QED BY <1>9, <1>10

-----------------------------------------------------------------------------
(* The table.                                                              *)

LEMMA TableGrows ==
    ASSUME NEW s \in TableSizes
    PROVE  /\ s \in Nat /\ s > 0 /\ s \div DescSize \in Nat
           /\ s \div DescSize > 1 /\ s \div DescSize <= s
           /\ s + Grow * DescSize \in TableSizes
           /\ (s + Grow * DescSize) \div DescSize = s \div DescSize + Grow
<1>1. PICK n \in Nat : s = (Table0 + n * Grow) * DescSize
  BY DEF TableSizes
<1> DEFINE t == Table0 + n * Grow
<1>2. n * Grow \in Nat
  BY Constants
<1>3. t \in Nat /\ t > 1
  BY <1>2, Constants
<1>4. t + Grow = Table0 + (n + 1) * Grow
  BY Constants
<1> HIDE DEF t
<1>5. s = t * DescSize
  BY <1>1 DEF t
<1>6. s \in Nat /\ s >= t
  BY <1>3, <1>5, Constants
<1>7. s \div DescSize = t
  BY <1>3, <1>5, Constants
<1>8. s + Grow * DescSize = (t + Grow) * DescSize
  BY <1>3, <1>5, Constants
<1>9. ((t + Grow) * DescSize) \div DescSize = t + Grow
  BY <1>3, Constants
<1>10. s + Grow * DescSize \in TableSizes
  <2>1. n + 1 \in Nat
    OBVIOUS
  <2> QED BY <1>4, <1>8, <2>1 DEF TableSizes
<1>11. (s + Grow * DescSize) \div DescSize = s \div DescSize + Grow
  BY <1>7, <1>8, <1>9
<1> QED BY <1>3, <1>6, <1>7, <1>10, <1>11, Constants

\* A block ends before the blocks behind it begin.
LEMMA EndsBefore ==
    ASSUME NEW h \in Seq(Piece), NEW f, Laid(h, f),
           NEW i \in 1 .. Len(h), NEW j \in i + 1 .. Len(h) + 1
    PROVE  f[i] + h[i].size <= f[j]
<1>1. f[i + 1] = f[i] + h[i].size
  BY DEF Laid
<1>2. i + 1 \in 1 .. Len(h) + 1
  OBVIOUS
<1>3. f[i + 1] <= f[j]
  BY <1>2, Rising
<1> QED BY <1>1, <1>3

\* An address lies in one block.
LEMMA OneBlockThere ==
    ASSUME NEW h \in Seq(Piece), NEW f, Laid(h, f),
           NEW i \in 1 .. Len(h), NEW j \in 1 .. Len(h), NEW p \in Nat,
           f[i] <= p, p < f[i] + h[i].size, f[j] <= p, p < f[j] + h[j].size
    PROVE  i = j
<1>1. f[i] \in Nat /\ f[j] \in Nat
  <2>1. i \in 1 .. Len(h) + 1 /\ j \in 1 .. Len(h) + 1
    OBVIOUS
  <2> QED BY <2>1 DEF Laid
<1>2. h[i].size \in Nat /\ h[j].size \in Nat
  <2>1. h[i] \in Piece /\ h[j] \in Piece
    BY ElementOf
  <2> QED BY <2>1 DEF Piece
<1>3. ~(i < j)
  <2> SUFFICES ASSUME i < j PROVE FALSE
    OBVIOUS
  <2>1. j \in i + 1 .. Len(h) + 1
    OBVIOUS
  <2>2. f[i] + h[i].size <= f[j]
    BY <2>1, EndsBefore
  <2> QED BY <1>1, <1>2, <2>2, SMTT(30)
<1>4. ~(j < i)
  <2> SUFFICES ASSUME j < i PROVE FALSE
    OBVIOUS
  <2>1. i \in j + 1 .. Len(h) + 1
    OBVIOUS
  <2>2. f[j] + h[j].size <= f[i]
    BY <2>1, EndsBefore
  <2> QED BY <1>1, <1>2, <2>2, SMTT(30)
<1> QED BY <1>3, <1>4

LEMMA ChunkTypes ==
    ASSUME NEW c \in Chunk
    PROVE  c.size \in Nat /\ c.size > 0 /\ c.size \in Sizes /\ c.ptr \in Nat
<1>1. c.size \in Sizes /\ c.ptr \in 0 .. Word - 1
  BY DEF Chunk
<1>2. c.size \in Nat \ {0}
  BY <1>1, Constants
<1>3. c.ptr \in Nat
  BY <1>1, Constants
<1> QED BY <1>1, <1>2, <1>3

\* The chunks of clients do not overlap, and lie behind the table.
LEMMA ChunksApart ==
    ASSUME NEW h, NEW f, NEW H, Sound(h, f, H)
    PROVE  /\ \A c, d \in H : c # d => Promise!Disjoint(c, d)
           /\ \A c \in H : Promise!Within(c, Base + h[1].size)
           /\ \A c \in H : c \in Promise!Chunk
<1>1. h \in Seq(Piece) /\ Laid(h, f) /\ Len(h) >= 2 /\ Len(h) \in Nat
  BY DEF Sound, Table
<1>2. \A k \in 1 .. Len(h) : h[k].size \in Nat
  <2>1. \A k \in 1 .. Len(h) : h[k] \in Piece
    BY <1>1, ElementOf
  <2> QED BY <2>1 DEF Piece
<1>3. \A k \in 1 .. Len(h) + 1 : f[k] \in Nat /\ f[k] <= Base + RegionSize /\ Base <= f[k]
  BY <1>1, InRegion
<1>4. \A c \in H : c \in Chunk /\ c.size \in Nat /\ c.size \in Sizes /\ c.ptr \in Nat
  BY ChunkTypes DEF Sound, Given
<1>5. ASSUME NEW c \in H, NEW d \in H, c # d PROVE Promise!Disjoint(c, d)
  <2>1. PICK k \in 2 .. Len(h) : f[k] = c.ptr /\ h[k].size >= c.size
    BY DEF Sound, Given
  <2>2. PICK l \in 2 .. Len(h) : f[l] = d.ptr /\ h[l].size >= d.size
    BY DEF Sound, Given
  <2>3. k \in 1 .. Len(h) /\ l \in 1 .. Len(h)
    OBVIOUS
  <2>4. k # l
    BY <1>5, <2>1, <2>2 DEF Sound, Given
  <2>5. CASE k < l
    <3>1. l \in k + 1 .. Len(h) + 1
      BY <1>1, <2>3, <2>5
    <3>2. f[k] + h[k].size <= f[l]
      BY <1>1, <2>3, <3>1, EndsBefore
    <3>3. c.ptr + c.size <= d.ptr
      BY <1>2, <1>4, <2>1, <2>2, <2>3, <3>2, SMTT(30)
    <3> QED BY <3>3 DEF Promise!Disjoint
  <2>6. CASE l < k
    <3>1. k \in l + 1 .. Len(h) + 1
      BY <1>1, <2>3, <2>6
    <3>2. f[l] + h[l].size <= f[k]
      BY <1>1, <2>3, <3>1, EndsBefore
    <3>3. d.ptr + d.size <= c.ptr
      BY <1>2, <1>4, <2>1, <2>2, <2>3, <3>2, SMTT(30)
    <3> QED BY <3>3 DEF Promise!Disjoint
  <2> QED BY <2>3, <2>4, <2>5, <2>6
<1>6. ASSUME NEW c \in H
      PROVE  Promise!Within(c, Base + h[1].size) /\ c \in Promise!Chunk
  <2>1. PICK k \in 2 .. Len(h) : f[k] = c.ptr /\ h[k].size >= c.size
    BY DEF Sound, Given
  <2>2. k \in 1 .. Len(h) /\ 1 \in 1 .. Len(h) /\ k \in 1 + 1 .. Len(h) + 1
        /\ k \in 1 .. Len(h) + 1 /\ k + 1 \in 1 .. Len(h) + 1
    BY <1>1
  <2>3. f[1] + h[1].size <= f[k]
    BY <1>1, <2>2, EndsBefore
  <2>4. f[1] = Base
    BY <1>1 DEF Laid
  <2>5. f[k + 1] = f[k] + h[k].size
    BY <1>1, <2>2 DEF Laid
  <2>6. c.ptr + c.size <= Base + RegionSize
    <3>1. f[k + 1] <= Base + RegionSize
      BY <1>3, <2>2
    <3>2. h[k].size \in Nat /\ f[k] \in Nat
      BY <1>2, <1>3, <2>2
    <3> QED BY <1>4, <2>1, <2>5, <3>1, <3>2, Constants
  <2>7. Promise!Within(c, Base + h[1].size)
    BY <2>1, <2>3, <2>4, <2>6 DEF Promise!Within
  <2>8. c.ptr \in Base .. Base + RegionSize
    <3>1. f[k] \in Nat /\ f[k] <= Base + RegionSize /\ Base <= f[k]
      BY <1>3, <2>2
    <3> QED BY <2>1, <3>1, Constants
  <2>9. c \in Promise!Chunk
    BY <1>4, <2>8 DEF Promise!Chunk, Chunk
  <2> QED BY <2>7, <2>9
<1> QED BY <1>5, <1>6

-----------------------------------------------------------------------------
(* alloc and block::create.                                                *)

ChunkAt(p, size) == [ptr |-> p, size |-> size]
Nobodys(p, H) == \A d \in H : d.ptr # p

\* No chunk begins in a free block.
LEMMA NobodysBlock ==
    ASSUME NEW h, NEW f, NEW H, Sound(h, f, H),
           NEW k \in 2 .. Len(h), h[k].flag = "FREE",
           NEW p \in Nat, f[k] <= p, p < f[k] + h[k].size
    PROVE  Nobodys(p, H)
<1> SUFFICES ASSUME NEW d \in H, d.ptr = p PROVE FALSE
  BY DEF Nobodys
<1>1. PICK l \in 2 .. Len(h) : h[l].flag = "USED" /\ f[l] = d.ptr /\ h[l].size >= d.size
  BY DEF Sound, Given
<1>2. d.size \in Nat /\ d.size > 0
  BY ChunkTypes DEF Sound, Given
<1>3. h \in Seq(Piece) /\ Laid(h, f)
  BY DEF Sound, Table
<1>4. k \in 1 .. Len(h) /\ l \in 1 .. Len(h)
  BY <1>3
<1>5. h[l].size \in Nat
  <2>1. h[l] \in Piece
    BY <1>3, <1>4, ElementOf
  <2> QED BY <2>1 DEF Piece
<1>6. f[l] <= p /\ p < f[l] + h[l].size
  BY <1>1, <1>2, <1>5, SMTT(30)
<1>7. k = l
  BY <1>3, <1>4, <1>6, OneBlockThere
<1> QED BY <1>1, <1>7

\* What the lemmas on cutting are about: h2 is h with its k-th block, a free one, cut into
\* left bytes that stay and a USED block behind them, described by the
\* descriptor id; the table has grown by g into the block behind it.
Split(h, h2, k, left, size, g, id) ==
    /\ h2 \in Seq(Piece) /\ Len(h2) = Len(h) + 1
    /\ \A j \in 1 .. Len(h) + 1 :
          /\ h2[j].id = IF j <= k THEN h[j].id ELSE IF j = k + 1 THEN id ELSE h[j - 1].id
          /\ h2[j].flag = IF j <= k THEN h[j].flag
                          ELSE IF j = k + 1 THEN "USED" ELSE h[j - 1].flag
    /\ h2[1].size = h[1].size + g
    /\ \A j \in 2 .. k - 1 : h2[j].size = h[j].size - (IF j = 2 THEN g ELSE 0)
    /\ h2[k].size = left - (IF k = 2 THEN g ELSE 0)
    /\ h2[k + 1].size = size
    /\ \A j \in k + 2 .. Len(h) + 1 : h2[j].size = h[j - 1].size

\* Where the blocks begin then.
SplitStarts(f, n, k, left, g) ==
    [j \in 1 .. n + 2 |-> IF j = 2 THEN f[2] + g
                          ELSE IF j <= k THEN f[j]
                          ELSE IF j = k + 1 THEN f[k] + left ELSE f[j - 1]]

LEMMA SplitLaid ==
    ASSUME NEW h \in Seq(Piece), NEW f, Laid(h, f), NEW n \in Nat, n = Len(h),
           NEW k \in 2 .. n, NEW left \in Nat, NEW size \in Nat,
           left + size = h[k].size, NEW g \in Nat, NEW id, NEW h2,
           Split(h, h2, k, left, size, g, id)
    PROVE  Laid(h2, SplitStarts(f, n, k, left, g))
<1> DEFINE f2 == SplitStarts(f, n, k, left, g)
<1> USE DEF SplitStarts
<1>1. /\ \A j \in 1 .. n + 1 : f[j] \in Nat
      /\ \A j \in 1 .. n : f[j + 1] = f[j] + h[j].size
      /\ f[1] = Base /\ f[n + 1] = Base + RegionSize
  BY DEF Laid
<1>2. Len(h2) = n + 1
  BY DEF Split
<1>3. \A j \in 1 .. n : h[j].size \in Nat
  <2>1. \A j \in 1 .. n : h[j] \in Piece
    BY ElementOf
  <2> QED BY <2>1 DEF Piece
<1>4. f2 \in [1 .. n + 2 -> Nat]
  <2>1. ASSUME NEW j \in 1 .. n + 2
        PROVE  (IF j = 2 THEN f[2] + g ELSE IF j <= k THEN f[j]
                ELSE IF j = k + 1 THEN f[k] + left ELSE f[j - 1]) \in Nat
    <3>1. f[2] + g \in Nat
      <4>1. 2 \in 1 .. n + 1
        OBVIOUS
      <4> QED BY <1>1, <4>1, SMTT(30)
    <3>2. f[k] + left \in Nat
      <4>1. k \in 1 .. n + 1
        OBVIOUS
      <4> QED BY <1>1, <4>1, SMTT(30)
    <3>3. j <= k => f[j] \in Nat
      <4>1. j <= k => j \in 1 .. n + 1
        OBVIOUS
      <4> QED BY <1>1, <4>1
    <3>4. ~(j <= k) => f[j - 1] \in Nat
      <4>1. ~(j <= k) => j - 1 \in 1 .. n + 1
        OBVIOUS
      <4> QED BY <1>1, <4>1
    <3> QED BY <3>1, <3>2, <3>3, <3>4
  <2> QED BY <2>1
<1>5. f2[1] = Base /\ f2[n + 2] = Base + RegionSize
  BY <1>1
<1>6. ASSUME NEW j \in 1 .. n + 1 PROVE f2[j + 1] = f2[j] + h2[j].size
  <2>1. CASE j = 1
    <3>1. f2[2] = f[2] + g /\ f2[1] = f[1] /\ h2[1].size = h[1].size + g
      BY SMTT(30) DEF Split
    <3>2. f[2] = f[1] + h[1].size /\ f[1] \in Nat /\ h[1].size \in Nat
      BY <1>1, <1>3, SMTT(30)
    <3> QED BY <2>1, <3>1, <3>2, SMTT(30)
  <2>2. CASE j \in 2 .. k - 1
    <3>1. f2[j + 1] = f[j + 1] /\ f2[j] = IF j = 2 THEN f[2] + g ELSE f[j]
      BY <2>2, SMTT(30)
    <3>2. h2[j].size = h[j].size - (IF j = 2 THEN g ELSE 0)
      BY <2>2 DEF Split
    <3>3. j \in 1 .. n /\ j \in 1 .. n + 1
      BY <2>2
    <3>4. f[j + 1] = f[j] + h[j].size /\ f[j] \in Nat /\ h[j].size \in Nat
      BY <1>1, <1>3, <3>3
    <3> QED BY <3>1, <3>2, <3>4, SMTT(30)
  <2>3. CASE j = k
    <3>1. f2[k + 1] = f[k] + left /\ f2[k] = IF k = 2 THEN f[2] + g ELSE f[k]
      BY SMTT(30)
    <3>2. h2[k].size = left - (IF k = 2 THEN g ELSE 0) /\ f[k] \in Nat
      BY <1>1 DEF Split
    <3> QED BY <2>3, <3>1, <3>2, SMTT(30)
  <2>4. CASE j = k + 1
    <3>1. f2[k + 2] = f[k + 1] /\ f2[k + 1] = f[k] + left /\ h2[k + 1].size = size
      BY DEF Split
    <3>2. f[k + 1] = f[k] + h[k].size /\ f[k] \in Nat
      BY <1>1
    <3> QED BY <2>4, <3>1, <3>2, SMTT(30)
  <2>5. CASE j \in k + 2 .. n + 1
    <3>1. /\ j \in 1 .. n + 2 /\ j # 2 /\ ~(j <= k) /\ j # k + 1
          /\ j + 1 \in 1 .. n + 2 /\ j + 1 # 2 /\ ~(j + 1 <= k) /\ j + 1 # k + 1
          /\ (j + 1) - 1 = j
      BY <2>5
    <3>2. f2[j + 1] = f[(j + 1) - 1]
      BY <3>1, Zenon
    <3>3. f2[j] = f[j - 1]
      BY <3>1, Zenon
    <3>4. h2[j].size = h[j - 1].size
      BY <2>5 DEF Split
    <3>5. j - 1 \in 1 .. n /\ (j - 1) + 1 = j
      BY <2>5
    <3>6. f[(j - 1) + 1] = f[j - 1] + h[j - 1].size
      BY <1>1, <3>5
    <3>7. f2[j + 1] = f[j]
      BY <3>1, <3>2
    <3> QED BY <3>3, <3>4, <3>5, <3>6, <3>7
  <2>6. j = 1 \/ j \in 2 .. k - 1 \/ j = k \/ j = k + 1 \/ j \in k + 2 .. n + 1
    OBVIOUS
  <2> QED BY <2>1, <2>2, <2>3, <2>4, <2>5, <2>6
<1> HIDE DEF f2
<1>7. f2 \in [1 .. Len(h2) + 1 -> Nat] /\ f2[Len(h2) + 1] = Base + RegionSize
  <2>1. Len(h2) + 1 = n + 2
    BY <1>2
  <2> QED BY <1>4, <1>5, <2>1
<1>8. \A j \in 1 .. Len(h2) : f2[j + 1] = f2[j] + h2[j].size
  BY <1>2, <1>6
<1>9. Laid(h2, f2)
  BY <1>5, <1>7, <1>8 DEF Laid
<1> QED BY <1>9 DEF f2

LEMMA SplitTable ==
    ASSUME NEW h, Table(h), NEW n \in Nat, n = Len(h),
           NEW k \in 2 .. n, NEW left, NEW size, NEW g \in Nat,
           NEW id \in Nat, NEW h2, Split(h, h2, k, left, size, g, id),
           h[1].size + g \in TableSizes, Slots(h) <= Slots(h2), id < Slots(h2),
           \A i \in 1 .. n : h[i].id # id
    PROVE  Table(h2)
<1>1. h \in Seq(Piece) /\ h2 \in Seq(Piece) /\ Len(h2) = n + 1 /\ n >= 2
  BY DEF Table, Split
<1>2. \A j \in 1 .. n + 1 :
         h2[j].id = IF j <= k THEN h[j].id ELSE IF j = k + 1 THEN id ELSE h[j - 1].id
  BY DEF Split
<1>3. h2[1].flag = "USED" /\ h2[1].size \in TableSizes /\ h2[1].id = 0 /\ h2[2].id = 1
  <2>1. 1 \in 1 .. n + 1 /\ 2 \in 1 .. n + 1 /\ 1 <= k /\ 2 <= k
    OBVIOUS
  <2>2. h2[1].flag = h[1].flag
    BY <2>1 DEF Split
  <2>3. h2[1].size = h[1].size + g
    BY DEF Split
  <2> QED BY <1>2, <2>1, <2>2, <2>3 DEF Table
<1>4. \A i, j \in 1 .. n : h[i].id = h[j].id => i = j
  BY DEF Table
<1>5. ASSUME NEW i \in 1 .. n + 1, NEW j \in 1 .. n + 1, h2[i].id = h2[j].id, i < j
      PROVE  FALSE
  <2>1. CASE i <= k /\ j <= k
    <3>1. i \in 1 .. n /\ j \in 1 .. n
      BY <2>1
    <3> QED BY <1>2, <1>4, <1>5, <2>1, <3>1
  <2>2. CASE i <= k /\ j = k + 1
    <3>1. i \in 1 .. n
      BY <2>2
    <3>2. h2[i].id = h[i].id /\ h2[j].id = id
      BY <1>2, <2>2
    <3> QED BY <1>5, <3>1, <3>2
  <2>3. CASE i <= k /\ j > k + 1
    <3>1. i \in 1 .. n /\ j - 1 \in 1 .. n /\ i # j - 1
      BY <2>3
    <3>2. h2[i].id = h[i].id /\ h2[j].id = h[j - 1].id
      BY <1>2, <2>3
    <3> QED BY <1>4, <1>5, <3>1, <3>2
  <2>4. CASE i = k + 1 /\ j > k + 1
    <3>1. j - 1 \in 1 .. n
      BY <2>4
    <3>2. h2[i].id = id /\ h2[j].id = h[j - 1].id
      BY <1>2, <2>4
    <3> QED BY <1>5, <3>1, <3>2
  <2>5. CASE i > k + 1 /\ j > k + 1
    <3>1. i - 1 \in 1 .. n /\ j - 1 \in 1 .. n /\ i - 1 # j - 1
      BY <1>5, <2>5, SMTT(30)
    <3>2. h2[i].id = h[i - 1].id /\ h2[j].id = h[j - 1].id
      BY <1>2, <2>5
    <3> QED BY <1>4, <1>5, <3>1, <3>2
  <2> QED BY <1>5, <2>1, <2>2, <2>3, <2>4, <2>5
<1>6. \A i, j \in 1 .. n + 1 : h2[i].id = h2[j].id => i = j
  BY <1>5
<1>7. ASSUME NEW j \in 1 .. n + 1 PROVE h2[j].id < Slots(h2)
  <2>1. ASSUME NEW i \in 1 .. n PROVE h[i].id < Slots(h2)
    <3>1. h[i].id < Slots(h)
      BY DEF Table
    <3>2. h[i].id \in Nat
      <4>1. h[i] \in Piece
        BY <1>1, ElementOf
      <4> QED BY <4>1 DEF Piece
    <3>3. Slots(h) \in Nat
      BY TableGrows DEF Table, Slots
    <3>4. Slots(h2) \in Nat
      BY <1>3, TableGrows DEF Slots
    <3> QED BY <3>1, <3>2, <3>3, <3>4
  <2>2. CASE j <= k
    <3>1. j \in 1 .. n
      BY <2>2
    <3> QED BY <1>2, <2>1, <2>2, <3>1
  <2>3. CASE j = k + 1
    <3>1. h2[j].id = id
      BY <1>2, <2>3
    <3> QED BY <3>1
  <2>4. CASE j > k + 1
    <3>1. j - 1 \in 1 .. n
      BY <2>4
    <3>2. h2[j].id = h[j - 1].id
      BY <1>2, <2>4
    <3> QED BY <2>1, <3>1, <3>2
  <2> QED BY <2>2, <2>3, <2>4
<1> QED BY <1>1, <1>3, <1>6, <1>7 DEF Table

LEMMA SplitGiven ==
    ASSUME NEW h, NEW f, NEW H, Sound(h, f, H), NEW n \in Nat, n = Len(h),
           NEW k \in 2 .. n, h[k].flag = "FREE",
           NEW left \in Nat, NEW size \in Sizes, left + size = h[k].size,
           NEW g \in Nat, g # 0 => h[2].flag = "FREE",
           NEW id, NEW h2, Split(h, h2, k, left, size, g, id)
    PROVE  /\ ChunkAt(f[k] + left, size) \in Chunk /\ Nobodys(f[k] + left, H)
           /\ Given(h2, SplitStarts(f, n, k, left, g), H \cup {ChunkAt(f[k] + left, size)})
<1> DEFINE c == ChunkAt(f[k] + left, size)
           f2 == SplitStarts(f, n, k, left, g)
<1>1. h \in Seq(Piece) /\ h2 \in Seq(Piece) /\ Len(h2) = n + 1 /\ n >= 2 /\ Laid(h, f)
  BY DEF Table, Split, Sound
<1>2. size \in Nat /\ size > 0
  BY Constants
<1>3. f[k] \in Nat /\ f[k] + h[k].size <= Base + RegionSize
  <2>1. k \in 1 .. n + 1 /\ k \in 1 .. n /\ k + 1 \in 1 .. n + 1
    OBVIOUS
  <2>2. f[k] \in Nat /\ f[k + 1] <= Base + RegionSize
    BY <1>1, <2>1, InRegion
  <2>3. f[k + 1] = f[k] + h[k].size
    BY <1>1, <2>1 DEF Laid
  <2> QED BY <2>2, <2>3
<1>4. c \in Chunk
  <2>1. f[k] + left \in 0 .. Word - 1
    BY <1>2, <1>3, Constants, SMTT(30)
  <2> QED BY <2>1 DEF Chunk, ChunkAt
<1>5. Nobodys(f[k] + left, H)
  <2>1. f[k] <= f[k] + left /\ f[k] + left < f[k] + h[k].size /\ f[k] + left \in Nat
    BY <1>2, <1>3
  <2> QED BY <2>1, NobodysBlock
<1>6. c.ptr = f[k] + left /\ c.size = size
  BY DEF ChunkAt
<1> HIDE DEF c
<1>7. /\ f2[k + 1] = c.ptr
      /\ \A j \in 2 .. k - 1 : f2[j] = IF j = 2 THEN f[2] + g ELSE f[j]
      /\ \A j \in k + 2 .. n + 1 : f2[j] = f[j - 1]
  BY <1>6 DEF SplitStarts
<1> HIDE DEF f2
<1>8. h2[k + 1].flag = "USED" /\ h2[k + 1].size = size /\ k + 1 \in 2 .. n + 1
      /\ h2[k].flag = h[k].flag
  BY DEF Split
<1>9. ASSUME NEW d \in H
      PROVE  \E j \in 2 .. n + 1 : h2[j].flag = "USED" /\ f2[j] = d.ptr /\ h2[j].size >= d.size
  <2>1. PICK i \in 2 .. n : h[i].flag = "USED" /\ f[i] = d.ptr /\ h[i].size >= d.size
    BY DEF Sound, Given
  <2>2. i # k
    BY <2>1
  <2>3. CASE i < k
    <3>1. i \in 2 .. k - 1 /\ i \in 1 .. n + 1 /\ i \in 2 .. n + 1
      BY <2>3
    <3>2. i = 2 => g = 0
      BY <2>1
    <3>3. f2[i] = f[i]
      <4>1. 2 \in 1 .. n + 1
        OBVIOUS
      <4>2. f[2] \in Nat
        BY <1>1, <4>1, InRegion
      <4> QED BY <1>7, <3>1, <3>2, <4>2
    <3>4. h2[i].size = h[i].size
      <4>1. h[i] \in Piece
        BY <1>1, ElementOf
      <4>2. h[i].size \in Nat
        BY <4>1 DEF Piece
      <4> QED BY <3>1, <3>2, <4>2 DEF Split
    <3>5. h2[i].flag = h[i].flag
      BY <2>3, <3>1 DEF Split
    <3> QED BY <2>1, <3>1, <3>3, <3>4, <3>5
  <2>4. CASE i > k
    <3>1. i + 1 \in k + 2 .. n + 1 /\ i + 1 \in 2 .. n + 1 /\ (i + 1) - 1 = i
          /\ i + 1 \in 1 .. n + 1 /\ ~(i + 1 <= k) /\ i + 1 # k + 1
      BY <2>4
    <3>2. f2[i + 1] = f[i]
      BY <1>7, <3>1
    <3>3. h2[i + 1].size = h[i].size
      BY <3>1 DEF Split
    <3>4. h2[i + 1].flag = h[i].flag
      BY <3>1 DEF Split
    <3> QED BY <2>1, <3>1, <3>2, <3>3, <3>4
  <2> QED BY <2>2, <2>3, <2>4
<1>10. ASSUME NEW j \in 2 .. n + 1, h2[j].flag = "USED"
       PROVE  \E d \in H \cup {c} : f2[j] = d.ptr /\ h2[j].size >= d.size
  <2>1. CASE j = k + 1
    BY <1>2, <1>6, <1>7, <1>8, <2>1
  <2>2. CASE j < k
    <3>1. j \in 2 .. k - 1 /\ j \in 1 .. n + 1 /\ j \in 2 .. n
      BY <2>2
    <3>2. h2[j].flag = h[j].flag
      BY <2>2, <3>1 DEF Split
    <3>3. j = 2 => g = 0
      BY <1>10, <3>2
    <3>4. f2[j] = f[j]
      <4>1. 2 \in 1 .. n + 1
        OBVIOUS
      <4>2. f[2] \in Nat
        BY <1>1, <4>1, InRegion
      <4> QED BY <1>7, <3>1, <3>3, <4>2
    <3>5. h2[j].size = h[j].size
      <4>1. h[j] \in Piece
        BY <1>1, <3>1, ElementOf
      <4>2. h[j].size \in Nat
        BY <4>1 DEF Piece
      <4> QED BY <3>1, <3>3, <4>2 DEF Split
    <3>6. PICK d \in H : f[j] = d.ptr /\ h[j].size >= d.size
      BY <1>10, <3>1, <3>2 DEF Sound, Given
    <3> QED BY <3>4, <3>5, <3>6
  <2>3. CASE j > k + 1
    <3>1. j \in k + 2 .. n + 1 /\ j \in 1 .. n + 1 /\ j - 1 \in 2 .. n
      BY <2>3
    <3>2. h2[j].flag = h[j - 1].flag /\ h2[j].size = h[j - 1].size
      BY <2>3, <3>1 DEF Split
    <3>3. f2[j] = f[j - 1]
      BY <1>7, <3>1
    <3>4. PICK d \in H : f[j - 1] = d.ptr /\ h[j - 1].size >= d.size
      BY <1>10, <3>1, <3>2 DEF Sound, Given
    <3> QED BY <3>2, <3>3, <3>4
  <2>4. j # k
    BY <1>8, <1>10
  <2> QED BY <2>1, <2>2, <2>3, <2>4
<1>11. Given(h2, f2, H \cup {c})
  <2>1. H \cup {c} \subseteq Chunk
    BY <1>4 DEF Sound, Given
  <2>2. \A d, e \in H \cup {c} : d.ptr = e.ptr => d = e
    BY <1>5, <1>6 DEF Sound, Given, Nobodys
  <2>3. ASSUME NEW d \in H \cup {c}
        PROVE  \E j \in 2 .. n + 1 : h2[j].flag = "USED" /\ f2[j] = d.ptr /\ h2[j].size >= d.size
    <3>1. CASE d = c
      BY <1>2, <1>6, <1>7, <1>8, <3>1
    <3> QED BY <1>9, <3>1
  <2> QED BY <1>1, <1>10, <2>1, <2>2, <2>3 DEF Given
<1> QED BY <1>4, <1>5, <1>6, <1>11 DEF c, f2

\* A record of the table with another size.
SizedTo(r, h, k, size) ==
    /\ Len(r) = Len(h)
    /\ \A j \in 1 .. Len(h) : r[j].id = h[j].id /\ r[j].flag = h[j].flag
                               /\ r[j].size = IF j = k THEN size ELSE h[j].size

LEMMA Resized ==
    ASSUME NEW h \in Seq(Piece), NEW k \in 1 .. Len(h), NEW size \in Nat
    PROVE  /\ [h EXCEPT ![k].size = size] \in Seq(Piece)
           /\ SizedTo([h EXCEPT ![k].size = size], h, k, size)
<1> DEFINE h2 == [h EXCEPT ![k].size = size]
<1>1. \A j \in 1 .. Len(h) : h[j] \in Piece
  BY ElementOf
<1> DEFINE r == [h[k] EXCEPT !.size = size]
<1>2. r \in Piece /\ r.id = h[k].id /\ r.flag = h[k].flag /\ r.size = size
  BY <1>1 DEF Piece
<1>3. h2 = [h EXCEPT ![k] = r]
  OBVIOUS
<1> HIDE DEF r, h2
<1>4. h2 \in Seq(Piece) /\ Len(h2) = Len(h)
  BY <1>2, <1>3
<1>5. \A j \in 1 .. Len(h) : h2[j] = IF j = k THEN r ELSE h[j]
  BY <1>3
<1>6. SizedTo(h2, h, k, size)
  BY <1>2, <1>4, <1>5 DEF SizedTo
<1> QED BY <1>4, <1>6 DEF h2

Grows(b, h, k, left, g) ==
    /\ Len(b) = Len(h)
    /\ \A j \in 1 .. Len(h) : b[j].id = h[j].id /\ b[j].flag = h[j].flag
    /\ b[1].size = h[1].size + g
    /\ \A j \in 2 .. Len(h) : b[j].size = (IF j = k THEN left ELSE h[j].size)
                                           - (IF j = 2 THEN g ELSE 0)

\* The block e is put into b, which is cut with the table grown by g.
LEMMA InsertSplits ==
    ASSUME NEW h \in Seq(Piece), NEW k \in 2 .. Len(h),
           NEW left \in Nat, NEW size \in Nat, NEW g \in Nat, NEW id \in Nat,
           NEW b \in Seq(Piece), Grows(b, h, k, left, g),
           NEW e \in Piece, e.id = id, e.size = size, e.flag = "USED",
           NEW h2 \in Seq(Piece), InsertedTo(h2, b, k + 1, e)
    PROVE  Split(h, h2, k, left, size, g, id)
<1>1. PICK n \in Nat : n = Len(h)
  OBVIOUS
<1>2. /\ Len(b) = n
      /\ \A j \in 1 .. n : b[j].id = h[j].id /\ b[j].flag = h[j].flag
      /\ b[1].size = h[1].size + g
      /\ \A j \in 2 .. n : b[j].size = (IF j = k THEN left ELSE h[j].size)
                                       - (IF j = 2 THEN g ELSE 0)
  BY <1>1 DEF Grows
<1>3. k + 1 \in 1 .. n + 1
  BY <1>1
<1>4. /\ Len(h2) = n + 1
      /\ \A j \in 1 .. n + 1 :
            h2[j] = IF j < k + 1 THEN b[j] ELSE IF j = k + 1 THEN e ELSE b[j - 1]
  BY <1>1, <1>2 DEF InsertedTo
<1>5. ASSUME NEW j \in 1 .. n + 1
      PROVE  /\ h2[j].id = IF j <= k THEN h[j].id
                           ELSE IF j = k + 1 THEN id ELSE h[j - 1].id
             /\ h2[j].flag = IF j <= k THEN h[j].flag
                             ELSE IF j = k + 1 THEN "USED" ELSE h[j - 1].flag
  <2>1. CASE j <= k
    <3>1. h2[j] = b[j] /\ j \in 1 .. n
      BY <1>1, <1>4, <2>1
    <3> QED BY <1>1, <1>2, <2>1, <3>1
  <2>2. CASE j = k + 1
    <3>1. h2[k + 1] = e
      BY <1>3, <1>4
    <3> QED BY <1>1, <1>2, <2>2, <3>1
  <2>3. CASE j > k + 1
    <3>1. j - 1 \in 1 .. n /\ ~(j < k + 1) /\ j # k + 1 /\ ~(j <= k)
      BY <1>3, <2>3
    <3>2. h2[j] = b[j - 1]
      BY <1>4, <3>1
    <3> QED BY <1>2, <3>1, <3>2
  <2> QED BY <2>1, <2>2, <2>3
<1>6. h2[1].size = h[1].size + g
  <2>1. h2[1] = b[1]
    BY <1>1, <1>4
  <2> QED BY <1>1, <1>2, <2>1, SMTT(30)
<1>7. \A j \in 2 .. k - 1 : h2[j].size = h[j].size - (IF j = 2 THEN g ELSE 0)
  <2> TAKE j \in 2 .. k - 1
  <2>1. j \in 2 .. n /\ j \in 1 .. n + 1 /\ j < k + 1 /\ j # k
    BY <1>1, <1>2
  <2>2. h2[j] = b[j]
    BY <1>1, <1>4, <2>1
  <2> QED BY <1>1, <1>2, <2>1, <2>2
<1>8. h2[k].size = left - (IF k = 2 THEN g ELSE 0)
  <2>1. h2[k] = b[k]
    BY <1>1, <1>4, SMTT(30)
  <2> QED BY <1>1, <1>2, <2>1
<1>9. h2[k + 1].size = size
  <2>1. h2[k + 1] = e
    BY <1>3, <1>4
  <2> QED BY <1>1, <1>2, <2>1
<1>10. \A j \in k + 2 .. n + 1 : h2[j].size = h[j - 1].size
  <2> TAKE j \in k + 2 .. n + 1
  <2>1. j - 1 \in 2 .. n /\ j \in 1 .. n + 1 /\ ~(j < k + 1) /\ j # k + 1
        /\ j - 1 # k /\ j - 1 # 2
    BY <1>1, <1>2
  <2>2. h2[j] = b[j - 1]
    BY <1>1, <1>4, <2>1
  <2>3. h[j - 1].size \in Nat
    <3>1. h[j - 1] \in Piece
      BY <1>1, <2>1, ElementOf, SMTT(30)
    <3> QED BY <3>1 DEF Piece
  <2>4. b[j - 1].size = h[j - 1].size - 0
    BY <1>1, <1>2, <2>1
  <2> QED BY <2>2, <2>3, <2>4
<1> QED BY <1>1, <1>4, <1>5, <1>6, <1>7, <1>8, <1>9, <1>10 DEF Split

\* The growth and the descriptor are ones the table allows.
Creation(h, h2, k, left, size, g, id) ==
    /\ Split(h, h2, k, left, size, g, id)
    /\ g # 0 => h[2].flag = "FREE"
    /\ h[1].size + g \in TableSizes /\ Slots(h) <= Slots(h2) /\ id < Slots(h2)
    /\ \A i \in 1 .. Len(h) : h[i].id # id

LEMMA CreateSplits ==
    ASSUME NEW h, Table(h), lost = {},
           NEW k \in 2 .. Len(h), NEW left \in Nat, NEW size \in Nat,
           NEW cut \in Seq(Piece), SizedTo(cut, h, k, left), CanCreate(cut),
           NEW h2, h2 = CreateAfter(cut, k, size, "USED")
    PROVE  \E g \in Nat, id \in Nat : Creation(h, h2, k, left, size, g, id)
<1>1. PICK n \in Nat : n = Len(h)
  BY DEF Table
<1>2. /\ Len(cut) = n
      /\ \A j \in 1 .. n : cut[j].id = h[j].id /\ cut[j].flag = h[j].flag
                           /\ cut[j].size = IF j = k THEN left ELSE h[j].size
  BY <1>1 DEF SizedTo
<1>3. h \in Seq(Piece) /\ n >= 2 /\ h[1].size \in TableSizes
  BY <1>1 DEF Table
<1>4. cut[1].size = h[1].size /\ Slots(cut) = Slots(h)
  <2>1. 1 \in 1 .. n /\ 1 # k
    BY <1>1, <1>2, <1>3
  <2> QED BY <1>1, <1>2, <2>1 DEF Slots
<1>5. Slots(h) \in Nat /\ h[1].size \in Nat
  BY <1>1, <1>2, <1>3, TableGrows DEF Slots
<1>6. DOMAIN cut = 1 .. n
  BY <1>2
<1>7. CASE Unused(cut) # {}
  <2> DEFINE id == Min(Unused(cut))
  <2>1. Unused(cut) \in SUBSET Nat
    BY <1>1, <1>2, <1>4, <1>5 DEF Unused
  <2>2. id \in Unused(cut)
    BY <1>1, <1>2, <1>7, <2>1, MinIsLeast
  <2> HIDE DEF id
  <2>3. id \in Nat /\ id < Slots(h)
    BY <1>1, <1>2, <1>4, <1>5, <2>2 DEF Unused
  <2>4. \A i \in 1 .. n : h[i].id # id
    <3>1. \A i \in 1 .. n : cut[i].id # id
      BY <1>1, <1>2, <1>6, <2>2 DEF Unused
    <3> QED BY <1>1, <1>2, <3>1
  <2> DEFINE e == [id |-> id, size |-> size, flag |-> "USED"]
  <2>5. h2 = InsertAt(cut, k + 1, e)
    BY <1>1, <1>2, <1>7 DEF CreateAfter, id
  <2>6. e \in Piece /\ e.id = id /\ e.size = size /\ e.flag = "USED"
    BY <1>1, <1>2, <2>3 DEF Piece, Flags
  <2> HIDE DEF e
  <2>7. k + 1 \in 1 .. Len(cut) + 1
    BY <1>1, <1>2
  <2>8. h2 \in Seq(Piece) /\ InsertedTo(h2, cut, k + 1, e)
    BY <1>1, <1>2, <2>5, <2>6, <2>7, Inserted
  <2>9. cut[1].size = h[1].size + 0
    BY <1>1, <1>2, <1>4, <1>5
  <2>10. \A j \in 2 .. n : cut[j].size = (IF j = k THEN left ELSE h[j].size)
                                        - (IF j = 2 THEN 0 ELSE 0)
    <3> TAKE j \in 2 .. n
    <3>1. j \in 1 .. n
      BY <1>1, <1>2
    <3>2. cut[j].size = IF j = k THEN left ELSE h[j].size
      BY <1>1, <1>2, <3>1
    <3>3. cut[j].size \in Nat
      <4>1. cut[j] \in Piece
        BY <1>1, <1>2, <3>1, ElementOf
      <4> QED BY <4>1 DEF Piece
    <3> QED BY <1>1, <1>2, <3>2, <3>3
  <2>11. Grows(cut, h, k, left, 0)
    BY <1>1, <1>2, <2>9, <2>10 DEF Grows
  <2>12. k \in 2 .. Len(h) /\ 0 \in Nat
    BY <1>1, <1>2
  <2>13. Split(h, h2, k, left, size, 0, id)
    BY <2>12, <1>3, <2>3, <2>6, <2>8, <2>11, InsertSplits, Zenon
  <2>14. Split(h, h2, k, left, size, 0, id) /\ h2[1].size = h[1].size + 0
    BY <1>1, <1>2, <2>13 DEF Split
  <2>15. h[1].size + 0 \in TableSizes /\ Slots(h2) = Slots(h)
    BY <1>1, <1>2, <1>3, <1>5, <2>14 DEF Slots
  <2>16. Creation(h, h2, k, left, size, 0, id)
    BY <1>1, <1>5, <2>3, <2>4, <2>14, <2>15 DEF Creation
  <2> QED BY <2>3, <2>16
<1>8. CASE Unused(cut) = {}
  <2> DEFINE g == Grow * DescSize
             b == Grown(cut)
             id == Slots(cut)
  <2>1. g \in Nat
    BY Constants
  <2>2. Behind(cut) = 2
    <3>1. \A j \in DOMAIN cut : cut[j].id = 1 <=> j = 2
      <4>1. 2 \in 1 .. n /\ h[2].id = 1
        BY <1>1, <1>2, <1>3 DEF Table
      <4>2. \A i, j \in 1 .. n : h[i].id = h[j].id => i = j
        BY <1>1 DEF Table
      <4> QED BY <1>1, <1>2, <1>6, <4>1, <4>2
    <3>2. 2 \in DOMAIN cut
      BY <1>1, <1>2, <1>3, <1>6
    <3> QED BY <1>1, <1>2, <3>1, <3>2 DEF Behind
  <2>3. cut[2].flag = "FREE" /\ cut[2].size >= g
    BY <1>1, <1>2, <1>8, <2>2 DEF CanCreate, CanGrow
  <2>4. h[2].flag = "FREE"
    <3>1. 2 \in 1 .. n
      BY <1>1, <1>2, <1>3
    <3> QED BY <1>1, <1>2, <2>3, <3>1
  <2>5. b = [[cut EXCEPT ![1].size = cut[1].size + g] EXCEPT ![2].size = cut[2].size - g]
    <3>1. b = [cut EXCEPT ![1].size = @ + g, ![2].size = @ - g]
      BY <1>1, <1>2, <2>2 DEF Grown
    <3> QED BY <1>1, <1>2, <3>1
  <2> HIDE DEF g, b
  <2> DEFINE a == [cut EXCEPT ![1].size = cut[1].size + g]
  <2>6. 1 \in 1 .. n /\ 2 \in 1 .. n
    BY <1>1, <1>2, <1>3
  <2>7. cut[1].size + g \in Nat
    BY <1>1, <1>2, <1>4, <1>5, <2>1
  <2>8. /\ a \in Seq(Piece) /\ Len(a) = n
        /\ \A j \in 1 .. n : a[j].id = cut[j].id /\ a[j].flag = cut[j].flag
              /\ a[j].size = IF j = 1 THEN cut[1].size + g ELSE cut[j].size
    <3>1. a \in Seq(Piece) /\ SizedTo(a, cut, 1, cut[1].size + g)
      BY <1>1, <1>2, <2>6, <2>7, Resized
    <3> QED BY <1>1, <1>2, <3>1 DEF SizedTo
  <2>9. cut[2].size - g \in Nat
    <3>1. cut[2] \in Piece
      BY <1>1, <1>2, <2>6, ElementOf
    <3>2. cut[2].size \in Nat
      BY <3>1 DEF Piece
    <3> QED BY <1>1, <1>2, <2>1, <2>3, <3>2
  <2>10. /\ b \in Seq(Piece) /\ Len(b) = n
         /\ \A j \in 1 .. n : b[j].id = a[j].id /\ b[j].flag = a[j].flag
               /\ b[j].size = IF j = 2 THEN cut[2].size - g ELSE a[j].size
    <3>1. b = [a EXCEPT ![2].size = cut[2].size - g]
      BY <1>1, <1>2, <2>5
    <3> HIDE DEF a
    <3>2. b \in Seq(Piece) /\ SizedTo(b, a, 2, cut[2].size - g)
      BY <1>1, <1>2, <2>6, <2>8, <2>9, <3>1, Resized
    <3> QED BY <1>1, <1>2, <2>8, <3>2 DEF SizedTo
  <2> HIDE DEF a
  <2>11. \A j \in 1 .. n : b[j].id = h[j].id /\ b[j].flag = h[j].flag
    BY <1>1, <1>2, <2>8, <2>10
  <2>12. b[1].size = h[1].size + g
    BY <1>1, <1>2, <1>4, <2>6, <2>8, <2>10
  <2>13. \A j \in 2 .. n : b[j].size = (IF j = k THEN left ELSE h[j].size)
                                        - (IF j = 2 THEN g ELSE 0)
    <3> TAKE j \in 2 .. n
    <3>1. j \in 1 .. n /\ j # 1
      BY <1>1, <1>2
    <3>2. cut[j].size = IF j = k THEN left ELSE h[j].size
      BY <1>1, <1>2, <3>1
    <3>3. cut[j].size \in Nat
      <4>1. cut[j] \in Piece
        BY <1>1, <1>2, <3>1, ElementOf
      <4> QED BY <4>1 DEF Piece
    <3>4. b[j].size = IF j = 2 THEN cut[2].size - g ELSE cut[j].size
      BY <1>1, <1>2, <2>8, <2>10, <3>1
    <3> QED BY <1>1, <1>2, <3>2, <3>3, <3>4
  <2> DEFINE e == [id |-> id, size |-> size, flag |-> "USED"]
  <2>14. h2 = InsertAt(b, k + 1, e)
    BY <1>1, <1>2, <1>8 DEF CreateAfter, b
  <2>15. id \in Nat /\ id = Slots(h)
    BY <1>1, <1>2, <1>4, <1>5
  <2>16. e \in Piece /\ e.id = id /\ e.size = size /\ e.flag = "USED"
    BY <1>1, <1>2, <2>15 DEF Piece, Flags
  <2> HIDE DEF e
  <2>17. k + 1 \in 1 .. Len(b) + 1
    BY <1>1, <1>2, <2>10
  <2>18. h2 \in Seq(Piece) /\ InsertedTo(h2, b, k + 1, e)
    BY <1>1, <1>2, <2>10, <2>14, <2>16, <2>17, Inserted
  <2>19. Grows(b, h, k, left, g)
    BY <1>1, <1>2, <2>10, <2>11, <2>12, <2>13 DEF Grows
  <2>20. k \in 2 .. Len(h)
    BY <1>1, <1>2
  <2>21. Split(h, h2, k, left, size, g, id)
    BY <2>20, <1>3, <2>1, <2>10, <2>15, <2>16, <2>18, <2>19, InsertSplits, Zenon
  <2>22. Split(h, h2, k, left, size, g, id) /\ h2[1].size = h[1].size + g
    BY <1>1, <1>2, <2>21 DEF Split
  <2>23. h[1].size + g \in TableSizes /\ Slots(h2) = Slots(h) + Grow
    BY <1>1, <1>2, <1>3, <2>22, TableGrows DEF Slots, g
  <2>24. \A i \in 1 .. n : h[i].id # id
    <3> TAKE i \in 1 .. n
    <3>1. h[i].id < Slots(h)
      BY <1>1 DEF Table
    <3> QED BY <1>1, <1>2, <1>5, <2>15, <3>1
  <2>25. Slots(h) <= Slots(h2) /\ id < Slots(h2)
    BY <1>1, <1>2, <1>5, <2>15, <2>23, Constants
  <2> HIDE DEF id
  <2>26. Creation(h, h2, k, left, size, g, id)
    BY <1>1, <2>4, <2>22, <2>23, <2>24, <2>25 DEF Creation
  <2> QED BY <2>1, <2>15, <2>26
<1> QED BY <1>7, <1>8

\* A block with another flag.
FlaggedTo(r, h, k, flag) ==
    /\ Len(r) = Len(h)
    /\ \A j \in 1 .. Len(h) : r[j].id = h[j].id /\ r[j].size = h[j].size
                               /\ r[j].flag = IF j = k THEN flag ELSE h[j].flag

LEMMA Reflagged ==
    ASSUME NEW h \in Seq(Piece), NEW k \in 1 .. Len(h), NEW flag \in Flags
    PROVE  /\ [h EXCEPT ![k].flag = flag] \in Seq(Piece)
           /\ FlaggedTo([h EXCEPT ![k].flag = flag], h, k, flag)
<1> DEFINE h2 == [h EXCEPT ![k].flag = flag]
<1>1. \A j \in 1 .. Len(h) : h[j] \in Piece
  BY ElementOf
<1> DEFINE r == [h[k] EXCEPT !.flag = flag]
<1>2. r \in Piece /\ r.id = h[k].id /\ r.flag = flag /\ r.size = h[k].size
  BY <1>1 DEF Piece
<1>3. h2 = [h EXCEPT ![k] = r]
  OBVIOUS
<1> HIDE DEF r, h2
<1>4. h2 \in Seq(Piece) /\ Len(h2) = Len(h)
  BY <1>2, <1>3
<1>5. \A j \in 1 .. Len(h) : h2[j] = IF j = k THEN r ELSE h[j]
  BY <1>3
<1>6. FlaggedTo(h2, h, k, flag)
  BY <1>2, <1>4, <1>5 DEF FlaggedTo
<1> QED BY <1>4, <1>6 DEF h2

\* Flags, the table's own apart, say nothing about where blocks begin.
LEMMA FlagsAside ==
    ASSUME NEW h, NEW f, Laid(h, f), Table(h), NEW k \in 2 .. Len(h),
           NEW flag, NEW h2 \in Seq(Piece), FlaggedTo(h2, h, k, flag)
    PROVE  Laid(h2, f) /\ Table(h2)
<1>1. PICK n \in Nat : n = Len(h) /\ n >= 2
  BY DEF Table
<1>2. /\ Len(h2) = n
      /\ \A j \in 1 .. n : h2[j].id = h[j].id /\ h2[j].size = h[j].size
                           /\ h2[j].flag = IF j = k THEN flag ELSE h[j].flag
  BY <1>1 DEF FlaggedTo
<1>3. Laid(h2, f)
  BY <1>1, <1>2 DEF Laid
<1>4. 1 \in 1 .. n /\ 2 \in 1 .. n /\ 1 # k
  BY <1>1
<1>5. h2[1].size = h[1].size /\ h2[1].flag = h[1].flag /\ h2[1].id = h[1].id
      /\ h2[2].id = h[2].id
  BY <1>2, <1>4
<1>6. Slots(h2) = Slots(h)
  BY <1>5 DEF Slots
<1>7. \A i, j \in 1 .. n : h2[i].id = h2[j].id => i = j
  BY <1>1, <1>2 DEF Table
<1>8. \A j \in 1 .. n : h2[j].id < Slots(h2)
  BY <1>1, <1>2, <1>6 DEF Table
<1>9. Table(h2)
  BY <1>1, <1>2, <1>5, <1>7, <1>8 DEF Table
<1> QED BY <1>3, <1>9

\* A free block of just the size is taken as it is.
LEMMA TakeWhole ==
    ASSUME NEW h, NEW f, NEW H, Sound(h, f, H), NEW k \in 2 .. Len(h),
           h[k].flag = "FREE", NEW size \in Sizes, h[k].size = size,
           NEW h2 \in Seq(Piece), FlaggedTo(h2, h, k, "USED")
    PROVE  /\ ChunkAt(f[k], size) \in Chunk /\ Nobodys(f[k], H)
           /\ Sound(h2, f, H \cup {ChunkAt(f[k], size)})
<1> DEFINE c == ChunkAt(f[k], size)
<1>1. PICK n \in Nat : n = Len(h) /\ n >= 2 /\ h \in Seq(Piece) /\ Laid(h, f)
  BY DEF Sound, Table
<1>2. /\ Len(h2) = n
      /\ \A j \in 1 .. n : h2[j].id = h[j].id /\ h2[j].size = h[j].size
                           /\ h2[j].flag = IF j = k THEN "USED" ELSE h[j].flag
  BY <1>1 DEF FlaggedTo
<1>3. size \in Nat /\ size > 0
  BY Constants
<1>4. f[k] \in Nat /\ f[k] < Word
  <2>1. k \in 1 .. Len(h) + 1
    BY <1>1
  <2> QED BY <1>1, <2>1, InRegion
<1>5. c \in Chunk
  BY <1>4, Constants DEF Chunk, ChunkAt
<1>6. Nobodys(f[k], H)
  BY <1>3, <1>4, NobodysBlock
<1>7. c.ptr = f[k] /\ c.size = size
  BY DEF ChunkAt
<1> HIDE DEF c
<1>8. Laid(h2, f) /\ Table(h2)
  BY FlagsAside DEF Sound
<1>9. Given(h2, f, H \cup {c})
  <2>1. H \cup {c} \subseteq Chunk
    BY <1>5 DEF Sound, Given
  <2>2. \A d, e \in H \cup {c} : d.ptr = e.ptr => d = e
    BY <1>6, <1>7 DEF Sound, Given, Nobodys
  <2>3. ASSUME NEW d \in H \cup {c}
        PROVE  \E j \in 2 .. n : h2[j].flag = "USED" /\ f[j] = d.ptr /\ h2[j].size >= d.size
    <3>1. k \in 1 .. n /\ k \in 2 .. n
      BY <1>1
    <3>2. CASE d = c
      <4>1. h2[k].flag = "USED" /\ f[k] = d.ptr /\ h2[k].size >= d.size
        BY <1>2, <1>3, <1>7, <3>1, <3>2
      <4> QED BY <3>1, <4>1
    <3>3. CASE d \in H
      <4>1. PICK j \in 2 .. n : h[j].flag = "USED" /\ f[j] = d.ptr /\ h[j].size >= d.size
        BY <1>1, <3>3 DEF Sound, Given
      <4>2. j \in 1 .. n
        OBVIOUS
      <4>3. h2[j].flag = "USED" /\ h2[j].size = h[j].size
        BY <1>2, <4>1, <4>2
      <4> QED BY <4>1, <4>3
    <3> QED BY <3>2, <3>3
  <2>4. ASSUME NEW j \in 2 .. n, h2[j].flag = "USED"
        PROVE  \E d \in H \cup {c} : f[j] = d.ptr /\ h2[j].size >= d.size
    <3>1. j \in 1 .. n
      OBVIOUS
    <3>2. CASE j = k
      BY <1>2, <1>3, <1>7, <3>1, <3>2
    <3>3. CASE j # k
      <4>1. h[j].flag = "USED" /\ h2[j].size = h[j].size
        BY <1>2, <2>4, <3>1, <3>3
      <4>2. PICK d \in H : f[j] = d.ptr /\ h[j].size >= d.size
        BY <1>1, <4>1 DEF Sound, Given
      <4> QED BY <4>1, <4>2
    <3> QED BY <3>2, <3>3
  <2> QED BY <1>2, <2>1, <2>2, <2>3, <2>4 DEF Given
<1> QED BY <1>5, <1>6, <1>7, <1>8, <1>9 DEF Sound, c

\* The block behind the k-th is the chunk's, and the table is no smaller.
Taken(h, h2, k, size) ==
    /\ h2 \in Seq(Piece) /\ k + 1 \in 1 .. Len(h2)
    /\ h2[k + 1].size = size /\ h2[k + 1].flag = "USED"
    /\ h[1].size <= h2[1].size

\* A bigger one is cut: the chunk goes to its end.
LEMMA TakeEnd ==
    ASSUME lost = {}, NEW h, NEW f, NEW H, Sound(h, f, H), NEW k \in 2 .. Len(h),
           h[k].flag = "FREE", NEW left \in Nat, NEW size \in Sizes,
           left + size = h[k].size,
           NEW cut, cut = [h EXCEPT ![k].size = left], CanCreate(cut),
           NEW h2, h2 = CreateAfter(cut, k, size, "USED")
    PROVE  /\ ChunkAt(f[k] + left, size) \in Chunk /\ Nobodys(f[k] + left, H)
           /\ \E f2 : Sound(h2, f2, H \cup {ChunkAt(f[k] + left, size)})
           /\ Taken(h, h2, k, size)
<1>1. PICK n \in Nat : n = Len(h) /\ n >= 2 /\ h \in Seq(Piece) /\ Laid(h, f) /\ Table(h)
  BY SMTT(30) DEF Sound, Table
<1>2. size \in Nat
  BY Constants
<1>3. cut \in Seq(Piece) /\ SizedTo(cut, h, k, left)
  <2>1. k \in 1 .. Len(h)
    BY <1>1
  <2> QED BY <1>1, <2>1, Resized
<1>4. PICK g \in Nat, id \in Nat : Creation(h, h2, k, left, size, g, id)
  BY <1>1, <1>2, <1>3, CreateSplits
<1>5. /\ Split(h, h2, k, left, size, g, id)
      /\ g # 0 => h[2].flag = "FREE"
      /\ h[1].size + g \in TableSizes /\ Slots(h) <= Slots(h2) /\ id < Slots(h2)
      /\ \A i \in 1 .. n : h[i].id # id
  BY <1>1, <1>4 DEF Creation
<1>6. k \in 2 .. n
  BY <1>1
<1> DEFINE f2 == SplitStarts(f, n, k, left, g)
           c == ChunkAt(f[k] + left, size)
<1>7. Laid(h2, f2)
  BY <1>1, <1>2, <1>5, <1>6, SplitLaid
<1>8. Table(h2)
  BY <1>1, <1>5, <1>6, SplitTable
<1>9. c \in Chunk /\ Nobodys(f[k] + left, H) /\ Given(h2, f2, H \cup {c})
  BY <1>1, <1>5, <1>6, SplitGiven
<1>10. Sound(h2, f2, H \cup {c})
  BY <1>7, <1>8, <1>9 DEF Sound
<1>11. /\ h2 \in Seq(Piece) /\ Len(h2) = n + 1
       /\ h2[k + 1].size = size /\ h2[1].size = h[1].size + g
       /\ \A j \in 1 .. n + 1 :
             h2[j].flag = IF j <= k THEN h[j].flag
                          ELSE IF j = k + 1 THEN "USED" ELSE h[j - 1].flag
  BY <1>1, <1>5 DEF Split
<1>12. k + 1 \in 1 .. n + 1
  BY <1>6
<1>13. h2[k + 1].flag = "USED"
  <2>1. ASSUME NEW j \in 1 .. n + 1, j = k + 1 PROVE h2[j].flag = "USED"
    <3>1. ~(j <= k)
      BY <1>6, <2>1
    <3> QED BY <1>11, <2>1, <3>1
  <2> QED BY <1>12, <2>1
<1>14. h[1].size <= h2[1].size
  <2>1. h[1].size \in Nat
    BY <1>1, TableGrows DEF Table
  <2> QED BY <1>11, <2>1, SMTT(30)
<1>15. k + 1 \in 1 .. Len(h2)
  BY <1>11, <1>12
<1>16. Taken(h, h2, k, size)
  BY <1>11, <1>13, <1>14, <1>15 DEF Taken
<1> HIDE DEF c, f2
<1>17. \E e : Sound(h2, e, H \cup {c})
  BY <1>10
<1> QED BY <1>9, <1>16, <1>17 DEF c

\* Setting a flag to what it is.
LEMMA SameFlag ==
    ASSUME NEW h \in Seq(Piece), NEW k \in 1 .. Len(h), NEW flag, h[k].flag = flag
    PROVE  [h EXCEPT ![k].flag = flag] = h
<1>1. h[k] \in Piece
  BY ElementOf
<1>2. [h[k] EXCEPT !.flag = flag] = h[k]
  BY <1>1 DEF Piece
<1>3. [h EXCEPT ![k].flag = flag] = [h EXCEPT ![k] = [h[k] EXCEPT !.flag = flag]]
  OBVIOUS
<1>4. [h EXCEPT ![k] = h[k]] = h
  OBVIOUS
<1> QED BY <1>2, <1>3, <1>4

\* alloc either gives its caller storage nobody has, or faults at once.
LEMMA AllocSound ==
    ASSUME Plain, lost = {}, NEW f, Sound(heap, f, held),
           NEW size \in Sizes, NEW align \in Aligns, CanAlloc(size, align),
           NEW a, a = Alloc(size, align)
    PROVE  \/ /\ ~a.ok
              /\ \E k \in 2 .. Len(heap), left \in Nat :
                    LET cut == [heap EXCEPT ![k].size = left]
                    IN  /\ left <= heap[k].size
                        /\ a.heap = CutAfter(cut, k) /\ a.lost = TailOf(cut, k)
           \/ /\ a.ok /\ a.lost = {}
              /\ ChunkAt(a.ptr, size) \in Chunk /\ Nobodys(a.ptr, held)
              /\ \E f2 : Sound(a.heap, f2, held \cup {ChunkAt(a.ptr, size)})
              /\ heap[1].size <= a.heap[1].size
<1>1. PICK n \in Nat : n = Len(heap) /\ n >= 2 /\ heap \in Seq(Piece)
                       /\ Laid(heap, f) /\ Table(heap)
  BY DEF Sound, Table
<1>2. size \in Nat /\ size > 0 /\ align = 0
  BY Constants DEF Plain
<1> DEFINE k == Min(Suitable(size, align))
<1>3. k \in Suitable(size, align)
  <2>1. Suitable(size, align) \in SUBSET Nat
    BY <1>1 DEF Suitable
  <2>2. Suitable(size, align) # {}
    BY DEF CanAlloc
  <2> QED BY <2>1, <2>2, MinIsLeast
<1> HIDE DEF k
<1>4. k \in 1 .. n /\ heap[k].flag # "USED" /\ heap[k].size >= size
  BY <1>1, <1>3 DEF Suitable
<1>5. heap[k] \in Piece
  BY <1>1, <1>4, ElementOf
<1>6. heap[k].flag = "FREE" /\ heap[k].size \in Nat
  BY <1>4, <1>5 DEF Piece, Flags
<1>7. k \in 2 .. n
  <2>1. k # 1
    BY <1>4 DEF Sound, Table
  <2> QED BY <1>4, <2>1
<1>8. Start(heap, k) = f[k] /\ f[k] \in Nat /\ f[k] + heap[k].size <= Base + RegionSize
      /\ heap[k].size < Word
  <2>1. k \in 1 .. n + 1 /\ k + 1 \in 1 .. n + 1
    BY <1>4
  <2>2. f[k + 1] <= Base + RegionSize /\ f[k] \in Nat /\ heap[k].size < Word
    BY <1>1, <1>4, <2>1, InRegion
  <2>3. f[k + 1] = f[k] + heap[k].size
    BY <1>1, <1>4 DEF Laid
  <2>4. Start(heap, k) = f[k]
    BY <1>1, <2>1, FoundWhereLaid
  <2> QED BY <2>2, <2>3, <2>4
<1> DEFINE left == heap[k].size - size
           cut == [heap EXCEPT ![k].size = left]
<1>9. left \in Nat /\ left + size = heap[k].size /\ left <= heap[k].size
  BY <1>2, <1>4, <1>6
<1>10. LeftSize(Start(heap, k), heap[k].size, size, align) = left
  BY <1>2 DEF LeftSize
<1>11. (Start(heap, k) + left) % Word = f[k] + left
  <2>1. f[k] + left \in Nat /\ f[k] + left < Word
    BY <1>2, <1>6, <1>8, <1>9, Constants
  <2> QED BY <1>8, <2>1, Constants
<1>12. (heap[k].size - left) % Word = size /\ (size - size) % Word = 0
  <2>1. heap[k].size - left = size /\ size < Word /\ size - size = 0
    BY <1>2, <1>4, <1>6, <1>8, Constants
  <2> QED BY <1>2, <2>1, Constants
<1>13. CASE left = 0
  <2>1. heap[k].size = size
    BY <1>9, <1>13, <1>2
  <2>2. a = [heap |-> [heap EXCEPT ![k].flag = "USED"], lost |-> {}, ok |-> TRUE,
             ptr |-> f[k] + left]
    BY <1>10, <1>11, <1>12, <1>13, <2>1 DEF Alloc, k
  <2>3. a.heap = [heap EXCEPT ![k].flag = "USED"] /\ a.lost = {} /\ a.ok /\ a.ptr = f[k]
    BY <1>8, <1>13, <2>2
  <2>4. k \in 1 .. Len(heap) /\ k \in 2 .. Len(heap) /\ "USED" \in Flags
    BY <1>1, <1>4, <1>7 DEF Flags
  <2> DEFINE h == [heap EXCEPT ![k].flag = "USED"]
  <2>5. h \in Seq(Piece) /\ FlaggedTo(h, heap, k, "USED")
    BY <1>1, <2>4, Reflagged
  <2> HIDE DEF h
  <2>6. /\ ChunkAt(f[k], size) \in Chunk /\ Nobodys(f[k], held)
        /\ Sound(h, f, held \cup {ChunkAt(f[k], size)})
    BY <1>6, <2>1, <2>4, <2>5, TakeWhole
  <2>7. h[1].size = heap[1].size
    BY <1>1, <2>5 DEF FlaggedTo
  <2>8. heap[1].size \in Nat
    BY <1>1, TableGrows DEF Table
  <2>9. heap[1].size <= h[1].size
    BY <2>7, <2>8
  <2>10. \E f2 : Sound(h, f2, held \cup {ChunkAt(f[k], size)})
    BY <2>6
  <2>11. a.heap = h
    BY <2>3 DEF h
  <2> QED BY <2>3, <2>6, <2>9, <2>10, <2>11
<1>14. CASE left # 0 /\ ~CanCreate(cut)
  <2>1. a = [heap |-> CutAfter(cut, k), lost |-> TailOf(cut, k), ok |-> FALSE]
    BY <1>10, <1>14 DEF Alloc, k
  <2>2. ~a.ok /\ a.heap = CutAfter(cut, k) /\ a.lost = TailOf(cut, k)
    BY <2>1
  <2>3. k \in 2 .. Len(heap)
    BY <1>1, <1>7
  <2> HIDE DEF left
  <2> QED BY <1>9, <2>2, <2>3
<1>15. CASE left # 0 /\ CanCreate(cut)
  <2> DEFINE h == CreateAfter(cut, k, size, "USED")
             p == f[k] + left
  <2>1. k \in 2 .. Len(heap)
    BY <1>1, <1>7
  <2> HIDE DEF left
  <2>2. /\ ChunkAt(p, size) \in Chunk /\ Nobodys(p, held)
        /\ \E f2 : Sound(h, f2, held \cup {ChunkAt(p, size)})
        /\ Taken(heap, h, k, size)
    BY <1>6, <1>9, <1>15, <2>1, TakeEnd
  <2> HIDE DEF h, p
  <2>3. /\ h \in Seq(Piece) /\ k + 1 \in 1 .. Len(h)
        /\ h[k + 1].size = size /\ h[k + 1].flag = "USED"
        /\ heap[1].size <= h[1].size
    BY <2>2 DEF Taken
  <2>4. SplitLeft(k, left) = h
    BY <1>12 DEF SplitLeft, left, h
  <2>5. [h EXCEPT ![k + 1].flag = "USED"] = h
    BY <2>3, SameFlag, Zenon
  <2>6. a = [heap |-> h, lost |-> {}, ok |-> TRUE, ptr |-> f[k] + left]
    <3>1. (h[k + 1].size - size) % Word = 0
      BY <1>12, <2>3
    <3>2. a = LET left_  == LeftSize(Start(heap, k), heap[k].size, size, align)
                  cut_   == [heap EXCEPT ![k].size = left_]
                  at    == IF left_ = 0 THEN k ELSE k + 1
                  h_    == IF left_ = 0 THEN heap ELSE SplitLeft(k, left_)
                  right == (h_[at].size - size) % Word
                  done  == IF right = 0 THEN h_ ELSE SplitRight(h_, at, right)
              IN  IF left_ # 0 /\ ~CanCreate(cut_)
                  THEN [heap |-> CutAfter(cut_, k), lost |-> TailOf(cut_, k), ok |-> FALSE]
                  ELSE [heap |-> [done EXCEPT ![at].flag = "USED"],
                        lost |-> IF right # 0 /\ ~CanCreate(h_) THEN TailOf(h_, at) ELSE {},
                        ok   |-> TRUE,
                        ptr  |-> (Start(heap, k) + left_) % Word]
      BY Zenon DEF Alloc, k
    <3>3. LeftSize(Start(heap, k), heap[k].size, size, align) = left
      BY <1>10 DEF left
    <3>4. (Start(heap, k) + left) % Word = f[k] + left
      BY <1>11 DEF left
    <3> QED BY <1>15, <2>4, <2>5, <3>1, <3>2, <3>3, <3>4, Zenon DEF p
  <2>7. a.heap = h /\ a.lost = {} /\ a.ok /\ a.ptr = p
    BY <2>6 DEF p
  <2> QED BY <2>2, <2>3, <2>7
<1> HIDE DEF left, cut
<1> QED BY <1>13, <1>14, <1>15

-----------------------------------------------------------------------------
(* free and block::merge.                                                  *)

\* Fusing blocks of h gives h2, whose j-th block begins with the s[j]-th of h
\* and takes in the next of h, if at all, only when that is free.
Fused(h, h2, s) ==
    /\ h2 \in Seq(Piece) /\ Len(h2) >= 2
    /\ s \in [1 .. Len(h2) + 1 -> 1 .. Len(h) + 1]
    /\ s[1] = 1 /\ s[2] = 2 /\ s[Len(h2) + 1] = Len(h) + 1
    /\ \A j \in 1 .. Len(h2) :
          /\ s[j] \in 1 .. Len(h)
          /\ h2[j].id = h[s[j]].id /\ h2[j].flag = h[s[j]].flag
          /\ \/ s[j + 1] = s[j] + 1 /\ h2[j].size = h[s[j]].size
             \/ /\ s[j + 1] = s[j] + 2 /\ s[j] + 1 \in 1 .. Len(h)
                /\ h2[j].size = h[s[j]].size + h[s[j] + 1].size
    /\ \A i, j \in 1 .. Len(h2) : s[i] = s[j] => i = j
    /\ \A k \in 2 .. Len(h) : h[k].flag = "USED" => \E j \in 2 .. Len(h2) : s[j] = k

LEMMA FusedLaid ==
    ASSUME NEW h \in Seq(Piece), NEW f, Laid(h, f), NEW h2, NEW s, Fused(h, h2, s)
    PROVE  Laid(h2, [j \in 1 .. Len(h2) + 1 |-> f[s[j]]])
<1> DEFINE f2 == [j \in 1 .. Len(h2) + 1 |-> f[s[j]]]
<1>1. PICK n \in Nat : n = Len(h)
  OBVIOUS
<1>2. PICK m \in Nat : m = Len(h2) /\ m >= 2
  BY DEF Fused
<1>3. /\ \A j \in 1 .. m + 1 : s[j] \in 1 .. n + 1
      /\ s[1] = 1 /\ s[m + 1] = n + 1
      /\ \A j \in 1 .. m :
            /\ s[j] \in 1 .. n
            /\ \/ s[j + 1] = s[j] + 1 /\ h2[j].size = h[s[j]].size
               \/ /\ s[j + 1] = s[j] + 2 /\ s[j] + 1 \in 1 .. n
                  /\ h2[j].size = h[s[j]].size + h[s[j] + 1].size
  BY <1>1, <1>2 DEF Fused
<1>4. /\ \A j \in 1 .. n + 1 : f[j] \in Nat
      /\ \A j \in 1 .. n : f[j + 1] = f[j] + h[j].size
      /\ f[1] = Base /\ f[n + 1] = Base + RegionSize
  BY <1>1 DEF Laid
<1>5. \A j \in 1 .. n : h[j].size \in Nat
  <2>1. \A j \in 1 .. n : h[j] \in Piece
    BY <1>1, ElementOf
  <2> QED BY <2>1 DEF Piece
<1>6. f2 \in [1 .. m + 1 -> Nat] /\ f2[1] = Base /\ f2[m + 1] = Base + RegionSize
  BY <1>2, <1>3, <1>4, SMTT(30)
<1>7. ASSUME NEW j \in 1 .. m PROVE f2[j + 1] = f2[j] + h2[j].size
  <2>1. f2[j] = f[s[j]] /\ f2[j + 1] = f[s[j + 1]]
    BY <1>2
  <2>2. s[j] \in 1 .. n /\ s[j] \in 1 .. n + 1
    BY <1>3
  <2>3. f[s[j] + 1] = f[s[j]] + h[s[j]].size
    BY <1>4, <2>2
  <2>4. CASE s[j + 1] = s[j] + 1 /\ h2[j].size = h[s[j]].size
    BY <2>1, <2>3, <2>4
  <2>5. CASE /\ s[j + 1] = s[j] + 2 /\ s[j] + 1 \in 1 .. n
             /\ h2[j].size = h[s[j]].size + h[s[j] + 1].size
    <3>1. f[(s[j] + 1) + 1] = f[s[j] + 1] + h[s[j] + 1].size
      BY <1>4, <2>5
    <3>2. (s[j] + 1) + 1 = s[j] + 2
      BY <2>2
    <3>3. f[s[j]] \in Nat /\ h[s[j]].size \in Nat /\ h[s[j] + 1].size \in Nat
      BY <1>4, <1>5, <2>2, <2>5
    <3>4. f[s[j + 1]] = f[s[j] + 1] + h[s[j] + 1].size
      BY <2>5, <3>1, <3>2
    <3>5. f2[j + 1] = f[s[j]] + h[s[j]].size + h[s[j] + 1].size
      BY <2>1, <2>3, <3>4
    <3>6. f2[j] = f[s[j]] /\ h2[j].size = h[s[j]].size + h[s[j] + 1].size
      BY <2>1, <2>5
    <3> HIDE DEF f2
    <3> QED BY <3>3, <3>5, <3>6, SMTT(30)
  <2> QED BY <1>3, <2>4, <2>5
<1> HIDE DEF f2
<1>8. Laid(h2, f2)
  BY <1>2, <1>6, <1>7 DEF Laid
<1> QED BY <1>8 DEF f2

LEMMA FusedTable ==
    ASSUME NEW h, Table(h), NEW h2, NEW s, Fused(h, h2, s)
    PROVE  Table(h2) /\ h2[1].size = h[1].size
<1>1. PICK n \in Nat : n = Len(h) /\ n >= 2
  BY DEF Table
<1>2. PICK m \in Nat : m = Len(h2) /\ m >= 2
  BY DEF Fused
<1>3. /\ s[1] = 1 /\ s[2] = 2
      /\ \A j \in 1 .. m :
            /\ s[j] \in 1 .. n
            /\ h2[j].id = h[s[j]].id /\ h2[j].flag = h[s[j]].flag
            /\ \/ s[j + 1] = s[j] + 1 /\ h2[j].size = h[s[j]].size
               \/ s[j + 1] = s[j] + 2
      /\ \A i, j \in 1 .. m : s[i] = s[j] => i = j
  BY <1>1, <1>2 DEF Fused
<1>4. 1 \in 1 .. m /\ 2 \in 1 .. m
  BY <1>2
<1>5. h2[1].flag = h[1].flag /\ h2[1].id = h[1].id /\ h2[2].id = h[2].id
  BY <1>3, <1>4
<1>6. h2[1].size = h[1].size
  <2>1. s[1 + 1] = 2 /\ s[1] = 1
    BY <1>3
  <2> QED BY <1>3, <1>4, <2>1
<1>7. Slots(h2) = Slots(h)
  BY <1>6 DEF Slots
<1>8. \A i, j \in 1 .. m : h2[i].id = h2[j].id => i = j
  <2> TAKE i, j \in 1 .. m
  <2>1. s[i] \in 1 .. n /\ s[j] \in 1 .. n /\ h2[i].id = h[s[i]].id /\ h2[j].id = h[s[j]].id
    BY <1>3
  <2>2. h[s[i]].id = h[s[j]].id => s[i] = s[j]
    BY <1>1, <2>1 DEF Table
  <2> QED BY <1>3, <2>1, <2>2
<1>9. \A j \in 1 .. m : h2[j].id < Slots(h2)
  BY <1>1, <1>3, <1>7 DEF Table
<1>10. h2 \in Seq(Piece)
  BY DEF Fused
<1> QED BY <1>2, <1>5, <1>6, <1>8, <1>9, <1>10 DEF Table

LEMMA FusedSound ==
    ASSUME NEW h, NEW f, NEW H, Sound(h, f, H), NEW h2, NEW s, Fused(h, h2, s)
    PROVE  /\ Sound(h2, [j \in 1 .. Len(h2) + 1 |-> f[s[j]]], H)
           /\ h2[1].size = h[1].size
<1> DEFINE f2 == [j \in 1 .. Len(h2) + 1 |-> f[s[j]]]
<1>1. PICK n \in Nat : n = Len(h) /\ n >= 2 /\ h \in Seq(Piece)
                       /\ Laid(h, f) /\ Table(h) /\ Given(h, f, H)
  BY DEF Sound, Table
<1>2. PICK m \in Nat : m = Len(h2) /\ m >= 2
  BY DEF Fused
<1>3. /\ s[1] = 1
      /\ \A j \in 1 .. m :
            /\ s[j] \in 1 .. n
            /\ h2[j].flag = h[s[j]].flag
            /\ \/ h2[j].size = h[s[j]].size
               \/ s[j] + 1 \in 1 .. n /\ h2[j].size = h[s[j]].size + h[s[j] + 1].size
      /\ \A i, j \in 1 .. m : s[i] = s[j] => i = j
      /\ \A k \in 2 .. n : h[k].flag = "USED" => \E j \in 2 .. m : s[j] = k
  BY <1>1, <1>2 DEF Fused
<1>4. \A j \in 1 .. n : h[j].size \in Nat
  <2>1. \A j \in 1 .. n : h[j] \in Piece
    BY <1>1, ElementOf
  <2> QED BY <2>1 DEF Piece
<1>5. \A j \in 1 .. m : f2[j] = f[s[j]] /\ h2[j].size >= h[s[j]].size
  <2> TAKE j \in 1 .. m
  <2>1. f2[j] = f[s[j]]
    BY <1>2
  <2>2. s[j] \in 1 .. n
    BY <1>3
  <2>3. h[s[j]].size \in Nat
    BY <1>4, <2>2
  <2>4. CASE h2[j].size = h[s[j]].size
    BY <2>1, <2>3, <2>4
  <2>5. CASE s[j] + 1 \in 1 .. n /\ h2[j].size = h[s[j]].size + h[s[j] + 1].size
    <3>1. h[s[j] + 1].size \in Nat
      BY <1>4, <2>5
    <3> QED BY <2>1, <2>3, <2>5, <3>1
  <2> QED BY <1>3, <2>4, <2>5
<1>6. \A j \in 2 .. m : s[j] \in 2 .. n /\ j \in 1 .. m
  <2> TAKE j \in 2 .. m
  <2>1. j \in 1 .. m /\ 1 \in 1 .. m /\ j # 1
    BY <1>2
  <2>2. s[j] # 1
    BY <1>3, <2>1
  <2>3. s[j] \in 1 .. n
    BY <1>3, <2>1
  <2> QED BY <2>1, <2>2, <2>3
<1>7. Laid(h2, f2)
  BY <1>1, FusedLaid
<1>8. Table(h2) /\ h2[1].size = h[1].size
  BY <1>1, FusedTable
<1> HIDE DEF f2
<1>9. Given(h2, f2, H)
  <2>1. H \subseteq Chunk /\ \A c, d \in H : c.ptr = d.ptr => c = d
    BY <1>1 DEF Given
  <2>2. ASSUME NEW c \in H
        PROVE  \E j \in 2 .. m : h2[j].flag = "USED" /\ f2[j] = c.ptr /\ h2[j].size >= c.size
    <3>1. PICK k \in 2 .. n : h[k].flag = "USED" /\ f[k] = c.ptr /\ h[k].size >= c.size
      BY <1>1 DEF Given
    <3>2. PICK j \in 2 .. m : s[j] = k
      BY <1>3, <3>1
    <3>3. j \in 1 .. m /\ k \in 1 .. n
      OBVIOUS
    <3>4. h2[j].flag = "USED" /\ f2[j] = c.ptr /\ h2[j].size >= h[k].size
      BY <1>3, <1>5, <3>1, <3>2, <3>3
    <3>5. c.size \in Nat /\ h[k].size \in Nat
      BY <1>4, <2>1, <3>3, ChunkTypes
    <3>6. h2[j].size \in Nat
      <4>1. h2 \in Seq(Piece)
        BY <1>8 DEF Table
      <4>2. h2[j] \in Piece
        BY <1>2, <3>3, <4>1, ElementOf
      <4> QED BY <4>2 DEF Piece
    <3> QED BY <3>1, <3>4, <3>5, <3>6
  <2>3. ASSUME NEW j \in 2 .. m, h2[j].flag = "USED"
        PROVE  \E c \in H : f2[j] = c.ptr /\ h2[j].size >= c.size
    <3>1. s[j] \in 2 .. n /\ j \in 1 .. m /\ s[j] \in 1 .. n
      BY <1>6
    <3>2. h[s[j]].flag = "USED" /\ f2[j] = f[s[j]] /\ h2[j].size >= h[s[j]].size
      BY <1>3, <1>5, <2>3, <3>1
    <3>3. PICK c \in H : f[s[j]] = c.ptr /\ h[s[j]].size >= c.size
      BY <1>1, <3>1, <3>2 DEF Given
    <3>4. c.size \in Nat /\ h[s[j]].size \in Nat
      BY <1>4, <2>1, <3>1, ChunkTypes
    <3>5. h2[j].size \in Nat
      <4>1. h2 \in Seq(Piece)
        BY <1>8 DEF Table
      <4>2. h2[j] \in Piece
        BY <1>2, <3>1, <4>1, ElementOf
      <4> QED BY <4>2 DEF Piece
    <3> QED BY <3>2, <3>3, <3>4, <3>5
  <2> QED BY <1>2, <2>1, <2>2, <2>3 DEF Given
<1> QED BY <1>7, <1>8, <1>9 DEF Sound, f2

\* A block given back is nobody's any more, and no other chunk is concerned.
LEMMA GivenBack ==
    ASSUME NEW h, NEW f, NEW H, Sound(h, f, H), NEW c \in H,
           NEW k \in 2 .. Len(h), h[k].flag = "USED", f[k] = c.ptr,
           NEW h2 \in Seq(Piece), FlaggedTo(h2, h, k, "FREE")
    PROVE  Sound(h2, f, H \ {c})
<1>1. PICK n \in Nat : n = Len(h) /\ n >= 2 /\ h \in Seq(Piece)
                       /\ Laid(h, f) /\ Table(h) /\ Given(h, f, H)
  BY DEF Sound, Table
<1>2. /\ Len(h2) = n
      /\ \A j \in 1 .. n : h2[j].size = h[j].size
                           /\ h2[j].flag = IF j = k THEN "FREE" ELSE h[j].flag
  BY <1>1 DEF FlaggedTo
<1>3. \A j \in 1 .. n : h[j].size \in Nat
  <2>1. \A j \in 1 .. n : h[j] \in Piece
    BY <1>1, ElementOf
  <2> QED BY <2>1 DEF Piece
<1>4. Laid(h2, f) /\ Table(h2)
  BY <1>1, FlagsAside
<1>5. H \subseteq Chunk /\ \A d, e \in H : d.ptr = e.ptr => d = e
  BY <1>1 DEF Given
<1>6. ASSUME NEW j \in 2 .. n, h[j].flag = "USED", f[j] = f[k] PROVE j = k
  <2>1. j \in 1 .. n /\ k \in 1 .. n /\ j \in 1 .. Len(h) /\ k \in 1 .. Len(h)
        /\ k \in 2 .. n /\ j \in 1 .. Len(h) + 1
    BY <1>1
  <2>2. PICK d \in H : f[j] = d.ptr /\ h[j].size >= d.size
    BY <1>1, <1>6 DEF Given
  <2>3. PICK e \in H : f[k] = e.ptr /\ h[k].size >= e.size
    BY <1>1, <2>1 DEF Given
  <2>4. d.size > 0 /\ d.size \in Nat /\ e.size > 0 /\ e.size \in Nat
    BY <1>5, ChunkTypes
  <2>5. h[j].size > 0 /\ h[k].size > 0 /\ h[j].size \in Nat /\ h[k].size \in Nat
    BY <1>3, <2>1, <2>2, <2>3, <2>4, SMTT(30)
  <2>6. f[j] \in Nat
    BY <1>1, <2>1, InRegion
  <2>7. f[j] <= f[j] /\ f[j] < f[j] + h[j].size /\ f[k] <= f[j] /\ f[j] < f[k] + h[k].size
    BY <1>6, <2>5, <2>6, SMTT(30)
  <2> QED BY <1>1, <2>1, <2>6, <2>7, OneBlockThere
<1>7. ASSUME NEW d \in H \ {c}
      PROVE  \E j \in 2 .. n : h2[j].flag = "USED" /\ f[j] = d.ptr /\ h2[j].size >= d.size
  <2>1. PICK j \in 2 .. n : h[j].flag = "USED" /\ f[j] = d.ptr /\ h[j].size >= d.size
    BY <1>1 DEF Given
  <2>2. j # k
    BY <1>5, <2>1
  <2>3. j \in 1 .. n
    OBVIOUS
  <2>4. h2[j].flag = "USED" /\ h2[j].size = h[j].size
    BY <1>2, <2>1, <2>2, <2>3
  <2> QED BY <2>1, <2>4
<1>8. ASSUME NEW j \in 2 .. n, h2[j].flag = "USED"
      PROVE  \E d \in H \ {c} : f[j] = d.ptr /\ h2[j].size >= d.size
  <2>1. j \in 1 .. n
    OBVIOUS
  <2>2. j # k
    BY <1>2, <1>8, <2>1
  <2>3. h[j].flag = "USED" /\ h2[j].size = h[j].size
    BY <1>2, <1>8, <2>1, <2>2
  <2>4. PICK d \in H : f[j] = d.ptr /\ h[j].size >= d.size
    BY <1>1, <2>3 DEF Given
  <2>5. d # c
    BY <1>6, <2>2, <2>3, <2>4
  <2> QED BY <2>3, <2>4, <2>5
<1>9. Given(h2, f, H \ {c})
  <2>1. H \ {c} \subseteq Chunk /\ \A d, e \in H \ {c} : d.ptr = e.ptr => d = e
    BY <1>5
  <2> QED BY <1>2, <1>7, <1>8, <2>1 DEF Given
<1> QED BY <1>4, <1>9 DEF Sound

\* free finds the block a chunk begins with.
LEMMA FoundByFree ==
    ASSUME NEW f, Sound(heap, f, held), NEW c \in held
    PROVE  /\ Around(c.ptr) # {}
           /\ Min(Around(c.ptr)) \in 2 .. Len(heap)
           /\ heap[Min(Around(c.ptr))].flag = "USED"
           /\ f[Min(Around(c.ptr))] = c.ptr
<1>1. heap \in Seq(Piece) /\ Laid(heap, f) /\ Len(heap) \in Nat
  BY DEF Sound, Table
<1>2. PICK k \in 2 .. Len(heap) : heap[k].flag = "USED" /\ f[k] = c.ptr
                                  /\ heap[k].size >= c.size
  BY DEF Sound, Given
<1>3. c.size \in Nat /\ c.size > 0 /\ c.ptr \in Nat
  BY ChunkTypes DEF Sound, Given
<1>4. k \in 1 .. Len(heap) /\ DOMAIN heap = 1 .. Len(heap)
  BY <1>1
<1>5. heap[k].size \in Nat
  <2>1. heap[k] \in Piece
    BY <1>1, <1>4, ElementOf
  <2> QED BY <2>1 DEF Piece
<1>6. \A j \in 1 .. Len(heap) : Start(heap, j) = f[j]
  <2> TAKE j \in 1 .. Len(heap)
  <2>1. j \in 1 .. Len(heap) + 1
    BY <1>1
  <2> QED BY <1>1, <2>1, FoundWhereLaid
<1>7. f[k] <= c.ptr /\ c.ptr < f[k] + heap[k].size
  BY <1>2, <1>3, <1>5
<1>8. k \in Around(c.ptr)
  BY <1>4, <1>6, <1>7 DEF Around
<1>9. ASSUME NEW j \in Around(c.ptr) PROVE j = k
  <2>1. j \in 1 .. Len(heap)
    BY <1>4 DEF Around
  <2>2. f[j] <= c.ptr /\ c.ptr < f[j] + heap[j].size
    BY <1>6, <2>1 DEF Around
  <2> QED BY <1>1, <1>3, <1>4, <1>7, <2>1, <2>2, OneBlockThere
<1>10. Around(c.ptr) = {k}
  BY <1>8, <1>9
<1>11. Min(Around(c.ptr)) = k
  <2>1. {k} \in SUBSET Nat /\ {k} # {}
    BY <1>4
  <2>2. Min({k}) \in {k}
    BY <2>1, MinIsLeast
  <2> QED BY <1>10, <2>2
<1> QED BY <1>2, <1>8, <1>11

\* Coalescence behind.
LEMMA BehindFuses ==
    ASSUME NEW h, Table(h), NEW k \in 3 .. Len(h), h[k].flag = "FREE"
    PROVE  (\E s : Fused(h, MergeBehind(h, k), s)) /\ Len(MergeBehind(h, k)) = Len(h) - 1
<1>1. PICK n \in Nat : n = Len(h) /\ h \in Seq(Piece)
  BY DEF Table
<1> DEFINE size == h[k - 1].size + h[k].size
           big == [h EXCEPT ![k - 1].size = size]
           h2 == RemoveAt(big, k)
<1>2. k \in 1 .. n /\ k - 1 \in 1 .. n /\ k - 1 \in 1 .. Len(h)
  BY <1>1
<1>3. size \in Nat
  <2>1. h[k - 1] \in Piece /\ h[k] \in Piece
    BY <1>1, <1>2, ElementOf
  <2> QED BY <2>1 DEF Piece
<1>4. MergeBehind(h, k) = h2
  BY DEF MergeBehind
<1> HIDE DEF size
<1>5. big \in Seq(Piece) /\ SizedTo(big, h, k - 1, size)
  BY <1>1, <1>2, <1>3, Resized
<1> HIDE DEF big
<1>6. /\ Len(big) = n
      /\ \A j \in 1 .. n : big[j].id = h[j].id /\ big[j].flag = h[j].flag
                           /\ big[j].size = IF j = k - 1 THEN size ELSE h[j].size
  BY <1>1, <1>5 DEF SizedTo
<1>7. k \in 1 .. Len(big)
  BY <1>2, <1>6
<1>8. h2 \in Seq(Piece) /\ RemovedFrom(h2, big, k)
  BY <1>5, <1>7, Removed
<1> HIDE DEF h2
<1>9. /\ Len(h2) = n - 1
      /\ \A j \in 1 .. n - 1 : h2[j] = IF j < k THEN big[j] ELSE big[j + 1]
  BY <1>6, <1>8 DEF RemovedFrom
<1> DEFINE s == [j \in 1 .. n |-> IF j < k THEN j ELSE j + 1]
<1>10. k \in 3 .. n /\ n >= 3
  BY <1>1
<1>11. s \in [1 .. n -> 1 .. n + 1] /\ s[1] = 1 /\ s[2] = 2 /\ s[n] = n + 1
  BY <1>10
<1>12. ASSUME NEW j \in 1 .. n - 1
       PROVE  /\ s[j] \in 1 .. n
              /\ h2[j].id = h[s[j]].id /\ h2[j].flag = h[s[j]].flag
              /\ \/ s[j + 1] = s[j] + 1 /\ h2[j].size = h[s[j]].size
                 \/ /\ s[j + 1] = s[j] + 2 /\ s[j] + 1 \in 1 .. n
                    /\ h2[j].size = h[s[j]].size + h[s[j] + 1].size
  <2>1. CASE j < k - 1
    <3>1. j \in 1 .. n /\ j < k /\ j # k - 1 /\ j + 1 < k /\ j + 1 \in 1 .. n
      BY <1>10, <2>1
    <3>2. s[j] = j /\ s[j + 1] = j + 1
      BY <3>1
    <3>3. h2[j] = big[j]
      BY <1>9, <3>1
    <3> HIDE DEF s
    <3> QED BY <1>6, <3>1, <3>2, <3>3
  <2>2. CASE j = k - 1
    <3>1. k - 1 \in 1 .. n /\ k - 1 < k /\ k \in 1 .. n /\ (k - 1) + 1 = k
          /\ k - 1 \in 1 .. n - 1
      BY <1>10
    <3>2. s[k - 1] = k - 1 /\ s[k] = k + 1
      BY <3>1
    <3>3. h2[k - 1] = big[k - 1]
      BY <1>9, <3>1
    <3> HIDE DEF s
    <3>4. h2[k - 1].size = h[k - 1].size + h[k].size
      BY <1>6, <3>1, <3>3 DEF size
    <3>5. h2[k - 1].id = h[k - 1].id /\ h2[k - 1].flag = h[k - 1].flag
      BY <1>6, <3>1, <3>3
    <3>6. k + 1 = (k - 1) + 2
      BY <1>10
    <3> QED BY <2>2, <3>1, <3>2, <3>4, <3>5, <3>6
  <2>3. CASE j > k - 1
    <3>1. j \in 1 .. n /\ ~(j < k) /\ j + 1 \in 1 .. n /\ ~(j + 1 < k) /\ j + 1 # k - 1
      BY <1>10, <2>3
    <3>2. s[j] = j + 1 /\ s[j + 1] = (j + 1) + 1
      BY <3>1
    <3>3. h2[j] = big[j + 1]
      BY <1>9, <3>1
    <3> HIDE DEF s
    <3> QED BY <1>6, <3>1, <3>2, <3>3
  <2>4. j < k - 1 \/ j = k - 1 \/ j > k - 1
    BY <1>10
  <2> HIDE DEF s
  <2> QED BY <2>1, <2>2, <2>3, <2>4
<1>13. \A i, j \in 1 .. n - 1 : s[i] = s[j] => i = j
  <2> TAKE i, j \in 1 .. n - 1
  <2>1. s[i] = IF i < k THEN i ELSE i + 1
    OBVIOUS
  <2>2. s[j] = IF j < k THEN j ELSE j + 1
    OBVIOUS
  <2> HIDE DEF s
  <2> QED BY <1>10, <2>1, <2>2
<1>14. ASSUME NEW l \in 2 .. n, h[l].flag = "USED"
       PROVE  \E j \in 2 .. n - 1 : s[j] = l
  <2>1. l # k
    BY <1>14
  <2>2. CASE l < k
    <3>1. l \in 2 .. n - 1 /\ s[l] = l
      BY <1>10, <2>2
    <3> QED BY <3>1
  <2>3. CASE l > k
    <3>1. l - 1 \in 2 .. n - 1 /\ l - 1 \in 1 .. n /\ ~(l - 1 < k) /\ (l - 1) + 1 = l
      BY <1>10, <2>3
    <3>2. s[l - 1] = l
      BY <3>1
    <3> QED BY <3>1, <3>2
  <2>4. l < k \/ l > k
    BY <1>10, <2>1
  <2> QED BY <2>2, <2>3, <2>4
<1> HIDE DEF s
<1>15. Len(h2) + 1 = n /\ Len(h2) >= 2
  BY <1>9, <1>10
<1>16. Fused(h, h2, s)
  BY <1>1, <1>8, <1>9, <1>11, <1>12, <1>13, <1>14, <1>15 DEF Fused
<1>17. Len(h2) = Len(h) - 1
  BY <1>1, <1>9
<1> QED BY <1>4, <1>16, <1>17

\* How many times merge may go on behind the k-th block.
Fusions(h, k) ==
    {m \in 0 .. Len(h) : \A i \in 0 .. m - 1 :
        k + 2*i + 1 <= Len(h) /\ h[k + 2*i + 1].flag = "FREE"}

\* It goes on until the block after the one it has come to is not free.
LEMMA FusesUntilUsed ==
    ASSUME NEW h, NEW k, Len(h) \in Nat, k \in 1 .. Len(h),
           NEW n, n = Max(Fusions(h, k))
    PROVE  /\ n \in Nat /\ k + 2*n - 1 <= Len(h)
           /\ \A i \in 0 .. n - 1 : h[k + 2*i + 1].flag = "FREE"
           /\ k + 2*n + 1 <= Len(h) => h[k + 2*n + 1].flag # "FREE"
<1>1. PICK L \in Nat : L = Len(h)
  OBVIOUS
<1>2. 0 \in Fusions(h, k)
  BY <1>1 DEF Fusions
<1>3. Fusions(h, k) \in SUBSET (0 .. Len(h))
  BY DEF Fusions
<1>4. n \in Fusions(h, k) /\ \A m \in Fusions(h, k) : n >= m
  BY <1>2, <1>3, MaxIsGreatest
<1>5. n \in 0 .. L /\ \A i \in 0 .. n - 1 : k + 2*i + 1 <= L /\ h[k + 2*i + 1].flag = "FREE"
  BY <1>1, <1>4 DEF Fusions
<1>6. k \in 1 .. L
  BY <1>1
<1>7. k + 2*n - 1 <= L
  <2>1. CASE n = 0
    BY <1>6, <2>1
  <2>2. CASE n # 0
    <3>1. n - 1 \in 0 .. n - 1
      BY <1>5, <2>2
    <3>2. k + 2*(n - 1) + 1 <= L
      BY <1>5, <3>1
    <3> QED BY <1>5, <1>6, <3>2
  <2> QED BY <2>1, <2>2
<1>8. ASSUME k + 2*n + 1 <= L, h[k + 2*n + 1].flag = "FREE" PROVE FALSE
  <2>1. n + 1 \in 0 .. L
    BY <1>5, <1>6, <1>8, SMTT(30)
  <2>2. \A i \in 0 .. (n + 1) - 1 : k + 2*i + 1 <= L /\ h[k + 2*i + 1].flag = "FREE"
    <3> TAKE i \in 0 .. (n + 1) - 1
    <3>1. i \in 0 .. n - 1 \/ i = n
      BY <1>5
    <3> QED BY <1>5, <1>8, <3>1
  <2>3. n + 1 \in Fusions(h, k)
    BY <1>1, <2>1, <2>2 DEF Fusions
  <2>4. n >= n + 1
    BY <1>4, <2>3
  <2> QED BY <1>5, <2>4
<1> QED BY <1>1, <1>5, <1>7, <1>8, SMTT(30)

\* merge, block by block.
LEMMA MergedAfter ==
    ASSUME NEW h, NEW k, NEW n, n = Max(Fusions(h, k))
    PROVE  MergeAfter(h, k) =
             [j \in 1 .. Len(h) - n |->
                 IF j < k THEN h[j]
                 ELSE IF j < k + n
                      THEN [h[2*j - k] EXCEPT !.size = @ + h[2*j - k + 1].size]
                      ELSE h[j + n]]
BY DEF MergeAfter, Fusions

\* Coalescence after.
LEMMA AfterFuses ==
    ASSUME NEW h, Table(h), NEW k \in 2 .. Len(h)
    PROVE  \E s : Fused(h, MergeAfter(h, k), s)
<1>1. PICK L \in Nat : L = Len(h) /\ h \in Seq(Piece)
  BY DEF Table
<1> DEFINE n == Max(Fusions(h, k))
           h2 == MergeAfter(h, k)
<1>2. k \in 2 .. L /\ k \in 1 .. L
  BY <1>1
<1>3. /\ n \in Nat /\ k + 2*n - 1 <= L
      /\ \A i \in 0 .. n - 1 : h[k + 2*i + 1].flag = "FREE"
  <2>1. Len(h) \in Nat /\ k \in 1 .. Len(h)
    BY <1>1, <1>2
  <2> QED BY <1>1, <2>1, FusesUntilUsed, SMTT(30)
<1>4. h2 = [j \in 1 .. L - n |->
               IF j < k THEN h[j]
               ELSE IF j < k + n
                    THEN [h[2*j - k] EXCEPT !.size = @ + h[2*j - k + 1].size]
                    ELSE h[j + n]]
  BY <1>1, MergedAfter, SMTT(30)
<1> HIDE DEF n, h2
<1>5. \A j \in 1 .. L : h[j] \in Piece
  BY <1>1, ElementOf
<1>6. L - n \in Nat /\ L - n >= 2
  BY <1>2, <1>3
<1> DEFINE m == L - n
<1>7. ASSUME NEW j \in 1 .. m, j < k PROVE h2[j] = h[j] /\ j \in 1 .. L
  BY <1>3, <1>4, <1>7
<1>8. ASSUME NEW j \in 1 .. m, j >= k, j < k + n
      PROVE  /\ h2[j] \in Piece /\ 2*j - k \in 1 .. L /\ 2*j - k + 1 \in 1 .. L
             /\ h2[j].id = h[2*j - k].id /\ h2[j].flag = h[2*j - k].flag
             /\ h2[j].size = h[2*j - k].size + h[2*j - k + 1].size
  <2>1. 2*j - k \in 1 .. L /\ 2*j - k + 1 \in 1 .. L
    BY <1>2, <1>3, <1>8
  <2>2. h2[j] = [h[2*j - k] EXCEPT !.size = @ + h[2*j - k + 1].size]
    BY <1>2, <1>4, <1>8
  <2>3. h[2*j - k] \in Piece /\ h[2*j - k + 1] \in Piece
    BY <1>5, <2>1
  <2>4. PICK a \in Piece, b \in Piece : a = h[2*j - k] /\ b = h[2*j - k + 1]
    BY <2>3
  <2>5. h2[j] = [a EXCEPT !.size = a.size + b.size]
    BY <2>2, <2>4
  <2>6. a.size \in Nat /\ b.size \in Nat
    BY DEF Piece
  <2>7. /\ h2[j] \in Piece /\ h2[j].id = a.id /\ h2[j].flag = a.flag
        /\ h2[j].size = a.size + b.size
    BY <2>5, <2>6, SMTT(30) DEF Piece
  <2> QED BY <2>1, <2>4, <2>7
<1>9. ASSUME NEW j \in 1 .. m, j >= k + n PROVE h2[j] = h[j + n] /\ j + n \in 1 .. L
  BY <1>2, <1>3, <1>4, <1>9, SMTT(30)
<1>10. h2 \in Seq(Piece) /\ Len(h2) = m
  <2>1. \A j \in 1 .. m : h2[j] \in Piece
    <3> TAKE j \in 1 .. m
    <3>1. j < k \/ (j >= k /\ j < k + n) \/ j >= k + n
      BY <1>2, <1>3
    <3>2. CASE j < k
      BY <1>5, <1>7, <3>2
    <3>3. CASE j >= k /\ j < k + n
      BY <1>8, <3>3
    <3>4. CASE j >= k + n
      BY <1>5, <1>9, <3>4
    <3> QED BY <3>1, <3>2, <3>3, <3>4
  <2>2. h2 = [j \in 1 .. m |-> h2[j]]
    BY <1>4
  <2> HIDE DEF m
  <2>3. h2 \in [1 .. m -> Piece]
    BY <2>1, <2>2
  <2>4. m \in Nat
    BY <1>6 DEF m
  <2> QED BY <2>3, <2>4
<1> DEFINE s == [j \in 1 .. m + 1 |-> IF j < k THEN j
                                      ELSE IF j < k + n THEN 2*j - k ELSE j + n]
<1>11. ASSUME NEW j \in 1 .. m + 1 PROVE s[j] \in 1 .. L + 1
  <2>1. CASE j < k
    <3>1. s[j] = j
      BY <2>1
    <3> HIDE DEF s
    <3> QED BY <1>2, <1>3, <2>1, <3>1
  <2>2. CASE ~(j < k) /\ j < k + n
    <3>1. s[j] = 2*j - k
      BY <2>2
    <3> HIDE DEF s
    <3> QED BY <1>2, <1>3, <2>2, <3>1
  <2>3. CASE ~(j < k) /\ ~(j < k + n)
    <3>1. s[j] = j + n
      BY <2>3
    <3> HIDE DEF s
    <3> QED BY <1>2, <1>3, <2>3, <3>1
  <2> QED BY <2>1, <2>2, <2>3
<1>12. s \in [1 .. m + 1 -> 1 .. L + 1] /\ s[1] = 1 /\ s[2] = 2 /\ s[m + 1] = L + 1
  <2>1. s \in [1 .. m + 1 -> 1 .. L + 1]
    BY <1>11
  <2>2. 1 \in 1 .. m + 1 /\ 2 \in 1 .. m + 1 /\ m + 1 \in 1 .. m + 1
    BY <1>6
  <2> QED BY <1>2, <1>3, <2>1, <2>2
<1>13. ASSUME NEW j \in 1 .. m
       PROVE  /\ s[j] \in 1 .. L
              /\ h2[j].id = h[s[j]].id /\ h2[j].flag = h[s[j]].flag
              /\ \/ s[j + 1] = s[j] + 1 /\ h2[j].size = h[s[j]].size
                 \/ /\ s[j + 1] = s[j] + 2 /\ s[j] + 1 \in 1 .. L
                    /\ h2[j].size = h[s[j]].size + h[s[j] + 1].size
  <2>1. j \in 1 .. m + 1 /\ j + 1 \in 1 .. m + 1
    BY <1>6
  <2>2. CASE j < k
    <3>1. s[j] = j /\ s[j + 1] = j + 1
      BY <1>2, <1>3, <2>1, <2>2
    <3> HIDE DEF s, m
    <3> QED BY <1>7, <2>2, <3>1
  <2>3. CASE j >= k /\ j < k + n
    <3>1. s[j] = 2*j - k /\ s[j + 1] = (2*j - k) + 2
      BY <1>2, <1>3, <2>1, <2>3
    <3> HIDE DEF s, m
    <3> QED BY <1>8, <2>3, <3>1
  <2>4. CASE j >= k + n
    <3>1. s[j] = j + n /\ s[j + 1] = (j + n) + 1
      BY <1>2, <1>3, <2>1, <2>4
    <3> HIDE DEF s, m
    <3> QED BY <1>9, <2>4, <3>1
  <2>5. j < k \/ (j >= k /\ j < k + n) \/ j >= k + n
    BY <1>2, <1>3
  <2> HIDE DEF s, m
  <2> QED BY <2>2, <2>3, <2>4, <2>5
<1>14. \A i, j \in 1 .. m : s[i] = s[j] => i = j
  <2> TAKE i, j \in 1 .. m
  <2>1. i \in 1 .. m + 1 /\ j \in 1 .. m + 1
    BY <1>6
  <2>2. s[i] = IF i < k THEN i ELSE IF i < k + n THEN 2*i - k ELSE i + n
    BY <2>1
  <2>3. s[j] = IF j < k THEN j ELSE IF j < k + n THEN 2*j - k ELSE j + n
    BY <2>1
  <2> HIDE DEF s
  <2>4. ASSUME s[i] = s[j] PROVE i = j
    <3>1. CASE i < k
      <4>1. s[i] = i /\ (s[j] = j \/ s[j] = 2*j - k \/ s[j] = j + n)
        BY <2>2, <2>3, <3>1
      <4>2. CASE j < k
        BY <2>3, <2>4, <4>1, <4>2
      <4>3. CASE ~(j < k) /\ j < k + n
        BY <1>2, <1>3, <2>3, <2>4, <3>1, <4>1, <4>3
      <4>4. CASE ~(j < k) /\ ~(j < k + n)
        BY <1>2, <1>3, <2>3, <2>4, <3>1, <4>1, <4>4
      <4> QED BY <4>2, <4>3, <4>4
    <3>2. CASE ~(i < k) /\ i < k + n
      <4>1. s[i] = 2*i - k
        BY <2>2, <3>2
      <4>2. CASE j < k
        BY <1>2, <1>3, <2>3, <2>4, <3>2, <4>1, <4>2, SMTT(30)
      <4>3. CASE ~(j < k) /\ j < k + n
        BY <1>2, <1>3, <2>3, <2>4, <3>2, <4>1, <4>3
      <4>4. CASE ~(j < k) /\ ~(j < k + n)
        BY <1>2, <1>3, <2>3, <2>4, <3>2, <4>1, <4>4
      <4> QED BY <4>2, <4>3, <4>4
    <3>3. CASE ~(i < k) /\ ~(i < k + n)
      <4>1. s[i] = i + n
        BY <2>2, <3>3
      <4>2. CASE j < k
        BY <1>2, <1>3, <2>3, <2>4, <3>3, <4>1, <4>2
      <4>3. CASE ~(j < k) /\ j < k + n
        BY <1>2, <1>3, <2>3, <2>4, <3>3, <4>1, <4>3
      <4>4. CASE ~(j < k) /\ ~(j < k + n)
        BY <1>2, <1>3, <2>3, <2>4, <3>3, <4>1, <4>4
      <4> QED BY <4>2, <4>3, <4>4
    <3> QED BY <3>1, <3>2, <3>3
  <2> QED BY <2>4
<1>15. ASSUME NEW l \in 2 .. L, h[l].flag = "USED"
       PROVE  \E j \in 2 .. m : s[j] = l
  <2>1. CASE l < k
    <3>1. l \in 2 .. m /\ l \in 1 .. m + 1
      BY <1>2, <1>3, <2>1
    <3>2. s[l] = l
      BY <2>1, <3>1
    <3> QED BY <3>1, <3>2
  <2>2. CASE l >= k + 2*n
    <3>1. l - n \in 2 .. m /\ l - n \in 1 .. m + 1 /\ ~(l - n < k) /\ ~(l - n < k + n)
          /\ (l - n) + n = l
      BY <1>2, <1>3, <2>2
    <3>2. s[l - n] = l
      BY <3>1
    <3> QED BY <3>1, <3>2
  <2>3. CASE l >= k /\ l < k + 2*n
    <3>1. PICK i \in 0 .. n - 1 : l = k + 2*i \/ l = k + 2*i + 1
      <4> DEFINE i == (l - k) \div 2
      <4>1. l - k \in Nat /\ l - k < 2*n
        BY <1>2, <1>3, <2>3
      <4>2. i \in 0 .. n - 1 /\ (l - k = 2*i \/ l - k = 2*i + 1)
        BY <1>3, <4>1
      <4> HIDE DEF i
      <4>3. l = k + 2*i \/ l = k + 2*i + 1
        BY <1>2, <4>2
      <4> QED BY <4>2, <4>3
    <3>2. l = k + 2*i
      BY <1>3, <1>15, <3>1
    <3>3. k + i \in 2 .. m /\ k + i \in 1 .. m + 1 /\ ~(k + i < k) /\ k + i < k + n
          /\ 2*(k + i) - k = l
      BY <1>2, <1>3, <3>2
    <3>4. s[k + i] = l
      BY <3>3
    <3> QED BY <3>3, <3>4
  <2>4. l < k \/ l >= k + 2*n \/ (l >= k /\ l < k + 2*n)
    BY <1>2, <1>3
  <2> HIDE DEF s, m
  <2> QED BY <2>1, <2>2, <2>3, <2>4
<1> HIDE DEF s, m
<1>16. m >= 2
  BY <1>6 DEF m
<1>17. Fused(h, h2, s)
  BY <1>1, <1>10, <1>12, <1>13, <1>14, <1>15, <1>16 DEF Fused
<1> QED BY <1>17 DEF h2

\* The blocks of r, which begin where g says, begin where blocks of h did.
Among(g, r, f, h) == \A j \in 1 .. Len(r) + 1 : \E i \in 1 .. Len(h) + 1 : g[j] = f[i]

LEMMA FusedAmong ==
    ASSUME NEW h, NEW f, NEW H, Sound(h, f, H), NEW r, \E s : Fused(h, r, s)
    PROVE  (\E g : Sound(r, g, H) /\ Among(g, r, f, h)) /\ r[1].size = h[1].size
<1>1. PICK s : Fused(h, r, s)
  OBVIOUS
<1> DEFINE g == [j \in 1 .. Len(r) + 1 |-> f[s[j]]]
<1>2. Sound(r, g, H) /\ r[1].size = h[1].size
  BY <1>1, FusedSound
<1>3. s \in [1 .. Len(r) + 1 -> 1 .. Len(h) + 1]
  BY <1>1 DEF Fused
<1>4. \A j \in 1 .. Len(r) + 1 : s[j] \in 1 .. Len(h) + 1 /\ g[j] = f[s[j]]
  BY <1>3
<1> HIDE DEF g
<1>5. Among(g, r, f, h)
  BY <1>4 DEF Among
<1> QED BY <1>2, <1>5

LEMMA MergeSound ==
    ASSUME NEW h, NEW f, NEW H, Sound(h, f, H),
           NEW k \in 2 .. Len(h), h[k].flag = "FREE"
    PROVE  /\ \E g : Sound(Merge(h, k), g, H) /\ Among(g, Merge(h, k), f, h)
           /\ Merge(h, k)[1].size = h[1].size
<1>1. PICK n \in Nat : n = Len(h) /\ n >= 2 /\ Table(h)
  BY DEF Sound, Table
<1>2. k \in 2 .. n
  BY <1>1
<1>3. CASE h[k - 1].flag = "FREE"
  <2> DEFINE b == MergeBehind(h, k)
  <2>1. k # 2
    BY <1>1, <1>3 DEF Table
  <2>2. k \in 3 .. Len(h)
    BY <1>1, <1>2, <2>1
  <2>3. (\E s : Fused(h, b, s)) /\ Len(b) = n - 1
    BY <1>1, <2>2, BehindFuses
  <2> HIDE DEF b
  <2>4. PICK f2 : Sound(b, f2, H) /\ Among(f2, b, f, h) /\ b[1].size = h[1].size
    BY <2>3, FusedAmong
  <2>5. k - 1 \in 2 .. Len(b)
    BY <1>1, <2>2, <2>3
  <2>6. \E s : Fused(b, MergeAfter(b, k - 1), s)
    BY <2>4, <2>5, AfterFuses DEF Sound
  <2>7. Merge(h, k) = MergeAfter(b, k - 1)
    BY <1>2, <1>3 DEF Merge, b
  <2> DEFINE r == MergeAfter(b, k - 1)
  <2> HIDE DEF r
  <2>8. (\E g : Sound(r, g, H) /\ Among(g, r, f2, b)) /\ r[1].size = b[1].size
    <3>1. (\E s : Fused(b, r, s)) /\ Sound(b, f2, H)
      BY <2>4, <2>6 DEF r
    <3> QED BY <3>1, FusedAmong
  <2>9. PICK g : Sound(r, g, H) /\ Among(g, r, f2, b)
    BY <2>8
  <2>10. Among(g, r, f, h)
    BY <2>4, <2>9 DEF Among
  <2> QED BY <2>4, <2>7, <2>8, <2>9, <2>10 DEF r
<1>4. CASE h[k - 1].flag # "FREE"
  <2>1. Merge(h, k) = MergeAfter(h, k)
    BY <1>4 DEF Merge
  <2>2. \E s : Fused(h, MergeAfter(h, k), s)
    BY <1>1, AfterFuses
  <2> QED BY <2>1, <2>2, FusedAmong
<1> QED BY <1>3, <1>4

\* free takes back the chunk it is given, and nothing else.
LEMMA FreeSound ==
    ASSUME NEW f, Sound(heap, f, held), NEW c \in held, Release(c.ptr)
    PROVE  /\ \E g : Sound(heap', g, held \ {c}) /\ Among(g, heap', f, heap)
           /\ heap'[1].size = heap[1].size
<1> DEFINE k == Min(Around(c.ptr))
           h == [heap EXCEPT ![k].flag = "FREE"]
<1>1. Around(c.ptr) # {} /\ k \in 2 .. Len(heap) /\ heap[k].flag = "USED" /\ f[k] = c.ptr
  BY FoundByFree
<1>2. heap' = Merge(h, k)
  BY <1>1 DEF Release
<1> HIDE DEF k
<1>3. PICK n \in Nat : n = Len(heap) /\ n >= 2 /\ heap \in Seq(Piece)
  BY DEF Sound, Table
<1>4. k \in 1 .. Len(heap) /\ k \in 1 .. n /\ "FREE" \in Flags
  BY <1>1, <1>3 DEF Flags
<1>5. h \in Seq(Piece) /\ FlaggedTo(h, heap, k, "FREE")
  BY <1>3, <1>4, Reflagged
<1> HIDE DEF h
<1>6. Len(h) = n /\ h[k].flag = "FREE" /\ h[1].size = heap[1].size
  <2>1. 1 \in 1 .. n
    BY <1>3
  <2> QED BY <1>3, <1>4, <1>5, <2>1 DEF FlaggedTo
<1>7. Sound(h, f, held \ {c})
  BY <1>1, <1>5, GivenBack
<1>8. k \in 2 .. Len(h)
  BY <1>1, <1>3, <1>6
<1> DEFINE r == Merge(h, k)
<1> HIDE DEF r
<1>9. (\E g : Sound(r, g, held \ {c}) /\ Among(g, r, f, h)) /\ r[1].size = h[1].size
  BY <1>6, <1>7, <1>8, MergeSound DEF r
<1>10. heap' = r
  BY <1>2 DEF r
<1>11. \E g : Sound(heap', g, held \ {c}) /\ Among(g, heap', f, heap)
  <2>1. \A g : Among(g, r, f, h) => Among(g, heap', f, heap)
    BY <1>3, <1>6, <1>10 DEF Among
  <2> QED BY <1>9, <1>10, <2>1
<1> QED BY <1>6, <1>9, <1>10, <1>11

-----------------------------------------------------------------------------
(* The invariant.                                                          *)

\* Descriptors and sizes are no bigger than the region.
LEMMA BlockTypes ==
    ASSUME NEW h, NEW f, Laid(h, f), Table(h)
    PROVE  h \in Seq(Block) /\ h # <<>>
<1>1. PICK n \in Nat : n = Len(h) /\ n >= 2 /\ h \in Seq(Piece)
  BY DEF Table
<1>2. h[1].size \in TableSizes /\ 1 \in 1 .. n /\ 1 \in 1 .. Len(h)
  BY <1>1 DEF Table
<1>3. Slots(h) \in Nat /\ Slots(h) <= h[1].size /\ h[1].size \in Nat
  BY <1>2, TableGrows DEF Slots
<1>4. h[1].size <= RegionSize
  BY <1>1, <1>2, InRegion
<1>5. ASSUME NEW j \in 1 .. n PROVE h[j] \in Block
  <2>1. h[j] \in Piece
    BY <1>1, ElementOf
  <2>2. h[j].size < Word
    BY <1>1, InRegion
  <2>3. h[j].id < Slots(h)
    BY <1>1 DEF Table
  <2>4. h[j].id \in 0 .. RegionSize /\ h[j].size \in 0 .. Word - 1
    BY <1>3, <1>4, <2>1, <2>2, <2>3, Constants DEF Piece
  <2> QED BY <2>1, <2>4 DEF Piece, Block
<1>6. h \in [1 .. n -> Block]
  BY <1>1, <1>5
<1> QED BY <1>1, <1>6

\* The loops find the blocks where they are.
LEMMA SoundStarts ==
    ASSUME NEW h, NEW f, NEW H, Sound(h, f, H)
    PROVE  Sound(h, Starts(h), H)
<1>1. h \in Seq(Piece) /\ Laid(h, f)
  BY DEF Sound, Table
<1>2. Starts(h) = f
  BY <1>1, FoundWhereLaid
<1> QED BY <1>2

\* What a failed create leaves of the list.
LEMMA CutShort ==
    ASSUME NEW h, NEW f, Laid(h, f), Table(h),
           NEW k \in 2 .. Len(h), NEW left \in Nat, left <= h[k].size
    PROVE  /\ CutAfter([h EXCEPT ![k].size = left], k) \in Seq(Block)
           /\ CutAfter([h EXCEPT ![k].size = left], k) # <<>>
           /\ CutAfter([h EXCEPT ![k].size = left], k)[1].size = h[1].size
           /\ TailOf([h EXCEPT ![k].size = left], k) \subseteq 0 .. RegionSize
<1> DEFINE cut == [h EXCEPT ![k].size = left]
           r == CutAfter(cut, k)
<1>1. PICK n \in Nat : n = Len(h) /\ n >= 2 /\ h \in Seq(Piece)
  BY DEF Table
<1>2. k \in 1 .. n /\ k \in 1 .. Len(h)
  BY <1>1
<1>3. cut \in Seq(Piece) /\ SizedTo(cut, h, k, left)
  BY <1>1, <1>2, Resized
<1> HIDE DEF cut
<1>4. /\ Len(cut) = n
      /\ \A j \in 1 .. n : cut[j].id = h[j].id /\ cut[j].flag = h[j].flag
                           /\ cut[j].size = IF j = k THEN left ELSE h[j].size
  BY <1>1, <1>3 DEF SizedTo
<1>5. \A j \in 1 .. n : h[j] \in Block /\ h[j] \in Piece
  BY <1>1, BlockTypes, ElementOf
<1>6. \A j \in 1 .. n : cut[j] \in Block
  <2> TAKE j \in 1 .. n
  <2>1. cut[j] \in Piece
    BY <1>3, <1>4, ElementOf
  <2>2. cut[j].size \in 0 .. Word - 1
    <3>1. h[j].size \in 0 .. Word - 1 /\ h[k].size \in 0 .. Word - 1
      BY <1>2, <1>5 DEF Block
    <3>2. left \in 0 .. Word - 1
      BY <3>1, Constants
    <3> QED BY <1>4, <3>1, <3>2
  <2> QED BY <1>4, <1>5, <2>1, <2>2 DEF Piece, Block
<1>7. /\ r \in Seq(Block) /\ Len(r) = k
      /\ \A j \in 1 .. k : r[j] = cut[j]
  <2>1. cut \in [1 .. n -> Block]
    BY <1>3, <1>4, <1>6
  <2>2. cut \in Seq(Block)
    BY <2>1
  <2> QED BY <1>2, <1>4, <2>2 DEF CutAfter
<1>8. r # <<>> /\ r[1].size = h[1].size
  <2>1. 1 \in 1 .. k /\ 1 # k /\ 1 \in 1 .. n
    BY <1>1
  <2> QED BY <1>4, <1>7, <2>1
<1>9. TailOf(cut, k) \subseteq 0 .. RegionSize
  BY <1>2, <1>4, <1>6 DEF TailOf, Block
<1> QED BY <1>7, <1>8, <1>9 DEF cut

\* A client has got a chunk that was nobody's.
Served(size) ==
    /\ faulted' = FALSE /\ lost' = {}
    /\ \E p : /\ ChunkAt(p, size) \in Chunk /\ Nobodys(p, held)
              /\ held' = held \cup {ChunkAt(p, size)}
    /\ \E f : Sound(heap', f, held')
    /\ heap[1].size <= heap'[1].size

\* alloc, as a step.
LEMMA AllocStep ==
    ASSUME Plain, StorageInv, NEW size \in Sizes, NEW align \in Aligns,
           CanAlloc(size, align), Allocated(Alloc(size, align), size)
    PROVE  \/ /\ faulted' = TRUE /\ held' = held
              /\ heap' \in Seq(Block) /\ heap' # <<>> /\ heap'[1].size = heap[1].size
              /\ lost' \subseteq 0 .. RegionSize
           \/ Served(size)
<1> DEFINE a == Alloc(size, align)
<1>1. ~faulted /\ lost = {} /\ Sound(heap, Starts(heap), held)
  BY DEF StorageInv, CanAlloc
<1>2. /\ heap' = a.heap /\ lost' = lost \cup a.lost /\ faulted' = ~a.ok
      /\ held' = IF a.ok THEN held \cup {[ptr |-> a.ptr, size |-> size]} ELSE held
  BY DEF Allocated
<1>3. \/ /\ ~a.ok
         /\ \E k \in 2 .. Len(heap), left \in Nat :
               LET cut == [heap EXCEPT ![k].size = left]
               IN  /\ left <= heap[k].size
                   /\ a.heap = CutAfter(cut, k) /\ a.lost = TailOf(cut, k)
      \/ /\ a.ok /\ a.lost = {}
         /\ ChunkAt(a.ptr, size) \in Chunk /\ Nobodys(a.ptr, held)
         /\ \E f2 : Sound(a.heap, f2, held \cup {ChunkAt(a.ptr, size)})
         /\ heap[1].size <= a.heap[1].size
  BY <1>1, AllocSound
<1> HIDE DEF a
<1>4. CASE ~a.ok
  <2>1. PICK k \in 2 .. Len(heap), left \in Nat :
           /\ left <= heap[k].size
           /\ a.heap = CutAfter([heap EXCEPT ![k].size = left], k)
           /\ a.lost = TailOf([heap EXCEPT ![k].size = left], k)
    BY <1>3, <1>4
  <2>2. Laid(heap, Starts(heap)) /\ Table(heap)
    BY <1>1 DEF Sound
  <2>3. /\ a.heap \in Seq(Block) /\ a.heap # <<>> /\ a.heap[1].size = heap[1].size
        /\ a.lost \subseteq 0 .. RegionSize
    <3>1. LET cut == [heap EXCEPT ![k].size = left]
          IN  /\ CutAfter(cut, k) \in Seq(Block) /\ CutAfter(cut, k) # <<>>
              /\ CutAfter(cut, k)[1].size = heap[1].size
              /\ TailOf(cut, k) \subseteq 0 .. RegionSize
      <4>1. left <= heap[k].size
        BY <2>1
      <4> QED BY <2>2, <4>1, CutShort, Zenon
    <3> QED BY <2>1, <3>1, Zenon
  <2>4. faulted' = TRUE /\ held' = held
    BY <1>2, <1>4
  <2> QED BY <1>1, <1>2, <2>3, <2>4
<1>5. CASE a.ok
  <2>1. held' = held \cup {ChunkAt(a.ptr, size)}
    BY <1>2, <1>5 DEF ChunkAt
  <2>2. faulted' = FALSE /\ lost' = {}
    BY <1>1, <1>2, <1>3, <1>5
  <2>3. \E f : Sound(heap', f, held')
    BY <1>2, <1>3, <1>5, <2>1
  <2> QED BY <1>2, <1>3, <1>5, <2>1, <2>2, <2>3 DEF Served
<1> QED BY <1>4, <1>5

LEMMA InitSound == Init => StorageInv
<1> SUFFICES ASSUME Init PROVE StorageInv
  OBVIOUS
<1> DEFINE t == Table0 * DescSize
           f == [j \in 1 .. 3 |-> IF j = 1 THEN Base
                                  ELSE IF j = 2 THEN Base + t ELSE Base + RegionSize]
           a == [id |-> 0, size |-> t, flag |-> "USED"]
           b == [id |-> 1, size |-> RegionSize - t, flag |-> "FREE"]
<1>1. t \in Nat /\ t < RegionSize
  BY Constants
<1>2. t \in TableSizes /\ t \div DescSize = Table0
  <2>1. Table0 = Table0 + 0 * Grow
    BY Constants
  <2>2. t \in TableSizes
    BY <2>1 DEF TableSizes
  <2> QED BY <2>2, Constants
<1>3. heap = <<a, b>>
  BY DEF Init
<1>4. a \in Piece /\ b \in Piece
  BY <1>1, Constants DEF Piece, Flags
<1>5. heap \in Seq(Piece) /\ Len(heap) = 2 /\ heap[1] = a /\ heap[2] = b
  BY <1>3, <1>4
<1>6. f \in [1 .. 3 -> Nat] /\ f[1] = Base /\ f[2] = Base + t /\ f[3] = Base + RegionSize
  BY <1>1, Constants
<1>7. \A k \in 1 .. 2 : k = 1 \/ k = 2
  OBVIOUS
<1>8. /\ heap[1].size = t /\ heap[1].flag = "USED" /\ heap[1].id = 0
      /\ heap[2].size = RegionSize - t /\ heap[2].flag = "FREE" /\ heap[2].id = 1
  BY <1>5
<1> HIDE DEF t, f, a, b
<1>9. Laid(heap, f)
  <2>1. f[1 + 1] = f[1] + heap[1].size /\ f[2 + 1] = f[2] + heap[2].size
    BY <1>1, <1>6, <1>8, Constants
  <2>2. \A k \in 1 .. 2 : f[k + 1] = f[k] + heap[k].size
    BY <1>7, <2>1
  <2> QED BY <1>5, <1>6, <2>2 DEF Laid
<1>10. Table(heap)
  <2>1. Slots(heap) = Table0
    BY <1>2, <1>8 DEF Slots
  <2>2. \A k \in 1 .. 2 : heap[k].id < Slots(heap)
    BY <1>7, <1>8, <2>1, Constants
  <2>3. \A k, l \in 1 .. 2 : heap[k].id = heap[l].id => k = l
    BY <1>7, <1>8
  <2> QED BY <1>2, <1>5, <1>8, <2>2, <2>3 DEF Table
<1>11. Given(heap, f, {})
  <2>1. \A k \in 2 .. 2 : k = 2
    OBVIOUS
  <2> QED BY <1>5, <1>8, <2>1 DEF Given
<1>12. Sound(heap, f, {})
  BY <1>9, <1>10, <1>11 DEF Sound
<1>13. Sound(heap, Starts(heap), {})
  BY <1>12, SoundStarts
<1> QED BY <1>13 DEF StorageInv, Init

\* Every step but an alloc that faults keeps the blocks sound; that one is the last.
LEMMA StorageStep == Plain /\ StorageInv /\ [Next]_vars => StorageInv'
<1> SUFFICES ASSUME Plain, StorageInv, [Next]_vars PROVE StorageInv'
  OBVIOUS
<1>1. moving \subseteq held
  BY DEF StorageInv
<1>2. ASSUME NEW size \in Sizes, NEW align \in Aligns, CanAlloc(size, align),
             Allocated(Alloc(size, align), size), moving' \subseteq held
      PROVE  StorageInv'
  <2>1. CASE /\ faulted' = TRUE /\ held' = held
             /\ heap' \in Seq(Block) /\ heap' # <<>> /\ heap'[1].size = heap[1].size
             /\ lost' \subseteq 0 .. RegionSize
    <3>1. held \subseteq Chunk
      BY <1>2 DEF StorageInv, CanAlloc, Sound, Given
    <3> QED BY <1>2, <2>1, <3>1 DEF StorageInv
  <2>2. CASE Served(size)
    <3>1. Sound(heap', Starts(heap'), held')
      BY <2>2, SoundStarts DEF Served
    <3>2. moving' \subseteq held'
      BY <1>2, <2>2 DEF Served
    <3> QED BY <2>2, <3>1, <3>2 DEF StorageInv, Served
  <2> QED BY <1>2, <2>1, <2>2, AllocStep
<1>3. ASSUME NEW c \in held, ~faulted, Release(c.ptr), held' = held \ {c},
             UNCHANGED <<lost, faulted>>, moving' \subseteq held'
      PROVE  StorageInv'
  <2>1. lost = {} /\ Sound(heap, Starts(heap), held)
    BY <1>3 DEF StorageInv
  <2>2. \E f : Sound(heap', f, held \ {c})
    BY <1>3, <2>1, FreeSound
  <2>3. Sound(heap', Starts(heap'), held')
    BY <1>3, <2>2, SoundStarts
  <2>4. faulted' \in BOOLEAN /\ ~faulted' /\ lost' = {}
    BY <1>3, <2>1 DEF StorageInv
  <2> QED BY <1>3, <2>3, <2>4 DEF StorageInv
<1>4. ASSUME NEW size \in Sizes, NEW align \in Aligns, Allocate(size, align)
      PROVE  StorageInv'
  BY <1>1, <1>2, <1>4 DEF Allocate
<1>5. ASSUME NEW c \in held \ moving, Free(c) PROVE StorageInv'
  <2>1. moving' \subseteq held'
    BY <1>1, <1>5 DEF Free
  <2> QED BY <1>3, <1>5, <2>1 DEF Free
<1>6. ASSUME NEW c \in held \ moving, NEW size \in Sizes, NEW align \in Aligns,
             Reallocate(c, size, align)
      PROVE  StorageInv'
  <2>1. size # heap[1].size
    <3>1. heap[1].size \in TableSizes
      BY <1>6 DEF Reallocate, StorageInv, Sound, Table
    <3> QED BY <3>1 DEF Plain
  <2>2. CanAlloc(size, align) /\ Allocated(Alloc(size, align), size)
        /\ moving' = IF faulted' THEN moving ELSE moving \cup {c}
    BY <1>6, <2>1 DEF Reallocate
  <2>3. moving' \subseteq held
    BY <1>1, <2>2
  <2> QED BY <1>2, <2>2, <2>3
<1>7. ASSUME NEW c \in moving, ReallocDrop(c) PROVE StorageInv'
  <2>1. moving' \subseteq held'
    BY <1>1, <1>7 DEF ReallocDrop
  <2> QED BY <1>1, <1>3, <1>7, <2>1 DEF ReallocDrop
<1>8. CASE UNCHANGED vars
  BY <1>8 DEF vars, StorageInv
<1> QED BY <1>4, <1>5, <1>6, <1>7, <1>8 DEF Next

LEMMA StorageHolds == Plain /\ Spec => []StorageInv
<1>1. Plain /\ StorageInv /\ [Next]_vars => StorageInv'
  BY StorageStep
<1> SUFFICES ASSUME Plain PROVE Spec => []StorageInv
  OBVIOUS
<1>2. StorageInv /\ [Next]_vars => StorageInv'
  BY <1>1
<1> QED BY <1>2, InitSound, PTL DEF Spec

-----------------------------------------------------------------------------
(* The theorems.                                                           *)

LEMMA InvTypes == StorageInv => TypeOK
<1> SUFFICES ASSUME StorageInv PROVE TypeOK
  OBVIOUS
<1>1. CASE faulted
  BY <1>1 DEF StorageInv, TypeOK
<1>2. CASE ~faulted
  <2>1. lost = {} /\ Sound(heap, Starts(heap), held) /\ faulted \in BOOLEAN
        /\ moving \subseteq held
    BY <1>2 DEF StorageInv
  <2>2. heap \in Seq(Block) /\ heap # <<>>
    BY <2>1, BlockTypes DEF Sound
  <2>3. held \subseteq Chunk
    BY <2>1 DEF Sound, Given
  <2> QED BY <2>1, <2>2, <2>3 DEF TypeOK
<1> QED BY <1>1, <1>2

\* Blocks, descriptors and chunks keep their types, whatever clients that ask
\* for no alignment do (struct block, real.hxx; alloc and free, real.cxx).
THEOREM TypeCorrect == Plain => (Spec => []TypeOK)
BY InvTypes, StorageHolds, PTL

LEMMA InvSizes == StorageInv => SizesAddUp
<1> SUFFICES ASSUME StorageInv, ~faulted
             PROVE  Start(heap, Len(heap) + 1) = Base + RegionSize
  BY DEF SizesAddUp
<1>1. Laid(heap, Starts(heap)) /\ heap \in Seq(Piece) /\ Len(heap) \in Nat
  BY DEF StorageInv, Sound, Table
<1>2. Len(heap) + 1 \in 1 .. Len(heap) + 1
  BY <1>1
<1>3. Start(heap, Len(heap) + 1) = Starts(heap)[Len(heap) + 1]
  BY <1>1, <1>2, FoundWhereLaid
<1> QED BY <1>1, <1>3 DEF Laid

\* check_heap (real.cxx): the sizes on the list add up to the region's, after
\* any number of cuts, fusions and growths of the table.
THEOREM SizesAlwaysAddUp == Plain => (Spec => []SizesAddUp)
BY InvSizes, StorageHolds, PTL

LEMMA InvUsed == StorageInv => UsedIsHeld
<1> SUFFICES ASSUME StorageInv, ~faulted PROVE UsedIsHeld
  BY DEF UsedIsHeld
<1> DEFINE Used == {k \in DOMAIN heap : k # 1 /\ heap[k].flag = "USED"}
<1>1. Sound(heap, Starts(heap), held)
  BY DEF StorageInv
<1>2. PICK n \in Nat : n = Len(heap) /\ n >= 2 /\ heap \in Seq(Piece)
                       /\ Laid(heap, Starts(heap))
  BY <1>1 DEF Sound, Table
<1>3. Used = {k \in 2 .. n : heap[k].flag = "USED"}
  <2>1. DOMAIN heap = 1 .. n
    BY <1>2
  <2>2. \A k : (k \in 1 .. n /\ k # 1) <=> k \in 2 .. n
    BY <1>2
  <2> QED BY <2>1, <2>2
<1>4. \A k \in 2 .. n : Start(heap, k) = Starts(heap)[k]
  <2> TAKE k \in 2 .. n
  <2>1. k \in 1 .. Len(heap) + 1
    BY <1>2
  <2> QED BY <1>2, <2>1, FoundWhereLaid
<1> DEFINE f == Starts(heap)
<1> HIDE DEF Used, f
<1>5. /\ \A c \in held : \E k \in 2 .. n :
            heap[k].flag = "USED" /\ f[k] = c.ptr /\ heap[k].size >= c.size
      /\ \A k \in 2 .. n :
            heap[k].flag = "USED" => \E c \in held : f[k] = c.ptr /\ heap[k].size >= c.size
  BY <1>1, <1>2 DEF Sound, Given, f
<1>6. \A c \in held : \E k \in Used : Start(heap, k) = c.ptr /\ heap[k].size >= c.size
  BY <1>3, <1>4, <1>5 DEF f
<1>7. \A k \in Used : \E c \in held : Start(heap, k) = c.ptr
  BY <1>3, <1>4, <1>5 DEF f
<1> QED BY <1>6, <1>7 DEF UsedIsHeld, Used

\* alloc and free (real.cxx): a block is in use exactly where a client has a
\* chunk; nothing leaks and nothing is given back that somebody still has.
THEOREM UsedIsAlwaysHeld == Plain => (Spec => []UsedIsHeld)
BY InvUsed, StorageHolds, PTL

-----------------------------------------------------------------------------
(* What real_storage promises.                                             *)

LEMMA TableInRegion ==
    ASSUME NEW h, NEW f, NEW H, Sound(h, f, H)
    PROVE  h[1].size \in Nat /\ h[1].size <= RegionSize
<1>1. h \in Seq(Piece) /\ Laid(h, f) /\ Len(h) >= 2 /\ h[1].size \in TableSizes
  BY DEF Sound, Table
<1>2. 1 \in 1 .. Len(h)
  BY <1>1
<1> QED BY <1>1, <1>2, InRegion, TableGrows

\* An alloc that does not fault is one the promise allows.
LEMMA ServedPromised ==
    ASSUME StorageInv, ~faulted, NEW size \in Sizes, Served(size)
    PROVE  Promise!Alloc
<1>1. Sound(heap, Starts(heap), held)
  BY DEF StorageInv
<1>2. PICK p : ChunkAt(p, size) \in Chunk /\ Nobodys(p, held)
               /\ held' = held \cup {ChunkAt(p, size)}
  BY DEF Served
<1>3. PICK f : Sound(heap', f, held')
  BY DEF Served
<1> DEFINE c == ChunkAt(p, size)
           r == Base + heap'[1].size
<1>4. \A d \in held : c # d
  BY <1>2 DEF Nobodys, ChunkAt
<1> HIDE DEF c
<1>5. /\ \A d, e \in held' : d # e => Promise!Disjoint(d, e)
      /\ \A d \in held' : Promise!Within(d, r) /\ d \in Promise!Chunk
  BY <1>3, ChunksApart
<1>6. held' = held \cup {c}
  BY <1>2 DEF c
<1>7. c \in Promise!Chunk /\ \A d \in held : Promise!Disjoint(c, d)
  BY <1>4, <1>5, <1>6
<1>8. r \in Base + heap[1].size .. Base + RegionSize
  <2>1. heap[1].size \in Nat /\ heap'[1].size \in Nat /\ heap'[1].size <= RegionSize
    BY <1>1, <1>3, TableInRegion
  <2> QED BY <2>1, Constants DEF Served
<1>9. (Base + heap[1].size)' = r
  OBVIOUS
<1> HIDE DEF r
<1> QED BY <1>5, <1>6, <1>7, <1>8, <1>9 DEF Promise!Alloc

\* So is a free.
LEMMA FreePromised ==
    ASSUME StorageInv, ~faulted, NEW c \in held, Release(c.ptr), held' = held \ {c}
    PROVE  Promise!Free
<1>1. Sound(heap, Starts(heap), held)
  BY DEF StorageInv
<1>2. heap'[1].size = heap[1].size
  BY <1>1, FreeSound
<1> QED BY <1>2 DEF Promise!Free

LEMMA AllocPromised ==
    ASSUME Plain, StorageInv, NEW size \in Sizes, NEW align \in Aligns,
           CanAlloc(size, align), Allocated(Alloc(size, align), size)
    PROVE  Promise!Alloc \/ UNCHANGED Promise!vars
<1>1. ~faulted
  BY DEF CanAlloc
<1>2. CASE held' = held /\ heap'[1].size = heap[1].size
  BY <1>2 DEF Promise!vars
<1> QED BY <1>1, <1>2, AllocStep, ServedPromised

LEMMA StepPromised == Plain /\ StorageInv /\ [Next]_vars => [Promise!Next]_Promise!vars
<1> SUFFICES ASSUME Plain, StorageInv, [Next]_vars
             PROVE  Promise!Next \/ UNCHANGED Promise!vars
  BY DEF Promise!vars
<1>1. ASSUME NEW size \in Sizes, NEW align \in Aligns, Allocate(size, align)
      PROVE  Promise!Alloc \/ UNCHANGED Promise!vars
  BY <1>1, AllocPromised DEF Allocate
<1>2. ASSUME NEW c \in held \ moving, Free(c) PROVE Promise!Free
  BY <1>2, FreePromised DEF Free
<1>3. ASSUME NEW c \in held \ moving, NEW size \in Sizes, NEW align \in Aligns,
             Reallocate(c, size, align)
      PROVE  Promise!Alloc \/ UNCHANGED Promise!vars
  <2>1. size # heap[1].size
    <3>1. heap[1].size \in TableSizes
      BY <1>3 DEF Reallocate, StorageInv, Sound, Table
    <3> QED BY <3>1 DEF Plain
  <2>2. CanAlloc(size, align) /\ Allocated(Alloc(size, align), size)
    BY <1>3, <2>1 DEF Reallocate
  <2> QED BY <2>2, AllocPromised
<1>4. ASSUME NEW c \in moving, ReallocDrop(c) PROVE Promise!Free
  <2>1. c \in held
    BY DEF StorageInv
  <2> QED BY <1>4, <2>1, FreePromised DEF ReallocDrop
<1>5. CASE UNCHANGED vars
  BY <1>5 DEF vars, Promise!vars
<1> QED BY <1>1, <1>2, <1>3, <1>4, <1>5 DEF Next, Promise!Next

LEMMA InitPromised == Init => Promise!Init
<1> SUFFICES ASSUME Init PROVE Promise!Init
  OBVIOUS
<1>1. Sound(heap, Starts(heap), held)
  BY InitSound DEF StorageInv, Init
<1>2. heap[1].size \in Nat /\ heap[1].size <= RegionSize
  BY <1>1, TableInRegion
<1> QED BY <1>2, Constants DEF Init, Promise!Init

\* real_storage implements Allocator: every alloc hands out storage that is
\* nobody's, the table grows only over storage that no client has, and a
\* realloc is an alloc and a free with whatever comes between.
THEOREM PromiseIsKept == Plain => (Spec => KeepsPromise)
<1>1. Init => Promise!Init
  BY InitPromised
<1> SUFFICES ASSUME Plain PROVE Spec => KeepsPromise
  OBVIOUS
<1>2. StorageInv /\ [Next]_vars => [Promise!Next]_Promise!vars
  BY StepPromised
<1>3. Spec => []StorageInv
  BY StorageHolds
<1> QED BY <1>1, <1>2, <1>3, PTL DEF Spec, KeepsPromise, Promise!Spec

\* So no two clients ever share storage, and none has the table's.
COROLLARY ClientsApart == Plain => (Spec => []Promise!Apart)
<1>1. Promise!Spec => []Promise!Apart
  BY Promise!PromiseKeepsApart
<1> QED BY <1>1, PromiseIsKept, PTL DEF KeepsPromise

-----------------------------------------------------------------------------
(* Coalescence, for every client.  Where blocks begin and how big they are *)
(* is of no importance here, only their order and their flags are.         *)

Listed == [id : Int, size : Int, flag : Flags]

\* No two neighbouring blocks of h are free.
Whole(h) == \A k \in 1 .. Len(h) - 1 : ~(h[k].flag = "FREE" /\ h[k + 1].flag = "FREE")

WholeInv == heap \in Seq(Listed) /\ Whole(heap)

\* h has the flags of r.
SameFlags(r, h) == Len(r) = Len(h) /\ \A j \in 1 .. Len(h) : r[j].flag = h[j].flag

\* h with a block of that flag after the k-th.
FlagAdded(r, h, k, flag) ==
    /\ Len(r) = Len(h) + 1
    /\ \A j \in 1 .. Len(h) + 1 :
          r[j].flag = IF j <= k THEN h[j].flag
                      ELSE IF j = k + 1 THEN flag ELSE h[j - 1].flag

\* h with that flag on the k-th block.
FlagSet(r, h, k, flag) ==
    /\ Len(r) = Len(h)
    /\ \A j \in 1 .. Len(h) : r[j].flag = IF j = k THEN flag ELSE h[j].flag

LEMMA ListedSizes ==
    ASSUME NEW h \in Seq(Listed), NEW k, NEW size, k \in 1 .. Len(h) => size \in Int
    PROVE  /\ [h EXCEPT ![k].size = size] \in Seq(Listed)
           /\ SameFlags([h EXCEPT ![k].size = size], h)
<1> DEFINE h2 == [h EXCEPT ![k].size = size]
<1>1. \A j \in 1 .. Len(h) : h[j] \in Listed
  BY ElementOf
<1>2. CASE k \in 1 .. Len(h)
  <2> DEFINE r == [h[k] EXCEPT !.size = size]
  <2>1. r \in Listed /\ r.flag = h[k].flag
    BY <1>1, <1>2 DEF Listed
  <2>2. h2 = [h EXCEPT ![k] = r]
    OBVIOUS
  <2> HIDE DEF r, h2
  <2>3. h2 \in Seq(Listed) /\ Len(h2) = Len(h)
    BY <1>2, <2>1, <2>2
  <2>4. \A j \in 1 .. Len(h) : h2[j] = IF j = k THEN r ELSE h[j]
    BY <2>2
  <2>5. SameFlags(h2, h)
    BY <2>1, <2>3, <2>4 DEF SameFlags
  <2> QED BY <2>3, <2>5 DEF h2
<1>3. CASE ~(k \in 1 .. Len(h))
  <2>1. h2 = h
    BY <1>3
  <2>2. SameFlags(h, h)
    BY DEF SameFlags
  <2> QED BY <2>1, <2>2
<1> QED BY <1>2, <1>3

LEMMA ListedFlags ==
    ASSUME NEW h \in Seq(Listed), NEW k \in 1 .. Len(h), NEW flag \in Flags
    PROVE  /\ [h EXCEPT ![k].flag = flag] \in Seq(Listed)
           /\ FlagSet([h EXCEPT ![k].flag = flag], h, k, flag)
<1> DEFINE h2 == [h EXCEPT ![k].flag = flag]
           r == [h[k] EXCEPT !.flag = flag]
<1>1. h[k] \in Listed
  BY ElementOf
<1>2. r \in Listed /\ r.flag = flag
  BY <1>1 DEF Listed
<1>3. h2 = [h EXCEPT ![k] = r]
  OBVIOUS
<1> HIDE DEF r, h2
<1>4. h2 \in Seq(Listed) /\ Len(h2) = Len(h)
  BY <1>2, <1>3
<1>5. \A j \in 1 .. Len(h) : h2[j] = IF j = k THEN r ELSE h[j]
  BY <1>3
<1>6. FlagSet(h2, h, k, flag)
  BY <1>2, <1>4, <1>5 DEF FlagSet
<1> QED BY <1>4, <1>6 DEF h2

\* Whatever descriptor it finds, and however the table grows for it.
LEMMA CreateAdds ==
    ASSUME NEW h \in Seq(Listed), NEW k \in 1 .. Len(h), NEW size \in Int, NEW flag \in Flags
    PROVE  /\ CreateAfter(h, k, size, flag) \in Seq(Listed)
           /\ FlagAdded(CreateAfter(h, k, size, flag), h, k, flag)
<1> DEFINE id == IF Unused(h) # {} THEN Min(Unused(h)) ELSE Slots(h)
           b == IF Unused(h) # {} THEN h ELSE Grown(h)
           e == [id |-> id, size |-> size, flag |-> flag]
           h2 == InsertAt(b, k + 1, e)
<1>1. PICK n \in Nat : n = Len(h)
  OBVIOUS
<1>2. \A j \in 1 .. n : h[j] \in Listed
  BY <1>1, ElementOf
<1>3. k \in 1 .. n /\ 1 \in 1 .. n
  BY <1>1
<1>4. Slots(h) \in Int
  BY <1>2, <1>3, Constants, SMTT(30) DEF Slots, Listed
<1>5. Unused(h) \in SUBSET Nat
  BY <1>4 DEF Unused
<1>6. id \in Int
  <2>1. CASE Unused(h) # {}
    BY <1>5, <2>1, MinIsLeast
  <2> QED BY <1>4, <2>1
<1>7. e \in Listed /\ e.flag = flag
  BY <1>6 DEF Listed
<1>8. b \in Seq(Listed) /\ SameFlags(b, h)
  <2>1. SameFlags(h, h)
    BY DEF SameFlags
  <2>2. Grown(h) \in Seq(Listed) /\ SameFlags(Grown(h), h)
    <3> DEFINE l == Behind(h)
    <3>1. PICK x, y : /\ x \in Int /\ (l \in 1 .. n => y \in Int)
                      /\ Grown(h) = [h EXCEPT ![1].size = x, ![l].size = y]
      <4>1. Grow * DescSize \in Int
        BY Constants
      <4>2. h[1].size + Grow * DescSize \in Int
        BY <1>2, <1>3, <4>1, SMTT(30) DEF Listed
      <4>3. l \in 1 .. n => h[l].size - Grow * DescSize \in Int
        BY <1>2, <4>1, SMTT(30) DEF Listed
      <4> QED BY <4>2, <4>3, Zenon DEF Grown
    <3> HIDE DEF l
    <3> DEFINE a == [h EXCEPT ![1].size = x]
    <3>2. Grown(h) = [a EXCEPT ![l].size = y]
      <4>1. CASE l = 1
        BY <1>2, <1>3, <3>1, <4>1 DEF Listed
      <4>2. CASE l # 1
        BY <3>1, <4>2
      <4> QED BY <4>1, <4>2
    <3>3. a \in Seq(Listed) /\ SameFlags(a, h)
      BY <3>1, ListedSizes
    <3> HIDE DEF a
    <3>4. l \in 1 .. Len(a) => y \in Int
      BY <1>1, <3>1, <3>3 DEF SameFlags
    <3>5. /\ [a EXCEPT ![l].size = y] \in Seq(Listed)
          /\ SameFlags([a EXCEPT ![l].size = y], a)
      BY <3>3, <3>4, ListedSizes, Zenon
    <3>6. Grown(h) \in Seq(Listed) /\ SameFlags(Grown(h), a)
      BY <3>2, <3>5, Zenon
    <3> QED BY <3>3, <3>6 DEF SameFlags
  <2> QED BY <2>1, <2>2
<1>9. CreateAfter(h, k, size, flag) = h2
  BY DEF CreateAfter
<1> HIDE DEF b, e
<1>10. Len(b) = n /\ \A j \in 1 .. n : b[j].flag = h[j].flag
  BY <1>1, <1>8 DEF SameFlags
<1>11. k + 1 \in 1 .. Len(b) + 1
  BY <1>3, <1>10
<1>12. h2 \in Seq(Listed) /\ InsertedTo(h2, b, k + 1, e)
  BY <1>7, <1>8, <1>11, Inserted
<1> HIDE DEF h2
<1>13. /\ Len(h2) = n + 1
       /\ \A j \in 1 .. n + 1 :
             h2[j] = IF j < k + 1 THEN b[j] ELSE IF j = k + 1 THEN e ELSE b[j - 1]
  BY <1>10, <1>12 DEF InsertedTo
<1>14. ASSUME NEW j \in 1 .. n + 1
       PROVE  h2[j].flag = IF j <= k THEN h[j].flag
                           ELSE IF j = k + 1 THEN flag ELSE h[j - 1].flag
  <2>1. CASE j <= k
    <3>1. h2[j] = b[j] /\ j \in 1 .. n
      BY <1>3, <1>13, <2>1
    <3> QED BY <1>10, <2>1, <3>1
  <2>2. CASE j = k + 1
    <3>1. h2[j] = e /\ ~(j <= k)
      BY <1>3, <1>13, <2>2
    <3> QED BY <1>7, <2>2, <3>1
  <2>3. CASE j > k + 1
    <3>1. h2[j] = b[j - 1] /\ j - 1 \in 1 .. n /\ ~(j <= k) /\ j # k + 1
      BY <1>3, <1>13, <2>3
    <3> QED BY <1>10, <3>1
  <2> QED BY <1>3, <2>1, <2>2, <2>3
<1>15. FlagAdded(h2, h, k, flag)
  BY <1>1, <1>13, <1>14 DEF FlagAdded
<1> QED BY <1>9, <1>12, <1>15

\* The chunk's block is the at-th of h, behind which none is free.
Fenced(h, at) ==
    /\ h \in Seq(Listed) /\ at \in 1 .. Len(h) /\ Whole(h)
    /\ at + 1 <= Len(h) => h[at + 1].flag # "FREE"

LEMMA FlagSetWhole ==
    ASSUME NEW h, NEW at, Fenced(h, at), NEW r, FlagSet(r, h, at, "USED")
    PROVE  Whole(r)
<1>1. PICK n \in Nat : n = Len(h) /\ Len(r) = n
  BY DEF Fenced, FlagSet
<1>2. \A j \in 1 .. n : r[j].flag = IF j = at THEN "USED" ELSE h[j].flag
  BY <1>1 DEF FlagSet
<1>3. ASSUME NEW j \in 1 .. n - 1, r[j].flag = "FREE", r[j + 1].flag = "FREE" PROVE FALSE
  <2>1. j \in 1 .. n /\ j + 1 \in 1 .. n
    BY <1>1
  <2>2. h[j].flag = "FREE" /\ h[j + 1].flag = "FREE"
    BY <1>2, <1>3, <2>1
  <2> QED BY <1>1, <2>2 DEF Fenced, Whole
<1> QED BY <1>1, <1>3 DEF Whole

\* It is cut on its right, or not at all.
LEMMA RightWhole ==
    ASSUME NEW h, NEW at, Fenced(h, at), NEW right \in Int
    PROVE  /\ [SplitRight(h, at, right) EXCEPT ![at].flag = "USED"] \in Seq(Listed)
           /\ Whole([SplitRight(h, at, right) EXCEPT ![at].flag = "USED"])
<1> DEFINE made == IF CanCreate(h) THEN CreateAfter(h, at, right, "FREE") ELSE CutAfter(h, at)
           size == (made[at].size - right) % Word
           done == [made EXCEPT ![at].size = size]
           r == [done EXCEPT ![at].flag = "USED"]
<1>1. PICK n \in Nat : n = Len(h) /\ h \in Seq(Listed) /\ at \in 1 .. n
  BY DEF Fenced
<1>2. SplitRight(h, at, right) = done
  BY DEF SplitRight
<1>3. "FREE" \in Flags /\ "USED" \in Flags
  BY DEF Flags
<1>4. /\ made \in Seq(Listed) /\ at \in 1 .. Len(made)
      /\ \/ FlagAdded(made, h, at, "FREE")
         \/ Len(made) = at /\ \A j \in 1 .. at : made[j].flag = h[j].flag
  <2>1. CASE CanCreate(h)
    <3>1. made = CreateAfter(h, at, right, "FREE")
      BY <2>1
    <3>2. made \in Seq(Listed) /\ FlagAdded(made, h, at, "FREE")
      BY <1>1, <1>3, <3>1, CreateAdds
    <3> HIDE DEF made
    <3>3. Len(made) = n + 1
      BY <1>1, <3>2 DEF FlagAdded
    <3> QED BY <1>1, <3>2, <3>3
  <2>2. CASE ~CanCreate(h)
    <3>1. made = SubSeq(h, 1, at)
      BY <2>2 DEF CutAfter
    <3>2. made \in Seq(Listed) /\ Len(made) = at /\ \A j \in 1 .. at : made[j] = h[j]
      BY <1>1, <3>1
    <3> HIDE DEF made
    <3> QED BY <1>1, <3>2
  <2> QED BY <2>1, <2>2
<1> HIDE DEF made
<1>5. size \in Int
  <2>1. made[at] \in Listed
    BY <1>4, ElementOf
  <2>2. made[at].size - right \in Int
    BY <2>1 DEF Listed
  <2>3. Word \in Nat /\ Word > 0
    BY Constants
  <2> QED BY <2>2, <2>3
<1> HIDE DEF size
<1>6. done \in Seq(Listed) /\ SameFlags(done, made)
  BY <1>4, <1>5, ListedSizes
<1> HIDE DEF done
<1>7. at \in 1 .. Len(done)
  BY <1>4, <1>6 DEF SameFlags
<1>8. r \in Seq(Listed) /\ FlagSet(r, done, at, "USED")
  BY <1>3, <1>6, <1>7, ListedFlags
<1> HIDE DEF r
<1>9. PICK m \in Nat : m = Len(made)
  BY <1>4
<1>10. /\ Len(r) = m
       /\ \A j \in 1 .. m : r[j].flag = IF j = at THEN "USED" ELSE made[j].flag
  BY <1>6, <1>8, <1>9 DEF FlagSet, SameFlags
<1>11. ASSUME NEW j \in 1 .. m - 1, r[j].flag = "FREE", r[j + 1].flag = "FREE" PROVE FALSE
  <2>1. j \in 1 .. m /\ j + 1 \in 1 .. m
    BY <1>9
  <2>2. j # at /\ j + 1 # at /\ made[j].flag = "FREE" /\ made[j + 1].flag = "FREE"
    BY <1>10, <1>11, <2>1
  <2>3. CASE FlagAdded(made, h, at, "FREE")
    <3>1. /\ m = n + 1
          /\ \A i \in 1 .. n + 1 :
                made[i].flag = IF i <= at THEN h[i].flag
                               ELSE IF i = at + 1 THEN "FREE" ELSE h[i - 1].flag
      BY <1>1, <1>9, <2>3 DEF FlagAdded
    <3>2. CASE j < at
      <4>1. h[j].flag = "FREE" /\ h[j + 1].flag = "FREE" /\ j \in 1 .. n - 1
        BY <1>1, <2>1, <2>2, <3>1, <3>2
      <4> QED BY <1>1, <4>1 DEF Fenced, Whole
    <3>3. CASE j = at + 1
      <4>1. ~(j + 1 <= at) /\ j + 1 # at + 1 /\ (j + 1) - 1 = at + 1 /\ at + 1 <= n
        BY <1>1, <2>1, <3>1, <3>3
      <4>2. made[j + 1].flag = h[(j + 1) - 1].flag
        BY <2>1, <3>1, <4>1
      <4>3. h[at + 1].flag = "FREE"
        BY <2>2, <4>1, <4>2
      <4> QED BY <1>1, <4>1, <4>3 DEF Fenced
    <3>4. CASE j > at + 1
      <4>1. /\ ~(j <= at) /\ j # at + 1 /\ ~(j + 1 <= at) /\ j + 1 # at + 1
            /\ (j + 1) - 1 = (j - 1) + 1 /\ j - 1 \in 1 .. n - 1
        BY <1>1, <2>1, <3>1, <3>4
      <4>2. made[j].flag = h[j - 1].flag /\ made[j + 1].flag = h[(j - 1) + 1].flag
        BY <2>1, <3>1, <4>1
      <4> QED BY <1>1, <2>2, <4>1, <4>2 DEF Fenced, Whole
    <3> QED BY <1>1, <2>1, <2>2, <3>2, <3>3, <3>4
  <2>4. CASE Len(made) = at /\ \A i \in 1 .. at : made[i].flag = h[i].flag
    <3>1. h[j].flag = "FREE" /\ h[j + 1].flag = "FREE" /\ j \in 1 .. n - 1
      BY <1>1, <1>9, <2>1, <2>2, <2>4
    <3> QED BY <1>1, <3>1 DEF Fenced, Whole
  <2> QED BY <1>4, <2>3, <2>4
<1>12. Whole(r)
  BY <1>10, <1>11 DEF Whole
<1> QED BY <1>2, <1>8, <1>12 DEF r

\* Where the loops find a block is a number.

\* Where the loops find a block is a number.
LEMMA StartIsNumber ==
    ASSUME NEW h \in Seq(Listed), NEW k \in 1 .. Len(h) + 1
    PROVE  Start(h, k) \in Nat
<1> DEFINE Sums(s) == s = [i \in 0 .. Len(h) |->
                            IF i = 0 THEN Base ELSE (s[i - 1] + h[i].size) % Word]
           sum == CHOOSE s : Sums(s)
           Upto(m, s) == /\ s \in [0 .. m -> Nat] /\ s[0] = Base
                         /\ \A i \in 1 .. m : s[i] = (s[i - 1] + h[i].size) % Word
           P == {m \in 0 .. Len(h) : \E s : Upto(m, s)}
<1>1. Len(h) \in Nat /\ Base \in Nat /\ Word \in Nat /\ Word > 0
  BY Constants
<1>2. ASSUME NEW i \in 1 .. Len(h), NEW x \in Nat PROVE (x + h[i].size) % Word \in Nat
  <2>1. h[i] \in Listed
    BY ElementOf
  <2>2. x + h[i].size \in Int
    BY <2>1, SMTT(30) DEF Listed
  <2> QED BY <1>1, <2>2
<1>3. 0 \in P
  <2> DEFINE s == [i \in 0 .. 0 |-> Base]
  <2>1. Upto(0, s)
    BY <1>1
  <2>2. 0 \in 0 .. Len(h)
    BY <1>1
  <2> HIDE DEF s
  <2>3. \E t : Upto(0, t)
    BY <2>1
  <2> QED BY <2>2, <2>3
<1>4. ASSUME NEW m \in 0 .. Len(h) - 1, m \in P PROVE m + 1 \in P
  <2>1. m + 1 \in 1 .. Len(h) /\ m + 1 \in 0 .. Len(h) /\ m \in Nat /\ m \in 0 .. m
    BY <1>1
  <2>2. PICK s : Upto(m, s)
    BY <1>4
  <2> DEFINE x == (s[m] + h[m + 1].size) % Word
             t == [i \in 0 .. m + 1 |-> IF i = m + 1 THEN x ELSE s[i]]
  <2>3. x \in Nat
    BY <1>2, <2>1, <2>2
  <2>4. t \in [0 .. m + 1 -> Nat]
    <3> HIDE DEF x
    <3>1. ASSUME NEW i \in 0 .. m + 1 PROVE (IF i = m + 1 THEN x ELSE s[i]) \in Nat
      <4>1. i = m + 1 \/ i \in 0 .. m
        BY <2>1
      <4> QED BY <2>1, <2>2, <2>3, <4>1
    <3> QED BY <3>1
  <2>5. t[0] = Base
    BY <2>1, <2>2
  <2>6. ASSUME NEW i \in 1 .. m + 1 PROVE t[i] = (t[i - 1] + h[i].size) % Word
    <3>1. i \in 0 .. m + 1 /\ i - 1 \in 0 .. m + 1 /\ i - 1 # m + 1
      BY <2>1
    <3>2. t[i - 1] = s[i - 1]
      BY <3>1
    <3>3. CASE i = m + 1
      <4>1. i - 1 = m
        BY <2>1, <3>3
      <4> QED BY <3>1, <3>2, <3>3, <4>1
    <3>4. CASE i # m + 1
      <4>1. i \in 1 .. m
        BY <2>1, <3>4
      <4>2. t[i] = s[i]
        BY <3>1, <3>4
      <4>3. s[i] = (s[i - 1] + h[i].size) % Word
        BY <2>2, <4>1
      <4> QED BY <3>2, <4>2, <4>3
    <3> QED BY <3>3, <3>4
  <2> HIDE DEF t
  <2>7. Upto(m + 1, t)
    BY <2>4, <2>5, <2>6
  <2> QED BY <2>1, <2>7
<1>5. P \in SUBSET (0 .. Len(h))
  OBVIOUS
<1> HIDE DEF P
<1>6. P = 0 .. Len(h)
  BY <1>1, <1>3, <1>4, <1>5, FirstFailure
<1>7. Len(h) \in P
  BY <1>1, <1>6
<1>8. PICK s : Upto(Len(h), s)
  BY <1>7 DEF P
<1>9. Sums(s)
  <2>1. s = [i \in 0 .. Len(h) |-> s[i]]
    BY <1>8
  <2>2. ASSUME NEW i \in 0 .. Len(h)
        PROVE  s[i] = IF i = 0 THEN Base ELSE (s[i - 1] + h[i].size) % Word
    <3>1. i = 0 \/ i \in 1 .. Len(h)
      BY <1>1, SMTT(30)
    <3> QED BY <1>1, <1>8, <3>1
  <2> QED BY <2>1, <2>2
<1>10. Sums(sum)
  BY <1>9
<1> HIDE DEF sum
<1>11. /\ sum[0] = Base
       /\ \A i \in 1 .. Len(h) : sum[i] = (sum[i - 1] + h[i].size) % Word
  BY <1>1, <1>10
<1> DEFINE Q == {i \in 0 .. Len(h) : sum[i] \in Nat}
<1>12. 0 \in Q
  BY <1>1, <1>11
<1>13. ASSUME NEW i \in 0 .. Len(h) - 1, i \in Q PROVE i + 1 \in Q
  <2>1. i + 1 \in 1 .. Len(h) /\ i + 1 \in 0 .. Len(h) /\ (i + 1) - 1 = i
    BY <1>1
  <2>2. sum[i + 1] = (sum[i] + h[i + 1].size) % Word
    BY <1>11, <2>1
  <2>3. (sum[i] + h[i + 1].size) % Word \in Nat
    BY <1>2, <1>13, <2>1
  <2> QED BY <2>1, <2>2, <2>3
<1>14. Q \in SUBSET (0 .. Len(h))
  OBVIOUS
<1> HIDE DEF Q
<1>15. Q = 0 .. Len(h)
  BY <1>1, <1>12, <1>13, <1>14, FirstFailure
<1>16. Start(h, k) = sum[k - 1] /\ k - 1 \in 0 .. Len(h)
  BY <1>1 DEF Start, sum
<1> QED BY <1>15, <1>16 DEF Q

\* Whatever it is cut for, the storage alloc leaves has no two free neighbours.
LEMMA AllocWhole ==
    ASSUME WholeInv, NEW size \in Sizes, NEW align \in Aligns, Suitable(size, align) # {}
    PROVE  Alloc(size, align).heap \in Seq(Listed) /\ Whole(Alloc(size, align).heap)
<1> DEFINE k     == Min(Suitable(size, align))
           left  == LeftSize(Start(heap, k), heap[k].size, size, align)
           cut   == [heap EXCEPT ![k].size = left]
           at    == IF left = 0 THEN k ELSE k + 1
           h     == IF left = 0 THEN heap ELSE SplitLeft(k, left)
           right == (h[at].size - size) % Word
           done  == IF right = 0 THEN h ELSE SplitRight(h, at, right)
<1>1. PICK n \in Nat : n = Len(heap) /\ heap \in Seq(Listed) /\ Whole(heap)
  BY DEF WholeInv
<1>2. Suitable(size, align) \in SUBSET Nat
  BY <1>1 DEF Suitable
<1>3. k \in Suitable(size, align)
  BY <1>2, MinIsLeast
<1>4. Alloc(size, align).heap = IF left # 0 /\ ~CanCreate(cut) THEN CutAfter(cut, k)
                                ELSE [done EXCEPT ![at].flag = "USED"]
  BY DEF Alloc
<1> HIDE DEF k
<1>5. k \in 1 .. n /\ k \in 1 .. Len(heap) /\ heap[k].flag # "USED"
  BY <1>1, <1>3 DEF Suitable
<1>6. heap[k] \in Listed
  BY <1>1, <1>5, ElementOf
<1>7. heap[k].flag = "FREE" /\ heap[k].size \in Int
  BY <1>5, <1>6 DEF Listed, Flags
<1>8. size \in Nat /\ align \in Nat /\ Word \in Nat /\ Word > 0
  BY Constants, RealStorageAssumption
<1>9. left \in Int
  <2> DEFINE cur == Start(heap, k)
  <2>1. cur \in Nat
    <3>1. k \in 1 .. Len(heap) + 1
      BY <1>1, <1>5
    <3> QED BY <1>1, <3>1, StartIsNumber
  <2> HIDE DEF cur
  <2> DEFINE end == cur + heap[k].size - size
  <2>2. end \in Int
    BY <1>7, <1>8, <2>1
  <2>3. left = IF align = 0 THEN heap[k].size - size
               ELSE (end - (end % align) - cur) % Word
    BY DEF LeftSize, cur
  <2> HIDE DEF left, end
  <2>4. CASE align = 0
    BY <1>7, <1>8, <2>3, <2>4
  <2>5. CASE align # 0
    <3>1. end % align \in Int
      BY <1>8, <2>2, <2>5
    <3>2. end - (end % align) - cur \in Int
      BY <2>1, <2>2, <3>1
    <3> QED BY <1>8, <2>3, <2>5, <3>2
  <2> QED BY <2>4, <2>5
<1> HIDE DEF left
<1>10. cut \in Seq(Listed) /\ SameFlags(cut, heap)
  BY <1>1, <1>9, ListedSizes
<1> HIDE DEF cut
<1>11. Len(cut) = n /\ \A j \in 1 .. n : cut[j].flag = heap[j].flag
  BY <1>1, <1>10 DEF SameFlags
<1>12. \A j \in 1 .. n - 1 : ~(heap[j].flag = "FREE" /\ heap[j + 1].flag = "FREE")
  BY <1>1 DEF Whole
<1>13. CASE left # 0 /\ ~CanCreate(cut)
  <2> DEFINE r == CutAfter(cut, k)
  <2>1. r \in Seq(Listed) /\ Len(r) = k /\ \A j \in 1 .. k : r[j] = cut[j]
    BY <1>5, <1>10, <1>11 DEF CutAfter
  <2> HIDE DEF r
  <2>2. \A j \in 1 .. k - 1 : ~(r[j].flag = "FREE" /\ r[j + 1].flag = "FREE")
    <3> TAKE j \in 1 .. k - 1
    <3>1. j \in 1 .. k /\ j + 1 \in 1 .. k /\ j \in 1 .. n /\ j + 1 \in 1 .. n /\ j \in 1 .. n - 1
      BY <1>5
    <3> QED BY <1>11, <1>12, <2>1, <3>1
  <2>3. Whole(r)
    BY <2>1, <2>2 DEF Whole
  <2>4. Alloc(size, align).heap = r
    BY <1>4, <1>13 DEF r
  <2> QED BY <2>1, <2>3, <2>4
<1>14. CASE ~(left # 0 /\ ~CanCreate(cut))
  <2>1. Fenced(h, at)
    <3>1. CASE left = 0
      <4>1. h = heap /\ at = k
        BY <3>1
      <4>2. k + 1 <= n => heap[k + 1].flag # "FREE"
        <5>1. k + 1 <= n => k \in 1 .. n - 1
          BY <1>5
        <5> QED BY <1>7, <1>12, <5>1
      <4> QED BY <1>1, <1>5, <4>1, <4>2 DEF Fenced
    <3>2. CASE left # 0
      <4> DEFINE s == (heap[k].size - left) % Word
      <4>1. h = CreateAfter(cut, k, s, "USED") /\ at = k + 1
        BY <3>2 DEF SplitLeft, cut
      <4>2. s \in Int /\ "USED" \in Flags
        BY <1>7, <1>8, <1>9 DEF Flags
      <4>3. k \in 1 .. Len(cut)
        BY <1>5, <1>11
      <4> HIDE DEF h, at, s
      <4>4. h \in Seq(Listed) /\ FlagAdded(h, cut, k, "USED")
        BY <1>10, <4>1, <4>2, <4>3, CreateAdds
      <4>5. /\ Len(h) = n + 1
            /\ \A j \in 1 .. n + 1 :
                  h[j].flag = IF j <= k THEN cut[j].flag
                              ELSE IF j = k + 1 THEN "USED" ELSE cut[j - 1].flag
        BY <1>11, <4>4 DEF FlagAdded
      <4>6. ASSUME NEW j \in 1 .. n + 1
            PROVE  h[j].flag = IF j <= k THEN heap[j].flag
                               ELSE IF j = k + 1 THEN "USED" ELSE heap[j - 1].flag
        <5>1. j <= k => j \in 1 .. n
          BY <1>5
        <5>2. ~(j <= k) /\ j # k + 1 => j - 1 \in 1 .. n
          BY <1>5
        <5> QED BY <1>11, <4>5, <5>1, <5>2
      <4>7. ASSUME NEW j \in 1 .. n, h[j].flag = "FREE", h[j + 1].flag = "FREE" PROVE FALSE
        <5>1. j \in 1 .. n + 1 /\ j + 1 \in 1 .. n + 1
          BY <1>5
        <5>2. CASE j + 1 <= k
          <6>1. j <= k /\ j \in 1 .. n - 1
            BY <1>5, <5>2
          <6>2. heap[j].flag = "FREE" /\ heap[j + 1].flag = "FREE"
            BY <4>6, <4>7, <5>1, <5>2, <6>1
          <6> QED BY <1>12, <6>1, <6>2
        <5>3. CASE j = k \/ j = k + 1
          <6>1. k + 1 \in 1 .. n + 1 /\ ~(k + 1 <= k)
            BY <1>5
          <6>2. h[k + 1].flag = "USED"
            BY <4>6, <6>1
          <6> QED BY <4>7, <5>3, <6>2
        <5>4. CASE j > k + 1
          <6>1. /\ ~(j <= k) /\ j # k + 1 /\ ~(j + 1 <= k) /\ j + 1 # k + 1
                /\ (j + 1) - 1 = (j - 1) + 1 /\ j - 1 \in 1 .. n - 1
            BY <1>5, <5>4
          <6>2. h[j].flag = heap[j - 1].flag /\ h[j + 1].flag = heap[(j - 1) + 1].flag
            BY <4>6, <5>1, <6>1
          <6> QED BY <1>12, <4>7, <6>1, <6>2
        <5> QED BY <1>5, <5>2, <5>3, <5>4
      <4>8. k + 2 <= n + 1 => h[k + 2].flag # "FREE"
        <5> SUFFICES ASSUME k + 2 <= n + 1, h[k + 2].flag = "FREE" PROVE FALSE
          OBVIOUS
        <5>1. /\ k + 2 \in 1 .. n + 1 /\ ~(k + 2 <= k) /\ k + 2 # k + 1
              /\ (k + 2) - 1 = k + 1 /\ k \in 1 .. n - 1
          BY <1>5
        <5>2. h[k + 2].flag = heap[k + 1].flag
          BY <4>6, <5>1
        <5> QED BY <1>7, <1>12, <5>1, <5>2
      <4>9. at \in 1 .. Len(h) /\ (at + 1 <= Len(h) => h[at + 1].flag # "FREE")
        <5>1. at \in 1 .. n + 1 /\ at + 1 = k + 2
          BY <1>5, <4>1, SMTT(30)
        <5> QED BY <4>5, <4>8, <5>1
      <4>10. Whole(h)
        BY <4>5, <4>7 DEF Whole
      <4> QED BY <4>4, <4>9, <4>10 DEF Fenced
    <3> QED BY <3>1, <3>2
  <2>2. Alloc(size, align).heap = [done EXCEPT ![at].flag = "USED"]
    BY <1>4, <1>14
  <2> HIDE DEF h, at
  <2>3. h \in Seq(Listed) /\ at \in 1 .. Len(h) /\ "USED" \in Flags
    BY <2>1, SMTT(30) DEF Fenced, Flags
  <2>4. CASE right = 0
    <3>1. [h EXCEPT ![at].flag = "USED"] \in Seq(Listed)
          /\ FlagSet([h EXCEPT ![at].flag = "USED"], h, at, "USED")
      BY <2>3, ListedFlags
    <3>2. Whole([h EXCEPT ![at].flag = "USED"])
      BY <2>1, <3>1, FlagSetWhole
    <3>3. done = h
      BY <2>4
    <3> QED BY <2>2, <3>1, <3>2, <3>3
  <2>5. CASE right # 0
    <3>1. right \in Int
      <4>1. h[at] \in Listed
        BY <2>3, ElementOf
      <4>2. h[at].size - size \in Int
        BY <1>8, <4>1 DEF Listed
      <4> QED BY <1>8, <4>2
    <3>2. done = SplitRight(h, at, right)
      BY <2>5
    <3> HIDE DEF right
    <3>3. /\ [SplitRight(h, at, right) EXCEPT ![at].flag = "USED"] \in Seq(Listed)
          /\ Whole([SplitRight(h, at, right) EXCEPT ![at].flag = "USED"])
      BY <2>1, <3>1, RightWhole
    <3> QED BY <2>2, <3>2, <3>3
  <2> QED BY <2>4, <2>5
<1> QED BY <1>13, <1>14

\* Coalescence after, when only the k-th block may have a free neighbour.
LEMMA AfterWhole ==
    ASSUME NEW h \in Seq(Listed), NEW k \in 1 .. Len(h),
           \A i \in 1 .. Len(h) - 1 :
              i # k => ~(h[i].flag = "FREE" /\ h[i + 1].flag = "FREE")
    PROVE  MergeAfter(h, k) \in Seq(Listed) /\ Whole(MergeAfter(h, k))
<1> DEFINE n == Max(Fusions(h, k))
           r == MergeAfter(h, k)
<1>1. PICK L \in Nat : L = Len(h) /\ k \in 1 .. L
  OBVIOUS
<1>2. /\ n \in Nat /\ k + 2*n - 1 <= L
      /\ \A i \in 0 .. n - 1 : h[k + 2*i + 1].flag = "FREE"
      /\ k + 2*n + 1 <= L => h[k + 2*n + 1].flag # "FREE"
  <2>1. Len(h) \in Nat /\ k \in 1 .. Len(h)
    OBVIOUS
  <2>2. /\ n \in Nat /\ k + 2*n - 1 <= Len(h)
        /\ \A i \in 0 .. n - 1 : h[k + 2*i + 1].flag = "FREE"
        /\ k + 2*n + 1 <= Len(h) => h[k + 2*n + 1].flag # "FREE"
    BY <2>1, FusesUntilUsed, SMTT(30)
  <2> HIDE DEF n
  <2> QED BY <1>1, <2>2
<1>3. r = [j \in 1 .. L - n |->
              IF j < k THEN h[j]
              ELSE IF j < k + n
                   THEN [h[2*j - k] EXCEPT !.size = @ + h[2*j - k + 1].size]
                   ELSE h[j + n]]
  BY <1>1, MergedAfter, SMTT(30)
<1> HIDE DEF n, r
<1>4. \A j \in 1 .. L : h[j] \in Listed
  BY <1>1, ElementOf
<1> DEFINE m == L - n
<1>5. m \in Nat
  BY <1>1, <1>2
<1>6. ASSUME NEW j \in 1 .. m, j < k PROVE r[j] = h[j] /\ j \in 1 .. L
  BY <1>2, <1>3, <1>6
<1>7. ASSUME NEW j \in 1 .. m, j >= k, j < k + n
      PROVE  /\ r[j] \in Listed /\ r[j].flag = h[2*j - k].flag
             /\ 2*j - k \in 1 .. L /\ 2*j - k + 1 \in 1 .. L
             /\ h[2*j - k + 1].flag = "FREE"
  <2>1. 2*j - k \in 1 .. L /\ 2*j - k + 1 \in 1 .. L
    BY <1>1, <1>2, <1>7, SMTT(30)
  <2>2. r[j] = [h[2*j - k] EXCEPT !.size = @ + h[2*j - k + 1].size]
    BY <1>1, <1>3, <1>7
  <2>3. PICK a \in Listed, b \in Listed : a = h[2*j - k] /\ b = h[2*j - k + 1]
    BY <1>4, <2>1
  <2>4. r[j] = [a EXCEPT !.size = a.size + b.size]
    BY <2>2, <2>3
  <2>5. r[j] \in Listed /\ r[j].flag = a.flag
    <3>1. a.size + b.size \in Int
      BY DEF Listed
    <3> QED BY <2>4, <3>1 DEF Listed
  <2>6. j - k \in 0 .. n - 1 /\ k + 2*(j - k) + 1 = 2*j - k + 1
    BY <1>1, <1>2, <1>7
  <2> QED BY <1>2, <2>1, <2>3, <2>5, <2>6
<1>8. ASSUME NEW j \in 1 .. m, j >= k + n PROVE r[j] = h[j + n] /\ j + n \in 1 .. L
  <2>1. ~(j < k) /\ ~(j < k + n) /\ j + n \in 1 .. L
    BY <1>1, <1>2, <1>8
  <2> QED BY <1>3, <2>1
<1>9. r \in Seq(Listed) /\ Len(r) = m
  <2>1. \A j \in 1 .. m : r[j] \in Listed
    <3> TAKE j \in 1 .. m
    <3>1. j < k \/ (j >= k /\ j < k + n) \/ j >= k + n
      BY <1>1, <1>2
    <3>2. CASE j < k
      BY <1>4, <1>6, <3>2
    <3>3. CASE j >= k /\ j < k + n
      BY <1>7, <3>3
    <3>4. CASE j >= k + n
      BY <1>4, <1>8, <3>4
    <3> QED BY <3>1, <3>2, <3>3, <3>4
  <2>2. r = [j \in 1 .. m |-> r[j]]
    BY <1>3
  <2> HIDE DEF m
  <2>3. r \in [1 .. m -> Listed]
    BY <2>1, <2>2
  <2> QED BY <1>5, <2>3
<1>10. ASSUME NEW i \in 1 .. L, i + 1 \in 1 .. L, i # k,
              h[i].flag = "FREE", h[i + 1].flag = "FREE"
       PROVE  FALSE
  <2>1. i \in 1 .. Len(h) - 1
    BY <1>1, <1>10
  <2> QED BY <1>10, <2>1
<1>11. ASSUME NEW j \in 1 .. m - 1, r[j].flag = "FREE", r[j + 1].flag = "FREE" PROVE FALSE
  <2>1. j \in 1 .. m /\ j + 1 \in 1 .. m
    BY <1>5
  <2>2. CASE j + 1 < k
    <3>1. j < k /\ j # k
      BY <1>1, <2>2
    <3>2. r[j] = h[j] /\ r[j + 1] = h[j + 1] /\ j \in 1 .. L /\ j + 1 \in 1 .. L
      BY <1>6, <2>1, <2>2, <3>1
    <3> QED BY <1>10, <1>11, <3>1, <3>2
  <2>3. CASE j + 1 = k
    <3>1. r[j] = h[j] /\ j \in 1 .. L /\ j # k
      BY <1>1, <1>6, <2>1, <2>3
    <3>2. r[j + 1].flag = h[j + 1].flag /\ j + 1 \in 1 .. L
      <4>1. CASE n = 0
        <5>1. j + 1 >= k + n /\ (j + 1) + n = j + 1
          BY <1>1, <2>3, <4>1
        <5> QED BY <1>8, <2>1, <5>1
      <4>2. CASE n # 0
        <5>1. j + 1 >= k /\ j + 1 < k + n /\ 2*(j + 1) - k = j + 1
          BY <1>1, <1>2, <2>3, <4>2
        <5> QED BY <1>7, <2>1, <5>1
      <4> QED BY <4>1, <4>2
    <3> QED BY <1>10, <1>11, <3>1, <3>2
  <2>4. CASE j >= k /\ j < k + n
    <3> DEFINE i == 2*j - k + 1
    <3>1. i \in 1 .. L /\ h[i].flag = "FREE" /\ i # k
      BY <1>1, <1>7, <2>1, <2>4
    <3>2. r[j + 1].flag = h[i + 1].flag /\ i + 1 \in 1 .. L
      <4>1. CASE j + 1 < k + n
        <5>1. j + 1 >= k /\ 2*(j + 1) - k = i + 1
          BY <1>1, <2>4
        <5> QED BY <1>7, <2>1, <4>1, <5>1
      <4>2. CASE j + 1 >= k + n
        <5>1. (j + 1) + n = i + 1
          BY <1>1, <1>2, <2>4, <4>2
        <5> QED BY <1>8, <2>1, <4>2, <5>1, SMTT(30)
      <4> QED BY <1>1, <1>2, <4>1, <4>2
    <3> HIDE DEF i
    <3> QED BY <1>10, <1>11, <3>1, <3>2
  <2>5. CASE j >= k + n
    <3>1. j + 1 >= k + n /\ (j + 1) + n = (j + n) + 1
      BY <1>1, <1>2, <2>5
    <3>2. /\ r[j] = h[j + n] /\ r[j + 1] = h[(j + n) + 1]
          /\ j + n \in 1 .. L /\ (j + n) + 1 \in 1 .. L
      <4>1. r[j] = h[j + n] /\ j + n \in 1 .. L
        BY <1>8, <2>1, <2>5
      <4>2. r[j + 1] = h[(j + 1) + n] /\ (j + 1) + n \in 1 .. L
        BY <1>8, <2>1, <3>1
      <4> QED BY <3>1, <4>1, <4>2
    <3>3. CASE j + n # k
      BY <1>10, <1>11, <3>2, <3>3
    <3>4. CASE j + n = k
      <4>1. n = 0 /\ j = k /\ k + 2*n + 1 = (j + n) + 1
        BY <1>1, <1>2, <2>5, <3>4
      <4>2. h[k + 2*n + 1].flag # "FREE"
        BY <1>1, <1>2, <3>2, <4>1
      <4> QED BY <1>11, <3>2, <4>1, <4>2
    <3> QED BY <3>3, <3>4
  <2> QED BY <1>1, <1>2, <2>2, <2>3, <2>4, <2>5
<1> HIDE DEF m
<1>12. Whole(r)
  BY <1>9, <1>11 DEF Whole
<1> QED BY <1>9, <1>12 DEF r

\* free makes the k-th block free and leaves no two free neighbours.
LEMMA MergeWhole ==
    ASSUME NEW g \in Seq(Listed), Whole(g), NEW k \in 1 .. Len(g)
    PROVE  /\ Merge([g EXCEPT ![k].flag = "FREE"], k) \in Seq(Listed)
           /\ Whole(Merge([g EXCEPT ![k].flag = "FREE"], k))
<1> DEFINE h == [g EXCEPT ![k].flag = "FREE"]
<1>1. PICK n \in Nat : n = Len(g) /\ k \in 1 .. n
  OBVIOUS
<1>2. h \in Seq(Listed) /\ FlagSet(h, g, k, "FREE")
  BY ListedFlags DEF Flags
<1> HIDE DEF h
<1>3. Len(h) = n /\ \A j \in 1 .. n : h[j].flag = IF j = k THEN "FREE" ELSE g[j].flag
  BY <1>1, <1>2 DEF FlagSet
<1>4. ASSUME NEW i \in 1 .. n - 1, i # k, i + 1 # k, h[i].flag = "FREE", h[i + 1].flag = "FREE"
      PROVE  FALSE
  <2>1. i \in 1 .. n /\ i + 1 \in 1 .. n
    BY <1>1
  <2>2. g[i].flag = "FREE" /\ g[i + 1].flag = "FREE"
    BY <1>3, <1>4, <2>1
  <2> QED BY <1>1, <2>2 DEF Whole
<1>5. CASE k > 1 /\ h[k - 1].flag = "FREE"
  <2> DEFINE size == h[k - 1].size + h[k].size
             big == [h EXCEPT ![k - 1].size = size]
             b == RemoveAt(big, k)
  <2>1. k - 1 \in 1 .. n /\ k - 1 \in 1 .. Len(h) /\ k \in 1 .. Len(h)
    BY <1>1, <1>3, <1>5
  <2>2. size \in Int
    <3>1. h[k - 1] \in Listed /\ h[k] \in Listed
      BY <1>2, <2>1, ElementOf
    <3> QED BY <3>1, SMTT(30) DEF Listed
  <2>3. Merge(h, k) = MergeAfter(b, k - 1)
    BY <1>5 DEF Merge, MergeBehind
  <2> HIDE DEF size
  <2>4. big \in Seq(Listed) /\ SameFlags(big, h)
    BY <1>2, <2>2, ListedSizes
  <2> HIDE DEF big
  <2>5. Len(big) = n /\ \A j \in 1 .. n : big[j].flag = h[j].flag
    BY <1>3, <2>4 DEF SameFlags
  <2>6. k \in 1 .. Len(big)
    BY <1>1, <2>5
  <2>7. b \in Seq(Listed) /\ RemovedFrom(b, big, k)
    BY <2>4, <2>6, Removed
  <2> HIDE DEF b
  <2>8. /\ Len(b) = n - 1
        /\ \A j \in 1 .. n - 1 : b[j] = IF j < k THEN big[j] ELSE big[j + 1]
    BY <2>5, <2>7 DEF RemovedFrom
  <2>9. ASSUME NEW j \in 1 .. n - 1
        PROVE  b[j].flag = IF j < k THEN h[j].flag ELSE h[j + 1].flag
    <3>1. j \in 1 .. n /\ j + 1 \in 1 .. n
      BY <1>1
    <3> QED BY <2>5, <2>8, <3>1
  <2>10. ASSUME NEW i \in 1 .. (n - 1) - 1, i # k - 1, b[i].flag = "FREE", b[i + 1].flag = "FREE"
         PROVE  FALSE
    <3>1. i \in 1 .. n - 1 /\ i + 1 \in 1 .. n - 1
      BY <1>1
    <3>2. CASE i + 1 < k
      <4>1. i < k /\ i # k /\ i + 1 # k
        BY <1>1, <3>2
      <4>2. h[i].flag = "FREE" /\ h[i + 1].flag = "FREE"
        BY <2>9, <2>10, <3>1, <3>2, <4>1
      <4> QED BY <1>4, <3>1, <4>1, <4>2
    <3>3. CASE i >= k
      <4>1. ~(i < k) /\ ~(i + 1 < k) /\ i + 1 # k /\ (i + 1) + 1 # k
        BY <1>1, <3>3
      <4>2. h[i + 1].flag = "FREE" /\ h[(i + 1) + 1].flag = "FREE"
        BY <2>9, <2>10, <3>1, <4>1
      <4> QED BY <1>4, <3>1, <4>1, <4>2
    <3>4. i + 1 < k \/ i >= k
      BY <1>1, <2>10
    <3> QED BY <3>2, <3>3, <3>4
  <2>11. \A i \in 1 .. Len(b) - 1 :
            i # k - 1 => ~(b[i].flag = "FREE" /\ b[i + 1].flag = "FREE")
    BY <2>8, <2>10
  <2>12. k - 1 \in 1 .. Len(b)
    BY <1>1, <1>5, <2>8
  <2> QED BY <2>3, <2>7, <2>11, <2>12, AfterWhole DEF h
<1>6. CASE ~(k > 1 /\ h[k - 1].flag = "FREE")
  <2>1. Merge(h, k) = MergeAfter(h, k)
    BY <1>6 DEF Merge
  <2>2. ASSUME NEW i \in 1 .. Len(h) - 1, i # k, h[i].flag = "FREE", h[i + 1].flag = "FREE"
        PROVE  FALSE
    <3>1. i \in 1 .. n - 1
      BY <1>3
    <3>2. CASE i + 1 = k
      <4>1. k > 1 /\ i = k - 1
        BY <1>1, <3>1, <3>2
      <4> QED BY <1>6, <2>2, <4>1
    <3> QED BY <1>4, <2>2, <3>1, <3>2
  <2>3. k \in 1 .. Len(h)
    BY <1>1, <1>3
  <2> QED BY <1>2, <2>1, <2>2, <2>3, AfterWhole DEF h
<1> QED BY <1>5, <1>6

LEMMA WholeStep == WholeInv /\ [Next]_vars => WholeInv'
<1> SUFFICES ASSUME WholeInv, [Next]_vars PROVE WholeInv'
  OBVIOUS
<1>1. ASSUME NEW size \in Sizes, NEW align \in Aligns, CanAlloc(size, align),
             Allocated(Alloc(size, align), size)
      PROVE  WholeInv'
  <2>1. heap' = Alloc(size, align).heap /\ Suitable(size, align) # {}
    BY <1>1 DEF Allocated, CanAlloc
  <2>2. Alloc(size, align).heap \in Seq(Listed) /\ Whole(Alloc(size, align).heap)
    BY <2>1, AllocWhole
  <2> QED BY <2>1, <2>2 DEF WholeInv
<1>2. ASSUME NEW p, Release(p) PROVE WholeInv'
  <2>1. CASE Around(p) = {}
    BY <1>2, <2>1 DEF Release, WholeInv
  <2>2. CASE Around(p) # {}
    <3> DEFINE k == Min(Around(p))
    <3>1. heap \in Seq(Listed) /\ Whole(heap)
      BY DEF WholeInv
    <3>2. Around(p) \in SUBSET Nat /\ Around(p) \subseteq 1 .. Len(heap)
      BY <3>1 DEF Around
    <3>3. k \in 1 .. Len(heap)
      BY <2>2, <3>2, MinIsLeast
    <3>4. heap' = Merge([heap EXCEPT ![k].flag = "FREE"], k)
      BY <1>2, <2>2 DEF Release
    <3> HIDE DEF k
    <3>5. heap' \in Seq(Listed) /\ Whole(heap')
      BY <3>1, <3>3, <3>4, MergeWhole
    <3> QED BY <3>5 DEF WholeInv
  <2> QED BY <2>1, <2>2
<1>3. CASE UNCHANGED heap
  BY <1>3 DEF WholeInv
<1>4. ASSUME NEW size \in Sizes, NEW align \in Aligns, Allocate(size, align)
      PROVE  WholeInv'
  BY <1>1, <1>4 DEF Allocate
<1>5. ASSUME NEW c, Free(c) PROVE WholeInv'
  BY <1>2, <1>5 DEF Free
<1>6. ASSUME NEW c, NEW size \in Sizes, NEW align \in Aligns, Reallocate(c, size, align)
      PROVE  WholeInv'
  BY <1>1, <1>3, <1>6 DEF Reallocate, SameSize
<1>7. ASSUME NEW c, ReallocDrop(c) PROVE WholeInv'
  BY <1>2, <1>7 DEF ReallocDrop
<1> QED BY <1>3, <1>4, <1>5, <1>6, <1>7 DEF Next, vars

LEMMA InitWhole == Init => WholeInv
<1> SUFFICES ASSUME Init PROVE WholeInv
  OBVIOUS
<1> DEFINE a == [id |-> 0, size |-> Table0 * DescSize, flag |-> "USED"]
           b == [id |-> 1, size |-> RegionSize - Table0 * DescSize, flag |-> "FREE"]
<1>1. a \in Listed /\ b \in Listed /\ a.flag = "USED"
  BY Constants DEF Listed, Flags
<1>2. heap = <<a, b>>
  BY DEF Init
<1> HIDE DEF a, b
<1>3. heap \in Seq(Listed) /\ Len(heap) = 2 /\ heap[1].flag = "USED"
  BY <1>1, <1>2
<1> QED BY <1>3 DEF WholeInv, Whole

LEMMA WholeHolds == Spec => []WholeInv
BY InitWhole, WholeStep, PTL DEF Spec

\* merge and alloc (real.cxx): no two neighbouring blocks are ever both free,
\* whatever is asked for, with any alignment, and even when alloc faults.
THEOREM FreeStorageIsWhole == Spec => []Coalesced
<1>1. WholeInv => Coalesced
  BY DEF WholeInv, Whole, Coalesced
<1> QED BY <1>1, WholeHolds, PTL

LEMMA InvPlaces == StorageInv => DescriptorsInPlace
<1> SUFFICES ASSUME StorageInv, ~faulted PROVE DescriptorsInPlace
  BY DEF DescriptorsInPlace
<1>1. lost = {} /\ Table(heap)
  BY DEF StorageInv, Sound
<1>2. DOMAIN heap = 1 .. Len(heap)
  BY <1>1 DEF Table
<1> QED BY <1>1, <1>2 DEF Table, DescriptorsInPlace

\* The region stays whole: the descriptors are in place (block::create) and no
\* free storage lies in two pieces (block::merge).
THEOREM RegionStaysWhole == Plain => (Spec => []RegionIsWhole)
<1>1. DescriptorsInPlace /\ Coalesced => RegionIsWhole
  BY DEF RegionIsWhole
<1> QED BY <1>1, InvPlaces, StorageHolds, FreeStorageIsWhole, PTL
============================================================================
