---------------------------- MODULE AlignedProofs -----------------------------
(***************************************************************************)
(* Theorems about RealStorage when clients ask for alignments, as typed    *)
(* allocations do (storage.hxx): for objects whose sizes are multiples of  *)
(* one unit, and whose alignments suit it.                                 *)
(*                                                                         *)
(* Two things can go wrong that cannot without: the chunk rounded down may *)
(* lie in front of its block, and the table may be full when the rest      *)
(* behind the chunk needs a descriptor.  The first cannot happen if all    *)
(* sizes are multiples of a unit and alignments divide it, or are twice    *)
(* that; the second if the table has two descriptors for each chunk and    *)
(* two for itself, because free storage is whole.                          *)
(***************************************************************************)
EXTENDS RealStorageProofs

Multiples(G) == {m * G : m \in Nat}

\* Alignments that chunks of multiples of G can be given.
Natural(align, G) == align = 0 \/ (\E d \in Nat : G = d * align) \/ align = 2 * G

Granular(G) ==
    /\ {Base, RegionSize, DescSize} \subseteq Multiples(G)
    /\ Sizes \subseteq Multiples(G)
    /\ \A align \in Aligns : Natural(align, G)

\* The table has room for two blocks per chunk, and is never asked for by its size.
Roomy == Table0 >= 2 * MaxHeld + 2 /\ Sizes \cap TableSizes = {}

Aligned == Roomy /\ \E G \in Nat \ {0} : Granular(G)

-----------------------------------------------------------------------------
(* Multiples and remainders.                                               *)

LEMMA MultiplesAdd ==
    ASSUME NEW G \in Nat, NEW a \in Multiples(G), NEW b \in Multiples(G)
    PROVE  /\ a \in Nat /\ a + b \in Multiples(G)
           /\ a >= b => a - b \in Multiples(G)
<1>1. PICK m \in Nat, n \in Nat : a = m * G /\ b = n * G
  BY DEF Multiples
<1>2. a + b = (m + n) * G /\ m + n \in Nat
  BY <1>1
<1>3. a - b = (m - n) * G
  BY <1>1
<1>4. CASE m >= n
  <2>1. m - n \in Nat
    BY <1>4
  <2> QED BY <1>1, <1>2, <1>3, <2>1 DEF Multiples
<1>5. CASE m < n
  <2>1. PICK p \in Nat : n = m + p /\ p >= 1
    <3>1. n - m \in Nat /\ n = m + (n - m) /\ n - m >= 1
      BY <1>5
    <3> QED BY <3>1
  <2>2. b = a + p * G /\ p * G \in Nat
    BY <1>1, <2>1
  <2>3. a >= b => a - b = 0 * G
    BY <1>1, <2>2
  <2> QED BY <1>1, <1>2, <2>3 DEF Multiples
<1> QED BY <1>4, <1>5

\* A number is divided.
LEMMA Quotient ==
    ASSUME NEW x \in Nat, NEW a \in Nat, a > 0
    PROVE  \E q \in Nat : x = q * a + (x % a) /\ x % a \in 0 .. a - 1
<1> DEFINE q == x \div a
           r == x % a
<1>1. q \in Int /\ r \in 0 .. a - 1 /\ x = a * q + r
  OBVIOUS
<1> HIDE DEF q, r
<1>2. CASE q <= -1
  <2>1. a * q <= -a
    BY <1>1, <1>2
  <2> QED BY <1>1, <2>1
<1>3. CASE q >= 0
  <2>1. q \in Nat /\ x = q * a + r
    BY <1>1, <1>3
  <2>2. r = x % a
    BY DEF r
  <2> QED BY <1>1, <2>1, <2>2
<1> QED BY <1>1, <1>2, <1>3

\* What is left when a number is divided.
LEMMA Remainder ==
    ASSUME NEW a \in Nat, a > 0, NEW q \in Nat, NEW r \in Nat, r < a
    PROVE  (q * a + r) % a = r
<1> DEFINE x == q * a + r
           p == x \div a
           s == x % a
<1>1. q * a \in Nat /\ x \in Nat
  OBVIOUS
<1>2. p \in Int /\ s \in 0 .. a - 1 /\ x = a * p + s
  BY <1>1
<1> HIDE DEF p, s
<1>3. PICK e \in Int : e = q - p
  BY <1>2
<1>4. q * a = p * a + e * a
  BY <1>2, <1>3
<1>5. e * a = s - r
  BY <1>2, <1>4
<1>6. CASE e = 0
  BY <1>2, <1>5, <1>6 DEF s
<1>7. CASE e >= 1
  <2>1. e * a >= a
    BY <1>7
  <2> QED BY <1>2, <1>5, <2>1
<1>8. CASE e <= -1
  <2>1. e * a <= -a
    BY <1>8
  <2> QED BY <1>2, <1>5, <2>1
<1> QED BY <1>3, <1>6, <1>7, <1>8

\* What does not reach the word's end does not wrap.
LEMMA Unwrapped ==
    ASSUME NEW x \in Nat, NEW w \in Nat, x < w
    PROVE  x % w = x
OBVIOUS

\* A multiple of the unit is aligned, or half an alignment off.
LEMMA HalfAtMost ==
    ASSUME NEW G \in Nat, G > 0, NEW align \in Nat, align # 0, Natural(align, G),
           NEW x \in Multiples(G)
    PROVE  x % align = 0 \/ (align = 2 * G /\ x % align = G)
<1>1. PICK m \in Nat : x = m * G
  BY DEF Multiples
<1>2. ASSUME NEW d \in Nat, G = d * align PROVE x % align = 0
  <2>1. x = (m * d) * align + 0 /\ m * d \in Nat
    BY <1>1, <1>2
  <2> QED BY <2>1, Remainder
<1>3. CASE align = 2 * G
  <2>1. PICK q \in Nat : m = 2 * q \/ m = 2 * q + 1
    <3>1. m \div 2 \in Nat /\ (m = 2 * (m \div 2) \/ m = 2 * (m \div 2) + 1)
      OBVIOUS
    <3> QED BY <3>1
  <2>2. CASE m = 2 * q
    <3>1. x = q * align + 0
      BY <1>1, <1>3, <2>2
    <3> QED BY <3>1, Remainder
  <2>3. CASE m = 2 * q + 1
    <3>1. x = q * align + G
      BY <1>1, <1>3, <2>3
    <3>2. G < align
      BY <1>3
    <3> QED BY <1>3, <3>1, <3>2, Remainder
  <2> QED BY <2>1, <2>2, <2>3
<1> QED BY <1>2, <1>3 DEF Natural

\* Where a chunk goes in a block that begins at cur: it lies within it, and aligned.
LEMMA Placed ==
    ASSUME NEW G \in Nat, G > 0, NEW align \in Nat, Natural(align, G),
           NEW cur \in Multiples(G), NEW b \in Multiples(G), NEW size \in Multiples(G),
           b >= size, align # 0 => b >= size + (cur % align), cur + b < Word
    PROVE  \E left \in Multiples(G) :
              /\ LeftSize(cur, b, size, align) = left
              /\ left + size <= b
              /\ align # 0 => (cur + left) % align = 0
<1> DEFINE end == cur + b - size
<1>1. /\ cur \in Nat /\ b \in Nat /\ size \in Nat
      /\ b - size \in Multiples(G) /\ b - size \in Nat
      /\ cur + (b - size) \in Multiples(G) /\ end = cur + (b - size) /\ end \in Nat
  <2>1. cur \in Nat /\ b \in Nat /\ size \in Nat /\ b - size \in Multiples(G)
    BY MultiplesAdd
  <2> QED BY <2>1, MultiplesAdd
<1>2. 0 \in Multiples(G) /\ G \in Multiples(G)
  <2>1. 0 = 0 * G /\ G = 1 * G
    OBVIOUS
  <2> QED BY <2>1 DEF Multiples
<1>3. Word \in Nat
  BY Constants
<1>4. CASE align = 0
  <2>1. LeftSize(cur, b, size, align) = b - size
    BY <1>4 DEF LeftSize
  <2> QED BY <1>1, <1>4, <2>1
<1>5. CASE align # 0 /\ end % align = 0
  <2>1. LeftSize(cur, b, size, align) = (end - 0 - cur) % Word
    BY <1>5 DEF LeftSize
  <2>2. end - 0 - cur = b - size /\ b - size < Word
    BY <1>1, <1>3
  <2>3. LeftSize(cur, b, size, align) = b - size
    BY <1>1, <1>3, <2>1, <2>2
  <2>4. cur + (b - size) = end
    BY <1>1
  <2> QED BY <1>1, <1>5, <2>3, <2>4
<1>6. CASE align # 0 /\ end % align # 0
  <2>1. align = 2 * G /\ end % align = G
    BY <1>1, <1>6, HalfAtMost
  <2>2. b # size
    <3>1. b = size => end = cur
      BY <1>1
    <3>2. ~(b >= size + G) => b # size
      <4>1. CASE b = size
        BY <1>1, <1>6, <2>1, <3>1, <4>1
      <4> QED BY <4>1
    <3> QED BY <1>1, <3>2
  <2>3. PICK m \in Nat : b - size = m * G
    BY <1>1 DEF Multiples
  <2>4. m >= 1
    <3>1. m # 0
      BY <1>1, <2>2, <2>3
    <3> QED BY <3>1
  <2>5. b - size >= G
    BY <2>3, <2>4
  <2> DEFINE left == b - size - G
  <2>6. left \in Multiples(G)
    BY <1>1, <1>2, <2>5, MultiplesAdd
  <2>7. left \in Nat /\ left < Word /\ left + size <= b
    BY <1>1, <1>3, <2>5
  <2>8. LeftSize(cur, b, size, align) = (end - G - cur) % Word
    BY <1>6, <2>1 DEF LeftSize
  <2>9. end - G - cur = left /\ cur + left = end - G
    BY <1>1
  <2>10. LeftSize(cur, b, size, align) = left
    BY <1>3, <2>7, <2>8, <2>9
  <2>11. (end - G) % align = 0
    <3> HIDE DEF end
    <3>1. align > 0
      BY <1>6
    <3>2. PICK q \in Nat : end = q * align + (end % align)
      BY <1>1, <3>1, Quotient
    <3>3. end = q * align + G
      BY <2>1, <3>2
    <3>4. q * align \in Nat
      OBVIOUS
    <3>5. end - G = q * align + 0
      BY <3>3, <3>4
    <3> QED BY <3>1, <3>5, Remainder
  <2> QED BY <2>6, <2>7, <2>9, <2>10, <2>11
<1> QED BY <1>4, <1>5, <1>6
-----------------------------------------------------------------------------
(* A free block in two.                                                    *)

\* h2 is h with its k-th block cut into left bytes that keep its descriptor
\* and right bytes behind them, free as well and described by id.
Halved(h, h2, k, left, right, id) ==
    /\ h2 \in Seq(Piece) /\ Len(h2) = Len(h) + 1
    /\ \A j \in 1 .. Len(h) + 1 :
          /\ h2[j].id = IF j <= k THEN h[j].id ELSE IF j = k + 1 THEN id ELSE h[j - 1].id
          /\ h2[j].flag = IF j <= k THEN h[j].flag
                          ELSE IF j = k + 1 THEN "FREE" ELSE h[j - 1].flag
          /\ h2[j].size = IF j < k THEN h[j].size ELSE IF j = k THEN left
                          ELSE IF j = k + 1 THEN right ELSE h[j - 1].size

\* It is a split of a table that need not grow, but for the flag.
LEMMA HalvedSplits ==
    ASSUME NEW h, Table(h), NEW k \in 2 .. Len(h), NEW left \in Nat, NEW right \in Nat, NEW id,
           NEW h2, Halved(h, h2, k, left, right, id),
           NEW h3 \in Seq(Piece), FlaggedTo(h3, h2, k + 1, "USED")
    PROVE  /\ Split(h, h3, k, left, right, 0, id)
           /\ h3[1].size = h[1].size
<1>1. PICK n \in Nat : n = Len(h) /\ n >= 2 /\ h \in Seq(Piece)
  BY DEF Table
<1>2. \A j \in 1 .. n : h[j].size \in Nat
  <2> TAKE j \in 1 .. n
  <2>1. h[j] \in Piece
    BY <1>1, ElementOf
  <2> QED BY <2>1 DEF Piece
<1>3. /\ Len(h2) = n + 1
      /\ \A j \in 1 .. n + 1 :
            /\ h2[j].id = IF j <= k THEN h[j].id ELSE IF j = k + 1 THEN id ELSE h[j - 1].id
            /\ h2[j].flag = IF j <= k THEN h[j].flag
                            ELSE IF j = k + 1 THEN "FREE" ELSE h[j - 1].flag
            /\ h2[j].size = IF j < k THEN h[j].size ELSE IF j = k THEN left
                            ELSE IF j = k + 1 THEN right ELSE h[j - 1].size
  BY <1>1 DEF Halved
<1>4. /\ Len(h3) = n + 1
      /\ \A j \in 1 .. n + 1 :
            /\ h3[j].id = h2[j].id /\ h3[j].size = h2[j].size
            /\ h3[j].flag = IF j = k + 1 THEN "USED" ELSE h2[j].flag
  BY <1>3 DEF FlaggedTo
<1>5. k \in 2 .. n
  BY <1>1
<1>6. \A j \in 1 .. n + 1 :
         /\ h3[j].id = IF j <= k THEN h[j].id ELSE IF j = k + 1 THEN id ELSE h[j - 1].id
         /\ h3[j].flag = IF j <= k THEN h[j].flag
                         ELSE IF j = k + 1 THEN "USED" ELSE h[j - 1].flag
  BY <1>3, <1>4, <1>5
<1>7. h3[1].size = h[1].size /\ h3[1].size = h[1].size + 0
  <2>1. 1 \in 1 .. n + 1 /\ 1 < k /\ 1 \in 1 .. n
    BY <1>5
  <2> QED BY <1>2, <1>3, <1>4, <2>1
<1>8. \A j \in 2 .. k - 1 : h3[j].size = h[j].size - (IF j = 2 THEN 0 ELSE 0)
  <2> TAKE j \in 2 .. k - 1
  <2>1. j \in 1 .. n + 1 /\ j < k /\ j \in 1 .. n
    BY <1>5
  <2> QED BY <1>2, <1>3, <1>4, <2>1
<1>9. h3[k].size = left - (IF k = 2 THEN 0 ELSE 0) /\ h3[k + 1].size = right
  <2>1. k \in 1 .. n + 1 /\ k + 1 \in 1 .. n + 1 /\ ~(k + 1 < k) /\ k + 1 # k /\ ~(k < k)
    BY <1>5
  <2> QED BY <1>3, <1>4, <2>1
<1>10. \A j \in k + 2 .. n + 1 : h3[j].size = h[j - 1].size
  <2> TAKE j \in k + 2 .. n + 1
  <2>1. j \in 1 .. n + 1 /\ ~(j < k) /\ j # k /\ j # k + 1
    BY <1>5
  <2> QED BY <1>3, <1>4, <2>1
<1> QED BY <1>1, <1>4, <1>6, <1>7, <1>8, <1>9, <1>10 DEF Split

\* Chunks are where they were.
LEMMA HalvedGiven ==
    ASSUME NEW h, NEW f, NEW H, Sound(h, f, H), NEW n \in Nat, n = Len(h),
           NEW k \in 2 .. n, h[k].flag = "FREE", NEW left \in Nat, NEW right \in Nat,
           NEW id, NEW h2, Halved(h, h2, k, left, right, id)
    PROVE  Given(h2, SplitStarts(f, n, k, left, 0), H)
<1> DEFINE e == SplitStarts(f, n, k, left, 0)
<1>1. /\ Len(h2) = n + 1
      /\ \A j \in 1 .. n + 1 :
            /\ h2[j].flag = IF j <= k THEN h[j].flag
                            ELSE IF j = k + 1 THEN "FREE" ELSE h[j - 1].flag
            /\ h2[j].size = IF j < k THEN h[j].size ELSE IF j = k THEN left
                            ELSE IF j = k + 1 THEN right ELSE h[j - 1].size
  BY DEF Halved
<1>2. \A j \in 1 .. n + 1 : f[j] \in Nat
  BY DEF Sound, Laid
<1>3. /\ \A j \in 2 .. k - 1 : e[j] = f[j]
      /\ \A j \in k + 2 .. n + 1 : e[j] = f[j - 1]
  <2>1. ASSUME NEW j \in 2 .. k - 1 PROVE e[j] = f[j]
    <3>1. j \in 1 .. n + 2 /\ j <= k /\ 2 \in 1 .. n + 1
      OBVIOUS
    <3>2. f[2] + 0 = f[2]
      BY <1>2, <3>1
    <3> QED BY <3>1, <3>2 DEF SplitStarts
  <2>2. ASSUME NEW j \in k + 2 .. n + 1 PROVE e[j] = f[j - 1]
    <3>1. j \in 1 .. n + 2 /\ ~(j <= k) /\ j # k + 1 /\ j # 2
      OBVIOUS
    <3> QED BY <3>1 DEF SplitStarts
  <2> QED BY <2>1, <2>2
<1> HIDE DEF e
<1>4. ASSUME NEW c \in H
      PROVE  \E j \in 2 .. n + 1 : h2[j].flag = "USED" /\ e[j] = c.ptr /\ h2[j].size >= c.size
  <2>1. PICK i \in 2 .. n : h[i].flag = "USED" /\ f[i] = c.ptr /\ h[i].size >= c.size
    BY DEF Sound, Given
  <2>2. CASE i < k
    <3>1. i \in 2 .. k - 1 /\ i \in 1 .. n + 1 /\ i <= k /\ i \in 2 .. n + 1
      BY <2>2
    <3> QED BY <1>1, <1>3, <2>1, <2>2, <3>1
  <2>3. CASE i > k
    <3>1. /\ i + 1 \in k + 2 .. n + 1 /\ i + 1 \in 1 .. n + 1 /\ i + 1 \in 2 .. n + 1
          /\ ~(i + 1 <= k) /\ ~(i + 1 < k) /\ i + 1 # k /\ i + 1 # k + 1 /\ (i + 1) - 1 = i
      BY <2>3
    <3>2. e[i + 1] = f[i] /\ h2[i + 1].flag = h[i].flag /\ h2[i + 1].size = h[i].size
      BY <1>1, <1>3, <3>1
    <3> QED BY <2>1, <3>1, <3>2
  <2> QED BY <2>1, <2>2, <2>3
<1>5. ASSUME NEW j \in 2 .. n + 1, h2[j].flag = "USED"
      PROVE  \E c \in H : e[j] = c.ptr /\ h2[j].size >= c.size
  <2>1. \A i \in 2 .. n : h[i].flag = "USED" => \E c \in H : f[i] = c.ptr /\ h[i].size >= c.size
    BY DEF Sound, Given
  <2>2. j \in 1 .. n + 1 /\ ~(k + 1 <= k)
    OBVIOUS
  <2>3. j # k /\ j # k + 1
    BY <1>1, <1>5, <2>2
  <2>4. CASE j < k
    <3>1. j \in 2 .. k - 1 /\ j \in 2 .. n /\ j <= k
      BY <2>4
    <3>2. e[j] = f[j] /\ h2[j].flag = h[j].flag /\ h2[j].size = h[j].size
      BY <1>1, <1>3, <2>2, <2>4, <3>1
    <3> QED BY <1>5, <2>1, <3>1, <3>2
  <2>5. CASE j > k
    <3>1. j \in k + 2 .. n + 1 /\ j - 1 \in 2 .. n /\ ~(j <= k) /\ ~(j < k)
      BY <2>3, <2>5
    <3>2. e[j] = f[j - 1] /\ h2[j].flag = h[j - 1].flag /\ h2[j].size = h[j - 1].size
      BY <1>1, <1>3, <2>2, <2>3, <3>1
    <3> QED BY <1>5, <2>1, <3>1, <3>2
  <2> QED BY <2>3, <2>4, <2>5
<1>6. H \subseteq Chunk /\ \A c, d \in H : c.ptr = d.ptr => c = d
  BY DEF Sound, Given
<1> QED BY <1>1, <1>4, <1>5, <1>6 DEF Given, e

\* Nothing else is lost when a free block is halved.
LEMMA HalvedSound ==
    ASSUME NEW h, NEW f, NEW H, Sound(h, f, H), NEW n \in Nat, n = Len(h),
           NEW k \in 2 .. n, h[k].flag = "FREE", NEW left \in Nat, NEW right \in Nat,
           left + right = h[k].size, NEW id \in Nat, id < Slots(h),
           \A i \in 1 .. n : h[i].id # id,
           NEW h2, Halved(h, h2, k, left, right, id)
    PROVE  /\ Sound(h2, SplitStarts(f, n, k, left, 0), H)
           /\ h2[1].size = h[1].size
<1> DEFINE h3 == [h2 EXCEPT ![k + 1].flag = "USED"]
           e == SplitStarts(f, n, k, left, 0)
<1>1. Table(h) /\ Laid(h, f) /\ h \in Seq(Piece)
  BY DEF Sound, Table
<1>2. h2 \in Seq(Piece) /\ Len(h2) = n + 1 /\ k + 1 \in 1 .. Len(h2) /\ k + 1 \in 2 .. Len(h2)
      /\ "USED" \in Flags
  BY DEF Halved, Flags
<1>3. h3 \in Seq(Piece) /\ FlaggedTo(h3, h2, k + 1, "USED")
  BY <1>2, Reflagged
<1> HIDE DEF h3
<1>4. Split(h, h3, k, left, right, 0, id) /\ h3[1].size = h[1].size
  BY <1>1, <1>3, HalvedSplits
<1>5. Laid(h3, e)
  BY <1>1, <1>4, SplitLaid
<1>6. Table(h3)
  <2>1. h[1].size \in TableSizes
    BY <1>1 DEF Table
  <2>2. h[1].size \in Nat /\ Slots(h) \in Nat
    BY <2>1, TableGrows DEF Slots
  <2>3. h[1].size + 0 \in TableSizes /\ Slots(h) <= Slots(h3) /\ id < Slots(h3)
    BY <1>4, <2>1, <2>2 DEF Slots
  <2> QED BY <1>1, <1>4, <2>3, SplitTable
<1>7. \A j \in 1 .. n + 1 : h2[j].flag = IF j = k + 1 THEN "FREE" ELSE h3[j].flag
  <2>1. h2[k + 1].flag = "FREE"
    <3>1. k + 1 \in 1 .. n + 1 /\ ~(k + 1 <= k)
      OBVIOUS
    <3> QED BY <3>1 DEF Halved
  <2> QED BY <1>2, <1>3, <2>1 DEF FlaggedTo
<1>8. FlaggedTo(h2, h3, k + 1, "FREE")
  BY <1>2, <1>3, <1>7 DEF FlaggedTo
<1>9. k + 1 \in 2 .. Len(h3)
  BY <1>2, <1>3 DEF FlaggedTo
<1>10. Laid(h2, e) /\ Table(h2)
  BY <1>2, <1>5, <1>6, <1>8, <1>9, FlagsAside
<1>11. Given(h2, e, H)
  BY HalvedGiven
<1>12. h2[1].size = h3[1].size
  BY <1>2, <1>3 DEF FlaggedTo
<1> QED BY <1>4, <1>10, <1>11, <1>12 DEF Sound

CutInTwo(h, h2, k, left, right, id) ==
    /\ k \in 2 .. Len(h) /\ h[k].flag = "FREE"
    /\ left \in Nat /\ right \in Nat /\ left + right = h[k].size
    /\ id \in Nat /\ id < Slots(h) /\ \A i \in 1 .. Len(h) : h[i].id # id
    /\ Halved(h, h2, k, left, right, id)

LEMMA CutSound ==
    ASSUME NEW h, NEW f, NEW H, Sound(h, f, H),
           NEW h2, NEW k, NEW left, NEW right, NEW id, CutInTwo(h, h2, k, left, right, id)
    PROVE  /\ Sound(h2, SplitStarts(f, Len(h), k, left, 0), H)
           /\ h2[1].size = h[1].size /\ h2 \in Seq(Piece) /\ Len(h2) = Len(h) + 1
<1>1. Len(h) \in Nat
  BY DEF Sound, Table
<1>2. h2 \in Seq(Piece) /\ Len(h2) = Len(h) + 1
  BY DEF CutInTwo, Halved
<1>3. /\ k \in 2 .. Len(h) /\ h[k].flag = "FREE"
      /\ left \in Nat /\ right \in Nat /\ left + right = h[k].size
      /\ id \in Nat /\ id < Slots(h) /\ \A i \in 1 .. Len(h) : h[i].id # id
      /\ Halved(h, h2, k, left, right, id)
  BY DEF CutInTwo
<1>4. PICK n \in Nat : n = Len(h) /\ k \in 2 .. n /\ \A i \in 1 .. n : h[i].id # id
  BY <1>1, <1>3
<1>5. Sound(h2, SplitStarts(f, n, k, left, 0), H) /\ h2[1].size = h[1].size
  BY <1>3, <1>4, HalvedSound
<1> QED BY <1>2, <1>4, <1>5

-----------------------------------------------------------------------------
(* Descriptors.                                                            *)

\* The table never has fewer descriptors than it was made with.
LEMMA TableIsAtLeast ==
    ASSUME NEW s \in TableSizes
    PROVE  s \div DescSize \in Nat /\ s \div DescSize >= Table0
<1>1. PICK n \in Nat : s = (Table0 + n * Grow) * DescSize
  BY DEF TableSizes
<1> DEFINE t == Table0 + n * Grow
<1>2. n * Grow \in Nat
  BY Constants
<1>3. t \in Nat /\ t >= Table0
  BY <1>2, Constants
<1> HIDE DEF t
<1>4. s = t * DescSize
  BY <1>1 DEF t
<1>5. s \div DescSize = t
  BY <1>3, <1>4, Constants
<1> QED BY <1>3, <1>5

\* One of more descriptors than there are blocks describes none.
LEMMA DescriptorLeft ==
    ASSUME NEW h, Table(h), lost = {}, Len(h) < Slots(h)
    PROVE  Unused(h) # {}
<1>1. PICK n \in Nat : n = Len(h) /\ h \in Seq(Piece) /\ DOMAIN h = 1 .. n
  BY DEF Table
<1>2. PICK m \in Nat : m = Slots(h) /\ n < m
  BY <1>1, TableGrows DEF Table, Slots
<1> SUFFICES ASSUME \A d \in 0 .. m - 1 : \E k \in 1 .. n : h[k].id = d PROVE FALSE
  BY <1>1, <1>2 DEF Unused
<1> DEFINE S == 0 .. m - 1
           T == 1 .. n
           g == [d \in S |-> CHOOSE k \in T : h[k].id = d]
<1>3. IsFiniteSet(S) /\ IsFiniteSet(T) /\ Cardinality(S) = m /\ Cardinality(T) = n
  <2>1. 0 \in Int /\ m - 1 \in Int /\ 1 \in Int /\ n \in Int
    OBVIOUS
  <2>2. IsFiniteSet(S) /\ Cardinality(S) = IF 0 > m - 1 THEN 0 ELSE m - 1 - 0 + 1
    BY <2>1, FS_Interval
  <2>3. IsFiniteSet(T) /\ Cardinality(T) = IF 1 > n THEN 0 ELSE n - 1 + 1
    BY <2>1, FS_Interval
  <2> QED BY <1>2, <2>2, <2>3
<1>4. \A d \in S : g[d] \in T /\ h[g[d]].id = d
  OBVIOUS
<1>5. g \in [S -> T]
  <2>1. \A d \in S : g[d] \in T
    BY <1>4
  <2> QED BY <2>1
<1>6. Cardinality(T) < Cardinality(S)
  BY <1>2, <1>3
<1> HIDE DEF g, S, T
<1>7. \E x, y \in S : x # y /\ g[x] = g[y]
  BY <1>3, <1>5, <1>6, FS_PigeonHole
<1> QED BY <1>4, <1>7

\* Each client's chunk is one block, and at most every other block is free:
\* so there are at most two blocks for each, the table and one more.
LEMMA BlocksPerChunk ==
    ASSUME NEW h, NEW f, NEW H, Sound(h, f, H), Whole(h), IsFiniteSet(H)
    PROVE  Len(h) <= 2 * Cardinality(H) + 2
<1>1. PICK n \in Nat : n = Len(h) /\ n >= 2 /\ h \in Seq(Piece) /\ Laid(h, f)
  BY DEF Sound, Table
<1>2. PICK p \in Nat : 2 * p + 1 <= n /\ n <= 2 * p + 2
  <2>1. (n - 1) \div 2 \in Nat /\ 2 * ((n - 1) \div 2) + 1 <= n /\ n <= 2 * ((n - 1) \div 2) + 2
    BY <1>1
  <2> QED BY <2>1
<1> DEFINE S == 1 .. p
           Has(i, c) == \E k \in {2 * i, 2 * i + 1} :
                           /\ k \in 2 .. n /\ h[k].flag = "USED"
                           /\ f[k] = c.ptr /\ h[k].size >= c.size
           g == [i \in S |-> CHOOSE c \in H : Has(i, c)]
<1>3. \A i \in S : \E c \in H : Has(i, c)
  <2> TAKE i \in S
  <2>1. 2 * i \in 2 .. n /\ 2 * i + 1 \in 2 .. n /\ 2 * i \in 1 .. n - 1 /\ 2 * i \in 1 .. n
        /\ 2 * i + 1 \in 1 .. n
    BY <1>2
  <2>2. ~(h[2 * i].flag = "FREE" /\ h[2 * i + 1].flag = "FREE")
    BY <1>1, <2>1 DEF Whole
  <2>3. h[2 * i] \in Piece /\ h[2 * i + 1] \in Piece
    BY <1>1, <2>1, ElementOf
  <2>4. PICK k \in {2 * i, 2 * i + 1} : k \in 2 .. n /\ h[k].flag = "USED"
    BY <2>1, <2>2, <2>3 DEF Piece, Flags
  <2>5. PICK c \in H : f[k] = c.ptr /\ h[k].size >= c.size
    BY <1>1, <2>4 DEF Sound, Given
  <2> QED BY <2>4, <2>5
<1>4. \A i \in S : g[i] \in H /\ Has(i, g[i])
  BY <1>3
<1> HIDE DEF g
<1>5. ASSUME NEW i \in S, NEW j \in S, g[i] = g[j] PROVE i = j
  <2>1. PICK k \in {2 * i, 2 * i + 1} :
           k \in 2 .. n /\ f[k] = g[i].ptr /\ h[k].size >= g[i].size
    BY <1>4
  <2>2. PICK l \in {2 * j, 2 * j + 1} :
           l \in 2 .. n /\ f[l] = g[i].ptr /\ h[l].size >= g[i].size
    BY <1>4, <1>5
  <2>3. g[i] \in Chunk
    BY <1>4 DEF Sound, Given
  <2>4. PICK a \in Nat, b \in Nat : a = g[i].ptr /\ b = g[i].size /\ b > 0
    BY <2>3, ChunkTypes
  <2>5. k \in 1 .. Len(h) /\ l \in 1 .. Len(h)
    BY <1>1, <2>1, <2>2
  <2>6. h[k].size \in Nat /\ h[l].size \in Nat
    <3>1. h[k] \in Piece /\ h[l] \in Piece
      BY <1>1, <2>5, ElementOf
    <3> QED BY <3>1 DEF Piece
  <2>7. f[k] <= a /\ a < f[k] + h[k].size /\ f[l] <= a /\ a < f[l] + h[l].size
    BY <2>1, <2>2, <2>4, <2>6
  <2>8. k = l
    BY <1>1, <2>5, <2>7, OneBlockThere
  <2> QED BY <2>1, <2>2, <2>8
<1>6. IsFiniteSet(S) /\ Cardinality(S) = p
  <2>1. 1 \in Int /\ p \in Int
    OBVIOUS
  <2>2. IsFiniteSet(S) /\ Cardinality(S) = IF 1 > p THEN 0 ELSE p - 1 + 1
    BY <2>1, FS_Interval
  <2> QED BY <2>2
<1>7. g \in [S -> H]
  <2>1. g = [i \in S |-> g[i]]
    BY DEF g
  <2>2. \A i \in S : g[i] \in H
    BY <1>4
  <2> HIDE DEF S
  <2> QED BY <2>1, <2>2
<1> HIDE DEF S
<1>8. Cardinality(H) \in Nat
  BY FS_CardinalityType
<1>9. ~(Cardinality(H) < Cardinality(S))
  <2> SUFFICES ASSUME Cardinality(H) < Cardinality(S) PROVE FALSE
    OBVIOUS
  <2>1. \E x, y \in S : x # y /\ g[x] = g[y]
    BY <1>6, <1>7, FS_PigeonHole
  <2> QED BY <1>5, <2>1
<1> QED BY <1>1, <1>2, <1>6, <1>8, <1>9

-----------------------------------------------------------------------------
(* alloc, in a table with room.                                            *)

\* create finds a descriptor and the table stays as it is.
LEMMA CreateFinds ==
    ASSUME NEW h, Table(h), lost = {}, Len(h) < Slots(h), NEW k \in 1 .. Len(h),
           NEW size \in Nat, NEW flag \in Flags
    PROVE  /\ CanCreate(h) /\ CreateAfter(h, k, size, flag) \in Seq(Piece)
           /\ \E id \in Nat :
                 /\ id < Slots(h) /\ \A i \in 1 .. Len(h) : h[i].id # id
                 /\ InsertedTo(CreateAfter(h, k, size, flag), h, k + 1,
                               [id |-> id, size |-> size, flag |-> flag])
<1>1. Unused(h) # {}
  BY DescriptorLeft
<1>2. h \in Seq(Piece) /\ Len(h) \in Nat /\ DOMAIN h = 1 .. Len(h) /\ Slots(h) \in Nat
  BY TableGrows DEF Table, Slots
<1>3. Unused(h) \in SUBSET Nat
  BY <1>2 DEF Unused
<1> DEFINE id == Min(Unused(h))
           e == [id |-> id, size |-> size, flag |-> flag]
<1>4. id \in Unused(h)
  BY <1>1, <1>3, MinIsLeast
<1>5. CreateAfter(h, k, size, flag) = InsertAt(h, k + 1, e)
  BY <1>1 DEF CreateAfter
<1> HIDE DEF id
<1>6. id \in Nat /\ id < Slots(h) /\ \A i \in 1 .. Len(h) : h[i].id # id
  BY <1>2, <1>4 DEF Unused
<1>7. e \in Piece
  BY <1>6 DEF Piece
<1>8. k + 1 \in 1 .. Len(h) + 1
  BY <1>2
<1>9. InsertAt(h, k + 1, e) \in Seq(Piece) /\ InsertedTo(InsertAt(h, k + 1, e), h, k + 1, e)
  BY <1>2, <1>7, <1>8, Inserted
<1> QED BY <1>1, <1>5, <1>6, <1>9 DEF CanCreate

\* Cut on its left a block is halved, but for the flag of the later half.
LeftHalved(h, h2, f, H, k, left, rest) ==
    /\ h2 \in Seq(Piece)
    /\ \E h3 : /\ Sound(h3, SplitStarts(f, Len(h), k, left, 0), H)
               /\ Len(h3) = Len(h) + 1 /\ h3[1].size = h[1].size
               /\ h3[k + 1].flag = "FREE" /\ h3[k + 1].size = rest
               /\ FlaggedTo(h2, h3, k + 1, "USED")

LEMMA CutLeft ==
    ASSUME lost = {}, NEW h, NEW f, NEW H, Sound(h, f, H), NEW n \in Nat, n = Len(h),
           n < Slots(h), NEW k \in 2 .. n, h[k].flag = "FREE",
           NEW left \in Nat, NEW rest \in Nat, left + rest = h[k].size,
           NEW cut, cut = [h EXCEPT ![k].size = left],
           NEW h2, h2 = CreateAfter(cut, k, rest, "USED")
    PROVE  CanCreate(cut) /\ LeftHalved(h, h2, f, H, k, left, rest)
<1>1. h \in Seq(Piece) /\ Table(h) /\ k \in 1 .. Len(h) /\ k \in 1 .. n /\ n >= 2
  BY DEF Sound, Table
<1>2. cut \in Seq(Piece) /\ SizedTo(cut, h, k, left)
  BY <1>1, Resized
<1>3. /\ Len(cut) = n
      /\ \A j \in 1 .. n : cut[j].id = h[j].id /\ cut[j].flag = h[j].flag
                           /\ cut[j].size = IF j = k THEN left ELSE h[j].size
  BY <1>2 DEF SizedTo
<1>4. cut[1].size = h[1].size /\ Slots(cut) = Slots(h)
  <2>1. 1 \in 1 .. n /\ 1 # k
    BY <1>1
  <2> QED BY <1>3, <2>1 DEF Slots
<1>5. Table(cut)
  <2>1. 1 \in 1 .. n /\ 2 \in 1 .. n
    BY <1>1
  <2>2. cut[1].flag = "USED" /\ cut[1].size \in TableSizes /\ cut[1].id = 0 /\ cut[2].id = 1
    BY <1>1, <1>3, <1>4, <2>1 DEF Table
  <2>3. /\ \A i, j \in 1 .. n : cut[i].id = cut[j].id => i = j
        /\ \A j \in 1 .. n : cut[j].id < Slots(cut)
    BY <1>1, <1>3, <1>4 DEF Table
  <2> QED BY <1>1, <1>2, <1>3, <2>2, <2>3 DEF Table
<1>6. "USED" \in Flags /\ "FREE" \in Flags /\ k \in 1 .. Len(cut) /\ Len(cut) < Slots(cut)
  BY <1>1, <1>3, <1>4 DEF Flags
<1>7. /\ CanCreate(cut) /\ h2 \in Seq(Piece)
      /\ \E id \in Nat : /\ id < Slots(cut) /\ \A i \in 1 .. Len(cut) : cut[i].id # id
                         /\ InsertedTo(h2, cut, k + 1, [id |-> id, size |-> rest, flag |-> "USED"])
  BY <1>5, <1>6, CreateFinds
<1>8. PICK id \in Nat :
         /\ id < Slots(cut) /\ \A i \in 1 .. Len(cut) : cut[i].id # id
         /\ InsertedTo(h2, cut, k + 1, [id |-> id, size |-> rest, flag |-> "USED"])
  BY <1>7
<1> DEFINE e == [id |-> id, size |-> rest, flag |-> "USED"]
           h3 == [h2 EXCEPT ![k + 1].flag = "FREE"]
<1>9. e.id = id /\ e.size = rest /\ e.flag = "USED"
  OBVIOUS
<1> HIDE DEF e
<1>10. /\ Len(h2) = n + 1
       /\ \A j \in 1 .. n + 1 : h2[j] = IF j < k + 1 THEN cut[j]
                                        ELSE IF j = k + 1 THEN e ELSE cut[j - 1]
  BY <1>3, <1>8 DEF InsertedTo, e
<1>11. k + 1 \in 1 .. Len(h2) /\ k + 1 \in 1 .. n + 1 /\ ~(k + 1 < k + 1)
  BY <1>10
<1>12. h3 \in Seq(Piece) /\ FlaggedTo(h3, h2, k + 1, "FREE")
  BY <1>6, <1>7, <1>11, Reflagged
<1> HIDE DEF h3
<1>13. /\ Len(h3) = n + 1
       /\ \A j \in 1 .. n + 1 : h3[j].id = h2[j].id /\ h3[j].size = h2[j].size
                                /\ h3[j].flag = IF j = k + 1 THEN "FREE" ELSE h2[j].flag
  BY <1>10, <1>12 DEF FlaggedTo
<1>14. ASSUME NEW j \in 1 .. n + 1
       PROVE  /\ h3[j].id = IF j <= k THEN h[j].id ELSE IF j = k + 1 THEN id ELSE h[j - 1].id
              /\ h3[j].flag = IF j <= k THEN h[j].flag
                              ELSE IF j = k + 1 THEN "FREE" ELSE h[j - 1].flag
              /\ h3[j].size = IF j < k THEN h[j].size ELSE IF j = k THEN left
                              ELSE IF j = k + 1 THEN rest ELSE h[j - 1].size
  <2>1. CASE j <= k
    <3>1. j \in 1 .. n /\ j < k + 1 /\ j # k + 1
      BY <2>1
    <3>2. h3[j].id = cut[j].id /\ h3[j].size = cut[j].size /\ h3[j].flag = cut[j].flag
      <4>1. h2[j] = cut[j]
        BY <1>10, <3>1
      <4>2. h3[j].id = h2[j].id /\ h3[j].size = h2[j].size /\ h3[j].flag = h2[j].flag
        BY <1>13, <3>1
      <4> QED BY <4>1, <4>2
    <3>3. /\ cut[j].id = h[j].id /\ cut[j].flag = h[j].flag
          /\ cut[j].size = IF j = k THEN left ELSE h[j].size
      BY <1>3, <3>1
    <3> QED BY <2>1, <3>1, <3>2, <3>3
  <2>2. CASE j = k + 1
    <3>1. ~(j < k + 1) /\ ~(j <= k) /\ ~(j < k) /\ j # k
      BY <2>2
    <3>2. h2[j] = e
      BY <1>10, <2>2, <3>1
    <3> QED BY <1>9, <1>13, <2>2, <3>1, <3>2
  <2>3. CASE j > k + 1
    <3>1. /\ ~(j < k + 1) /\ ~(j <= k) /\ ~(j < k) /\ j # k /\ j # k + 1
          /\ j - 1 \in 1 .. n /\ j - 1 # k
      BY <2>3
    <3>2. /\ h3[j].id = cut[j - 1].id /\ h3[j].size = cut[j - 1].size
          /\ h3[j].flag = cut[j - 1].flag
      <4>1. h2[j] = cut[j - 1]
        BY <1>10, <3>1
      <4>2. h3[j].id = h2[j].id /\ h3[j].size = h2[j].size /\ h3[j].flag = h2[j].flag
        BY <1>13, <3>1
      <4> QED BY <4>1, <4>2
    <3>3. /\ cut[j - 1].id = h[j - 1].id /\ cut[j - 1].flag = h[j - 1].flag
          /\ cut[j - 1].size = h[j - 1].size
      BY <1>3, <3>1
    <3> QED BY <3>1, <3>2, <3>3
  <2> QED BY <2>1, <2>2, <2>3
<1>15. Halved(h, h3, k, left, rest, id)
  BY <1>12, <1>13, <1>14 DEF Halved
<1>16. id < Slots(h) /\ \A i \in 1 .. n : h[i].id # id
  BY <1>3, <1>4, <1>8
<1>17. Sound(h3, SplitStarts(f, n, k, left, 0), H) /\ h3[1].size = h[1].size
  <2>1. CutInTwo(h, h3, k, left, rest, id)
    BY <1>1, <1>15, <1>16 DEF CutInTwo
  <2> QED BY <2>1, CutSound
<1>18. h3[k + 1].flag = "FREE" /\ h3[k + 1].size = rest /\ h2[k + 1].flag = "USED"
  BY <1>9, <1>10, <1>11, <1>13
<1>19. FlaggedTo(h2, h3, k + 1, "USED")
  BY <1>10, <1>13, <1>18 DEF FlaggedTo
<1> QED BY <1>7, <1>13, <1>17, <1>18, <1>19 DEF LeftHalved

\* What alloc makes of the block at, cut on its right.
CutFor(h, at, right) == [SplitRight(h, at, right) EXCEPT ![at].flag = "USED"]

\* And if need be only.
Chunked(h, at, right) ==
    IF right = 0 THEN [h EXCEPT ![at].flag = "USED"] ELSE CutFor(h, at, right)

\* The block is big enough, and there are descriptors to spare; in h, as alloc
\* has it by then, it may be flagged already.
Cuttable(g, h, at, flag, size, right) ==
    /\ Len(g) < Slots(g)
    /\ at \in 2 .. Len(g) /\ g[at].flag = "FREE"
    /\ h \in Seq(Piece) /\ FlaggedTo(h, g, at, flag)
    /\ size \in Sizes /\ right \in Nat /\ size + right = g[at].size

\* Cut on its right it is halved, but for the flag of the earlier half.
LEMMA CutRight ==
    ASSUME lost = {}, NEW g, NEW f, NEW H, Sound(g, f, H),
           NEW h, NEW at, NEW flag, NEW size, NEW right, Cuttable(g, h, at, flag, size, right)
    PROVE  /\ CanCreate(h)
           /\ \E g2, id : /\ CutFor(h, at, right) \in Seq(Piece)
                          /\ CutInTwo(g, g2, at, size, right, id)
                          /\ FlaggedTo(CutFor(h, at, right), g2, at, "USED")
<1>0. PICK n \in Nat : /\ n = Len(g) /\ n < Slots(g) /\ at \in 2 .. n
                       /\ g[at].flag = "FREE" /\ h \in Seq(Piece)
                       /\ FlaggedTo(h, g, at, flag)
                       /\ size \in Sizes /\ right \in Nat /\ size + right = g[at].size
  BY DEF Cuttable, Sound, Table
<1>1. g \in Seq(Piece) /\ Table(g) /\ Laid(g, f) /\ at \in 1 .. n /\ n >= 2
  BY <1>0 DEF Sound, Table
<1>2. /\ Len(h) = n
      /\ \A j \in 1 .. n : h[j].id = g[j].id /\ h[j].size = g[j].size
                           /\ h[j].flag = IF j = at THEN flag ELSE g[j].flag
  BY <1>0 DEF FlaggedTo
<1>3. Table(h)
  BY <1>0, <1>1, FlagsAside
<1>4. h[1].size = g[1].size /\ Slots(h) = Slots(g)
  <2>1. 1 \in 1 .. n
    BY <1>1
  <2> QED BY <1>2, <2>1 DEF Slots
<1>5. "USED" \in Flags /\ "FREE" \in Flags /\ at \in 1 .. Len(h) /\ Len(h) < Slots(h)
  BY <1>0, <1>1, <1>2, <1>4 DEF Flags
<1>6. size \in Nat /\ size > 0 /\ size < Word
  <2>1. g[at].size < Word
    BY <1>0, <1>1, InRegion
  <2>2. size \in Nat /\ size > 0 /\ right \in Nat /\ size + right = g[at].size
    BY <1>0, Constants
  <2> QED BY <2>1, <2>2, Constants
<1> DEFINE made == CreateAfter(h, at, right, "FREE")
           done == [made EXCEPT ![at].size = size]
           g2 == [done EXCEPT ![at].flag = "FREE"]
           r == [done EXCEPT ![at].flag = "USED"]
<1>7. /\ CanCreate(h) /\ made \in Seq(Piece)
      /\ \E id \in Nat : /\ id < Slots(h) /\ \A i \in 1 .. Len(h) : h[i].id # id
                         /\ InsertedTo(made, h, at + 1, [id |-> id, size |-> right, flag |-> "FREE"])
  <2>1. right \in Nat
    BY <1>0
  <2> QED BY <1>3, <1>5, <2>1, CreateFinds
<1> HIDE DEF made
<1>8. PICK id \in Nat :
         /\ id < Slots(h) /\ \A i \in 1 .. Len(h) : h[i].id # id
         /\ InsertedTo(made, h, at + 1, [id |-> id, size |-> right, flag |-> "FREE"])
  BY <1>7
<1> DEFINE e == [id |-> id, size |-> right, flag |-> "FREE"]
<1>9. e.id = id /\ e.size = right /\ e.flag = "FREE"
  OBVIOUS
<1> HIDE DEF e
<1>10. /\ Len(made) = n + 1
       /\ \A j \in 1 .. n + 1 : made[j] = IF j < at + 1 THEN h[j]
                                          ELSE IF j = at + 1 THEN e ELSE h[j - 1]
  BY <1>2, <1>8 DEF InsertedTo, e
<1>11. made[at] = h[at] /\ at \in 1 .. n + 1 /\ at \in 1 .. Len(made) /\ at < at + 1
  BY <1>0, <1>1, <1>10
<1>12. SplitRight(h, at, right) = done
  <2>1. SplitRight(h, at, right) = [made EXCEPT ![at].size = (made[at].size - right) % Word]
    BY <1>7 DEF SplitRight, made
  <2>2. made[at].size = size + right
    BY <1>0, <1>1, <1>2, <1>11
  <2>3. (size + right) - right = size
    BY <1>0, <1>6
  <2>4. size % Word = size
    <3>1. Word \in Nat /\ size \in Nat /\ size < Word
      BY <1>6, Constants
    <3> QED BY <3>1, Unwrapped
  <2>5. (made[at].size - right) % Word = size
    BY <2>2, <2>3, <2>4
  <2> QED BY <2>1, <2>5
<1>13. done \in Seq(Piece) /\ SizedTo(done, made, at, size)
  BY <1>6, <1>7, <1>11, Resized
<1> HIDE DEF done
<1>14. at \in 1 .. Len(done)
  BY <1>11, <1>13 DEF SizedTo
<1>15. r \in Seq(Piece) /\ FlaggedTo(r, done, at, "USED")
  BY <1>5, <1>13, <1>14, Reflagged
<1>16. g2 \in Seq(Piece) /\ FlaggedTo(g2, done, at, "FREE")
  BY <1>5, <1>13, <1>14, Reflagged
<1> HIDE DEF g2, r
<1>17. /\ Len(g2) = n + 1
       /\ \A j \in 1 .. n + 1 :
             /\ g2[j].id = made[j].id
             /\ g2[j].flag = IF j = at THEN "FREE" ELSE made[j].flag
             /\ g2[j].size = IF j = at THEN size ELSE made[j].size
  BY <1>10, <1>13, <1>16 DEF SizedTo, FlaggedTo
<1>18. ASSUME NEW j \in 1 .. n + 1
       PROVE  /\ g2[j].id = IF j <= at THEN g[j].id ELSE IF j = at + 1 THEN id ELSE g[j - 1].id
              /\ g2[j].flag = IF j <= at THEN g[j].flag
                              ELSE IF j = at + 1 THEN "FREE" ELSE g[j - 1].flag
              /\ g2[j].size = IF j < at THEN g[j].size ELSE IF j = at THEN size
                              ELSE IF j = at + 1 THEN right ELSE g[j - 1].size
  <2>1. CASE j <= at
    <3>1. j \in 1 .. n /\ j < at + 1 /\ j # at + 1
      BY <1>0, <2>1
    <3>2. made[j] = h[j]
      BY <1>10, <3>1
    <3>3. h[j].id = g[j].id /\ h[j].size = g[j].size /\ (j # at => h[j].flag = g[j].flag)
      BY <1>2, <3>1
    <3>4. /\ g2[j].id = made[j].id
          /\ g2[j].flag = IF j = at THEN "FREE" ELSE made[j].flag
          /\ g2[j].size = IF j = at THEN size ELSE made[j].size
      BY <1>17
    <3> QED BY <1>0, <2>1, <3>1, <3>2, <3>3, <3>4
  <2>2. CASE j = at + 1
    <3>1. ~(j < at + 1) /\ ~(j <= at) /\ ~(j < at) /\ j # at
      BY <1>0, <2>2
    <3>2. made[j] = e
      BY <1>10, <2>2, <3>1
    <3> QED BY <1>9, <1>17, <2>2, <3>1, <3>2
  <2>3. CASE j > at + 1
    <3>1. /\ ~(j < at + 1) /\ ~(j <= at) /\ ~(j < at) /\ j # at /\ j # at + 1
          /\ j - 1 \in 1 .. n /\ j - 1 # at
      BY <1>0, <2>3
    <3>2. made[j] = h[j - 1]
      BY <1>10, <3>1
    <3>3. h[j - 1].id = g[j - 1].id /\ h[j - 1].size = g[j - 1].size
          /\ h[j - 1].flag = g[j - 1].flag
      BY <1>2, <3>1
    <3>4. g2[j].id = made[j].id /\ g2[j].flag = made[j].flag /\ g2[j].size = made[j].size
      BY <1>17, <3>1
    <3> QED BY <3>1, <3>2, <3>3, <3>4
  <2> QED BY <1>0, <2>1, <2>2, <2>3
<1>19. Halved(g, g2, at, size, right, id)
  BY <1>0, <1>16, <1>17, <1>18 DEF Halved
<1>20. id < Slots(g) /\ \A i \in 1 .. n : g[i].id # id
  BY <1>0, <1>2, <1>4, <1>8
<1>21. FlaggedTo(r, g2, at, "USED")
  <2>1. /\ Len(r) = n + 1
        /\ \A j \in 1 .. n + 1 :
              /\ r[j].id = done[j].id /\ r[j].size = done[j].size
              /\ r[j].flag = IF j = at THEN "USED" ELSE done[j].flag
    BY <1>10, <1>13, <1>15 DEF SizedTo, FlaggedTo
  <2>2. \A j \in 1 .. n + 1 :
              /\ g2[j].id = done[j].id /\ g2[j].size = done[j].size
              /\ g2[j].flag = IF j = at THEN "FREE" ELSE done[j].flag
    BY <1>10, <1>13, <1>16 DEF SizedTo, FlaggedTo
  <2> QED BY <1>17, <2>1, <2>2 DEF FlaggedTo
<1>22. r = CutFor(h, at, right)
  BY <1>12 DEF CutFor, r
<1>23. CutInTwo(g, g2, at, size, right, id)
  BY <1>0, <1>6, <1>19, <1>20 DEF CutInTwo
<1> QED BY <1>7, <1>15, <1>21, <1>22, <1>23

\* Where the blocks of h begin, and where the region ends, is a whole number of units.
OnUnits(h, f, G) == \A j \in 1 .. Len(h) + 1 : f[j] \in Multiples(G)

LEMMA SplitOnUnits ==
    ASSUME NEW G \in Nat, NEW h, NEW f, Laid(h, f), OnUnits(h, f, G),
           NEW n \in Nat, n = Len(h), NEW k \in 2 .. n, NEW left \in Multiples(G),
           NEW h2, Len(h2) = n + 1
    PROVE  OnUnits(h2, SplitStarts(f, n, k, left, 0), G)
<1> SUFFICES ASSUME NEW j \in 1 .. n + 2
             PROVE  SplitStarts(f, n, k, left, 0)[j] \in Multiples(G)
  BY DEF OnUnits
<1>1. \A i \in 1 .. n + 1 : f[i] \in Multiples(G) /\ f[i] \in Nat
  BY DEF OnUnits, Laid
<1>2. k \in 1 .. n + 1 /\ 2 \in 1 .. n + 1
  OBVIOUS
<1>3. f[k] + left \in Multiples(G) /\ f[2] + 0 = f[2] /\ f[2] \in Multiples(G)
  <2>1. f[k] \in Multiples(G) /\ f[2] \in Multiples(G) /\ f[2] \in Nat
    BY <1>1, <1>2
  <2>2. f[k] + left \in Multiples(G)
    BY <2>1, MultiplesAdd
  <2> QED BY <2>1, <2>2
<1>4. CASE j = 2
  BY <1>3, <1>4 DEF SplitStarts
<1>5. CASE j # 2 /\ j <= k
  <2>1. j \in 1 .. n + 1
    BY <1>5
  <2> QED BY <1>1, <1>5, <2>1 DEF SplitStarts
<1>6. CASE j = k + 1
  <2>1. j # 2 /\ ~(j <= k)
    BY <1>6
  <2> QED BY <1>3, <1>6, <2>1 DEF SplitStarts
<1>7. CASE j > k + 1
  <2>1. j # 2 /\ ~(j <= k) /\ j # k + 1 /\ j - 1 \in 1 .. n + 1
    BY <1>7
  <2> QED BY <1>1, <2>1 DEF SplitStarts
<1> QED BY <1>4, <1>5, <1>6, <1>7

\* r is g with a chunk at p, which was nobody's; the table is the same.
ChunkTaken(g, r, p, size, H, G) ==
    /\ ChunkAt(p, size) \in Chunk /\ Nobodys(p, H)
    /\ \E e : Sound(r, e, H \cup {ChunkAt(p, size)}) /\ OnUnits(r, e, G)
    /\ r[1].size = g[1].size

\* The earlier half is the client's.
LEMMA TakeHalf ==
    ASSUME NEW g, NEW f, NEW H, Sound(g, f, H),
           NEW g2, NEW at, NEW size \in Sizes, NEW right, NEW id,
           CutInTwo(g, g2, at, size, right, id),
           NEW G \in Nat, OnUnits(g, f, G), size \in Multiples(G),
           NEW r \in Seq(Piece), FlaggedTo(r, g2, at, "USED")
    PROVE  ChunkTaken(g, r, f[at], size, H, G)
<1>1. PICK n \in Nat : n = Len(g) /\ at \in 2 .. n /\ at \in 1 .. n + 1 /\ Laid(g, f)
  <2>1. at \in 2 .. Len(g) /\ Laid(g, f) /\ Table(g)
    BY Zenon DEF CutInTwo, Sound
  <2>2. Len(g) \in Nat
    BY <2>1 DEF Table
  <2>3. at \in 1 .. Len(g) + 1
    BY <2>1, <2>2
  <2> QED BY <2>1, <2>2, <2>3
<1> DEFINE s == SplitStarts(f, n, at, size, 0)
<1>2. /\ Sound(g2, s, H) /\ g2[1].size = g[1].size
      /\ g2 \in Seq(Piece) /\ Len(g2) = n + 1
  BY <1>1, CutSound
<1>3. s[at] = f[at]
  <2>1. f[at] \in Nat
    BY <1>1 DEF Laid
  <2>2. at \in 1 .. n + 2 /\ at <= at /\ f[at] + 0 = f[at]
    BY <1>1, <2>1
  <2> QED BY <2>2 DEF SplitStarts
<1>4. g2[at].flag = "FREE" /\ g2[at].size = size
  <2>1. at <= at /\ ~(at < at)
    BY <1>1
  <2> QED BY <1>1, <2>1 DEF CutInTwo, Halved
<1>5. at \in 2 .. Len(g2) /\ 1 \in 1 .. Len(g2)
  BY <1>1, <1>2
<1>6. OnUnits(r, s, G)
  <2>1. Len(r) = n + 1
    BY <1>2 DEF FlaggedTo
  <2> QED BY <1>1, <2>1, SplitOnUnits
<1> HIDE DEF s
<1>7. /\ ChunkAt(s[at], size) \in Chunk /\ Nobodys(s[at], H)
      /\ Sound(r, s, H \cup {ChunkAt(s[at], size)})
  BY <1>2, <1>4, <1>5, TakeWhole
<1>8. r[1].size = g2[1].size
  BY <1>5 DEF FlaggedTo
<1> QED BY <1>2, <1>3, <1>6, <1>7, <1>8 DEF ChunkTaken

\* The chunk is at the beginning of the at-th block, which is cut behind it
\* unless it is just as big.
LEMMA TakeBeginning ==
    ASSUME lost = {}, NEW g, NEW f, NEW H, Sound(g, f, H),
           NEW h, NEW at, NEW flag, NEW size, NEW right, Cuttable(g, h, at, flag, size, right),
           NEW G \in Nat, OnUnits(g, f, G), size \in Multiples(G),
           NEW r, r = Chunked(h, at, right)
    PROVE  /\ right # 0 => CanCreate(h)
           /\ ChunkTaken(g, r, f[at], size, H, G)
<1>1. CASE right = 0
  <2>0. r = [h EXCEPT ![at].flag = "USED"]
    BY <1>1 DEF Chunked
  <2>1. /\ size \in Sizes /\ size + 0 = g[at].size /\ at \in 2 .. Len(g)
        /\ g[at].flag = "FREE" /\ h \in Seq(Piece) /\ FlaggedTo(h, g, at, flag)
    BY <1>1 DEF Cuttable
  <2>2. g[at].size = size
    BY <2>1, Constants
  <2>3. Len(h) = Len(g) /\ Len(g) \in Nat /\ Len(g) >= 2
    BY <2>1 DEF FlaggedTo, Sound, Table
  <2>4. "USED" \in Flags /\ at \in 1 .. Len(h) /\ 1 \in 1 .. Len(g)
    BY <2>1, <2>3 DEF Flags
  <2>5. r \in Seq(Piece) /\ FlaggedTo(r, h, at, "USED")
    <3>1. h \in Seq(Piece)
      BY <2>1
    <3>2. LET e == [h EXCEPT ![at].flag = "USED"]
          IN  e \in Seq(Piece) /\ FlaggedTo(e, h, at, "USED")
      BY <2>4, <3>1, Reflagged
    <3> QED BY <2>0, <3>2
  <2>6. FlaggedTo(r, g, at, "USED")
    BY <2>1, <2>3, <2>5 DEF FlaggedTo
  <2>7. /\ ChunkAt(f[at], size) \in Chunk /\ Nobodys(f[at], H)
        /\ Sound(r, f, H \cup {ChunkAt(f[at], size)})
    BY <2>1, <2>2, <2>5, <2>6, TakeWhole
  <2>8. OnUnits(r, f, G) /\ r[1].size = g[1].size
    <3>1. Len(r) = Len(g) /\ r[1].size = g[1].size
      BY <2>4, <2>6 DEF FlaggedTo
    <3> QED BY <3>1 DEF OnUnits
  <2> QED BY <1>1, <2>7, <2>8 DEF ChunkTaken
<1>2. CASE right # 0
  <2>1. r = CutFor(h, at, right)
    BY <1>2 DEF Chunked
  <2>2. /\ CanCreate(h)
        /\ \E g2, id : /\ r \in Seq(Piece)
                       /\ CutInTwo(g, g2, at, size, right, id) /\ FlaggedTo(r, g2, at, "USED")
    BY <2>1, CutRight
  <2>3. size \in Sizes
    BY DEF Cuttable
  <2>4. PICK g2, id : /\ r \in Seq(Piece)
                      /\ CutInTwo(g, g2, at, size, right, id) /\ FlaggedTo(r, g2, at, "USED")
    BY <2>2
  <2>5. ChunkTaken(g, r, f[at], size, H, G)
    BY <2>3, <2>4, TakeHalf
  <2> QED BY <2>2, <2>5
<1> QED BY <1>1, <1>2

\* What a client gets: the storage it asks for, as aligned as it asks.
Got(a, size, align, G) ==
    /\ a.ok /\ a.lost = {}
    /\ align # 0 => a.ptr % align = 0
    /\ ChunkTaken(heap, a.heap, a.ptr, size, held, G)

\* The block alloc stops at, and where in it the chunk goes.
Chosen(f, size, align, k, left, rest, right) ==
    /\ k = Min(Suitable(size, align)) /\ k \in 2 .. Len(heap) /\ heap[k].flag = "FREE"
    /\ LeftSize(Start(heap, k), heap[k].size, size, align) = left
    /\ (Start(heap, k) + left) % Word = f[k] + left
    /\ (heap[k].size - left) % Word = rest /\ (rest - size) % Word = right
    /\ left + rest = heap[k].size /\ size + right = rest
    /\ align # 0 => (f[k] + left) % align = 0

LEMMA BlockChosen ==
    ASSUME NEW G \in Nat, G > 0, Granular(G),
           NEW f, Sound(heap, f, held), OnUnits(heap, f, G),
           NEW size \in Sizes, NEW align \in Aligns, CanAlloc(size, align)
    PROVE  \E k \in 2 .. Len(heap), left \in Multiples(G), rest \in Nat, right \in Nat :
              Chosen(f, size, align, k, left, rest, right)
<1>1. PICK n \in Nat : n = Len(heap) /\ n >= 2 /\ heap \in Seq(Piece)
                       /\ Laid(heap, f) /\ Table(heap)
  BY DEF Sound, Table
<1>2. /\ size \in Nat /\ size > 0 /\ size \in Multiples(G)
      /\ align \in Nat /\ Natural(align, G) /\ Word \in Nat
  BY RealStorageAssumption, Constants DEF Granular
<1> DEFINE k == Min(Suitable(size, align))
<1>3. k \in Suitable(size, align)
  <2>1. Suitable(size, align) \in SUBSET Nat
    BY <1>1 DEF Suitable
  <2>2. Suitable(size, align) # {}
    BY DEF CanAlloc
  <2> QED BY <2>1, <2>2, MinIsLeast
<1> HIDE DEF k
<1>4. /\ k \in 1 .. n /\ heap[k].flag # "USED" /\ heap[k].size >= size
      /\ align # 0 => heap[k].size >= size + (Start(heap, k) % align)
  BY <1>1, <1>3 DEF Suitable
<1>5. heap[k].flag = "FREE" /\ heap[k].size \in Nat
  <2>1. heap[k] \in Piece
    BY <1>1, <1>4, ElementOf
  <2> QED BY <1>4, <2>1 DEF Piece, Flags
<1>6. k \in 2 .. n
  <2>1. k # 1
    BY <1>1, <1>4 DEF Table
  <2> QED BY <1>4, <2>1
<1>7. k \in 1 .. n + 1 /\ k + 1 \in 1 .. n + 1
  BY <1>4
<1>8. /\ Start(heap, k) = f[k] /\ f[k] \in Multiples(G) /\ f[k + 1] \in Multiples(G)
      /\ f[k + 1] = f[k] + heap[k].size /\ f[k + 1] < Word /\ f[k] \in Nat
      /\ heap[k].size < Word
  <2>1. Start(heap, k) = f[k]
    BY <1>1, <1>7, FoundWhereLaid
  <2>2. f[k] \in Multiples(G) /\ f[k + 1] \in Multiples(G)
    BY <1>1, <1>7 DEF OnUnits
  <2>3. f[k + 1] = f[k] + heap[k].size
    BY <1>1, <1>4 DEF Laid
  <2>4. f[k + 1] < Word /\ f[k] \in Nat /\ heap[k].size < Word
    BY <1>1, <1>4, <1>7, InRegion
  <2> QED BY <2>1, <2>2, <2>3, <2>4
<1>9. heap[k].size \in Multiples(G)
  <2>1. f[k + 1] >= f[k] /\ f[k + 1] - f[k] = heap[k].size
    BY <1>5, <1>8
  <2>2. f[k + 1] >= f[k] => f[k + 1] - f[k] \in Multiples(G)
    BY <1>8, MultiplesAdd
  <2> QED BY <2>1, <2>2
<1> DEFINE cur == f[k]
           b == heap[k].size
<1>10. /\ cur \in Multiples(G) /\ b \in Multiples(G) /\ cur \in Nat /\ b \in Nat
       /\ b >= size /\ cur + b < Word /\ b < Word
       /\ align # 0 => b >= size + (cur % align)
  BY <1>4, <1>5, <1>8, <1>9
<1> HIDE DEF cur, b
<1>11. PICK left \in Multiples(G) :
          /\ LeftSize(cur, b, size, align) = left
          /\ left + size <= b
          /\ align # 0 => (cur + left) % align = 0
  BY <1>2, <1>10, Placed
<1>12. left \in Nat
  BY MultiplesAdd
<1>13. PICK rest \in Nat : rest = b - left /\ left + rest = b /\ rest < Word /\ rest >= size
  <2>1. b - left \in Nat /\ left + (b - left) = b /\ b - left < Word /\ b - left >= size
    BY <1>2, <1>10, <1>11, <1>12
  <2> QED BY <2>1
<1>14. PICK right \in Nat : right = rest - size /\ size + right = rest /\ right < Word
  <2>1. rest - size \in Nat /\ size + (rest - size) = rest /\ rest - size < Word
    BY <1>2, <1>13
  <2> QED BY <2>1
<1>15. rest % Word = rest /\ right % Word = right
  BY <1>2, <1>13, <1>14, Unwrapped
<1>16. (cur + left) % Word = cur + left
  <2>1. cur + left \in Nat /\ cur + left < Word
    BY <1>2, <1>10, <1>11, <1>12
  <2> QED BY <1>2, <2>1, Unwrapped
<1>17. (b - left) % Word = rest /\ (rest - size) % Word = right
  BY <1>13, <1>14, <1>15
<1>18. Chosen(f, size, align, k, left, rest, right)
  <2>1. k = Min(Suitable(size, align)) /\ k \in 2 .. Len(heap) /\ heap[k].flag = "FREE"
    BY <1>1, <1>5, <1>6 DEF k
  <2>2. /\ LeftSize(Start(heap, k), heap[k].size, size, align) = left
        /\ (Start(heap, k) + left) % Word = f[k] + left
    BY <1>8, <1>11, <1>16 DEF cur, b
  <2>3. /\ (heap[k].size - left) % Word = rest /\ (rest - size) % Word = right
        /\ left + rest = heap[k].size /\ size + right = rest
        /\ align # 0 => (f[k] + left) % align = 0
    BY <1>11, <1>13, <1>14, <1>17 DEF cur, b
  <2> QED BY <2>1, <2>2, <2>3 DEF Chosen
<1>19. k \in 2 .. Len(heap)
  BY <1>1, <1>6
<1> QED BY <1>18, <1>19

\* The block the chunk is in by then is the at-th of h.
Reached(k, left, at, h) ==
    \/ left = 0 /\ at = k /\ h = heap
    \/ left # 0 /\ at = k + 1 /\ h = SplitLeft(k, left) /\ CanCreate([heap EXCEPT ![k].size = left])

\* alloc, once it has cut the block it has chosen on its left.
LEMMA AllocAs ==
    ASSUME NEW size, NEW align, NEW f, NEW k, NEW left, NEW rest, NEW right,
           Chosen(f, size, align, k, left, rest, right),
           NEW at, NEW h, Reached(k, left, at, h), h[at].size = rest,
           right # 0 => CanCreate(h), NEW a, a = Alloc(size, align)
    PROVE  a.ok /\ a.lost = {} /\ a.ptr = f[k] + left /\ a.heap = Chunked(h, at, right)
<1>1. a = LET left_  == LeftSize(Start(heap, k), heap[k].size, size, align)
              cut_   == [heap EXCEPT ![k].size = left_]
              at_    == IF left_ = 0 THEN k ELSE k + 1
              h_     == IF left_ = 0 THEN heap ELSE SplitLeft(k, left_)
              right_ == (h_[at_].size - size) % Word
              done_  == IF right_ = 0 THEN h_ ELSE SplitRight(h_, at_, right_)
          IN  IF left_ # 0 /\ ~CanCreate(cut_)
              THEN [heap |-> CutAfter(cut_, k), lost |-> TailOf(cut_, k), ok |-> FALSE]
              ELSE [heap |-> [done_ EXCEPT ![at_].flag = "USED"],
                    lost |-> IF right_ # 0 /\ ~CanCreate(h_) THEN TailOf(h_, at_) ELSE {},
                    ok   |-> TRUE,
                    ptr  |-> (Start(heap, k) + left_) % Word]
  BY Zenon DEF Alloc, Chosen
<1>2. LeftSize(Start(heap, k), heap[k].size, size, align) = left
  BY DEF Chosen
<1>3. a = LET right_ == (h[at].size - size) % Word
              done_  == IF right_ = 0 THEN h ELSE SplitRight(h, at, right_)
          IN  [heap |-> [done_ EXCEPT ![at].flag = "USED"],
               lost |-> IF right_ # 0 /\ ~CanCreate(h) THEN TailOf(h, at) ELSE {},
               ok   |-> TRUE,
               ptr  |-> (Start(heap, k) + left) % Word]
  <2>1. CASE left = 0 /\ at = k /\ h = heap
    BY <1>1, <1>2, <2>1, Zenon
  <2>2. CASE left # 0 /\ at = k + 1 /\ h = SplitLeft(k, left)
             /\ CanCreate([heap EXCEPT ![k].size = left])
    BY <1>1, <1>2, <2>2, Zenon
  <2> QED BY <2>1, <2>2 DEF Reached
<1>4. (h[at].size - size) % Word = right /\ (Start(heap, k) + left) % Word = f[k] + left
  BY DEF Chosen
<1>5. a = [heap |-> [(IF right = 0 THEN h ELSE SplitRight(h, at, right)) EXCEPT ![at].flag = "USED"],
           lost |-> IF right # 0 /\ ~CanCreate(h) THEN TailOf(h, at) ELSE {},
           ok   |-> TRUE, ptr |-> f[k] + left]
  BY <1>3, <1>4, Zenon
<1>6. /\ a.heap = [(IF right = 0 THEN h ELSE SplitRight(h, at, right)) EXCEPT ![at].flag = "USED"]
      /\ a.lost = {} /\ a.ok /\ a.ptr = f[k] + left
  BY <1>5
<1> QED BY <1>6, Zenon DEF Chunked, CutFor

\* alloc serves its client, with two descriptors to spare at least.
LEMMA AllocServes ==
    ASSUME NEW G \in Nat, G > 0, Granular(G), lost = {}, Len(heap) + 1 < Slots(heap),
           NEW f, Sound(heap, f, held), OnUnits(heap, f, G),
           NEW size \in Sizes, NEW align \in Aligns, CanAlloc(size, align),
           NEW a, a = Alloc(size, align)
    PROVE  Got(a, size, align, G)
<1>1. PICK n \in Nat : n = Len(heap) /\ n >= 2 /\ heap \in Seq(Piece)
                       /\ Laid(heap, f) /\ Table(heap)
  BY DEF Sound, Table
<1>2. PICK k \in 2 .. Len(heap), left \in Multiples(G), rest \in Nat, right \in Nat :
         Chosen(f, size, align, k, left, rest, right)
  BY BlockChosen
<1>3. /\ k \in 2 .. n /\ heap[k].flag = "FREE"
      /\ left + rest = heap[k].size /\ size + right = rest
      /\ align # 0 => (f[k] + left) % align = 0
  BY <1>1, <1>2 DEF Chosen
<1>4. size \in Multiples(G) /\ left \in Nat /\ Slots(heap) \in Nat
  BY <1>1, MultiplesAdd, TableGrows DEF Granular, Slots, Table
<1>5. CASE left = 0
  <2>1. FlaggedTo(heap, heap, k, "FREE")
    BY <1>1, <1>3 DEF FlaggedTo
  <2>2. heap[k].size = rest /\ Len(heap) < Slots(heap) /\ k \in 2 .. Len(heap)
    BY <1>1, <1>3, <1>4, <1>5
  <2>3. Cuttable(heap, heap, k, "FREE", size, right)
    BY <1>1, <1>3, <2>1, <2>2 DEF Cuttable
  <2> DEFINE r == Chunked(heap, k, right)
  <2>4. /\ right # 0 => CanCreate(heap)
        /\ ChunkTaken(heap, r, f[k], size, held, G)
    BY <1>4, <2>3, TakeBeginning
  <2>5. a.ok /\ a.lost = {} /\ a.ptr = f[k] + left /\ a.heap = r
    <3>1. Reached(k, left, k, heap)
      BY <1>5 DEF Reached
    <3> QED BY <1>2, <2>2, <2>4, <3>1, AllocAs
  <2>6. f[k] + left = f[k]
    <3>1. f \in [1 .. n + 1 -> Nat] /\ k \in 1 .. n + 1
      <4>1. k \in 2 .. n
        BY <1>3
      <4>2. k \in 1 .. n + 1
        BY <1>1, <4>1
      <4>3. f \in [1 .. n + 1 -> Nat]
        BY <1>1, Zenon DEF Laid
      <4> QED BY <4>2, <4>3
    <3>2. f[k] \in Nat
      BY <3>1
    <3> QED BY <1>5, <3>2
  <2> HIDE DEF r
  <2>7. ChunkTaken(heap, r, f[k] + left, size, held, G)
    BY <2>4, <2>6
  <2> QED BY <1>3, <2>5, <2>7 DEF Got
<1>6. CASE left # 0
  <2> DEFINE cut == [heap EXCEPT ![k].size = left]
             h == SplitLeft(k, left)
             f2 == SplitStarts(f, n, k, left, 0)
             at == k + 1
             r == Chunked(h, at, right)
  <2>1. h = CreateAfter(cut, k, rest, "USED")
    BY <1>2 DEF SplitLeft, Chosen
  <2>2. /\ CanCreate(cut) /\ h \in Seq(Piece)
        /\ \E h3 : /\ Sound(h3, f2, held) /\ Len(h3) = n + 1 /\ h3[1].size = heap[1].size
                   /\ h3[at].flag = "FREE" /\ h3[at].size = rest /\ FlaggedTo(h, h3, at, "USED")
    <3>1. n < Slots(heap)
      BY <1>1, <1>4
    <3>2. left \in Nat /\ left + rest = heap[k].size /\ heap[k].flag = "FREE" /\ k \in 2 .. n
      BY <1>3, <1>4
    <3>3. \A c, d : c = [heap EXCEPT ![k].size = left] /\ d = CreateAfter(c, k, rest, "USED")
                    => CanCreate(c) /\ LeftHalved(heap, d, f, held, k, left, rest)
      BY <1>1, <3>1, <3>2, CutLeft
    <3> QED BY <1>1, <2>1, <3>3 DEF LeftHalved
  <2> HIDE DEF cut, h
  <2>3. PICK g : /\ Sound(g, f2, held) /\ Len(g) = n + 1 /\ g[1].size = heap[1].size
                 /\ g[at].flag = "FREE" /\ g[at].size = rest /\ FlaggedTo(h, g, at, "USED")
    BY <2>2
  <2>4. OnUnits(g, f2, G)
    BY <1>1, <1>3, <2>3, SplitOnUnits
  <2>5. f2[at] = f[k] + left
    <3>1. at \in 1 .. n + 2 /\ at # 2 /\ ~(at <= k)
      BY <1>3
    <3> QED BY <3>1 DEF SplitStarts
  <2> HIDE DEF f2
  <2>6. Len(g) < Slots(g) /\ at \in 2 .. Len(g) /\ at \in 1 .. Len(g)
    BY <1>1, <1>3, <1>4, <2>3 DEF Slots
  <2>7. Cuttable(g, h, at, "USED", size, right)
    BY <1>3, <2>2, <2>3, <2>6 DEF Cuttable
  <2>8. h[at].size = rest
    BY <2>3, <2>6 DEF FlaggedTo
  <2>9. /\ right # 0 => CanCreate(h)
        /\ ChunkTaken(g, r, f2[at], size, held, G)
    BY <1>4, <2>3, <2>4, <2>7, TakeBeginning
  <2>10. a.ok /\ a.lost = {} /\ a.ptr = f[k] + left /\ a.heap = r
    <3>1. Reached(k, left, at, h)
      BY <1>6, <2>2 DEF Reached, cut, h
    <3> QED BY <1>2, <2>8, <2>9, <3>1, AllocAs
  <2> HIDE DEF r
  <2>11. ChunkTaken(heap, r, f[k] + left, size, held, G)
    BY <2>3, <2>5, <2>9 DEF ChunkTaken
  <2> QED BY <1>3, <2>10, <2>11 DEF Got
<1> QED BY <1>5, <1>6

-----------------------------------------------------------------------------
(* The invariant.                                                          *)

\* A descriptor is free before every alloc, and one more after it has cut once.
LEMMA RoomForTwo ==
    ASSUME Roomy, NEW f, Sound(heap, f, held), Whole(heap),
           IsFiniteSet(held), Cardinality(held) < MaxHeld
    PROVE  Len(heap) + 1 < Slots(heap)
<1>1. Len(heap) <= 2 * Cardinality(held) + 2 /\ Cardinality(held) \in Nat
  BY BlocksPerChunk, FS_CardinalityType
<1>2. Len(heap) \in Nat /\ Slots(heap) \in Nat /\ Slots(heap) >= Table0
  BY TableIsAtLeast DEF Sound, Table, Slots
<1> QED BY <1>1, <1>2, Constants DEF Roomy

AlignedInv(G) ==
    /\ StorageInv /\ ~faulted
    /\ IsFiniteSet(held)
    /\ OnUnits(heap, Starts(heap), G)

\* A client has got a chunk where it asked for it.
ServedAt(align) == align # 0 => \E c \in held' \ held : c.ptr % align = 0

\* alloc, as a step: it has descriptors, and does what it is asked.
LEMMA AlignedAlloc ==
    ASSUME Roomy, NEW G \in Nat, G > 0, Granular(G), AlignedInv(G), WholeInv,
           NEW size \in Sizes, NEW align \in Aligns, Cardinality(held) < MaxHeld,
           CanAlloc(size, align), Allocated(Alloc(size, align), size)
    PROVE  /\ Served(size) /\ ServedAt(align)
           /\ IsFiniteSet(held') /\ OnUnits(heap', Starts(heap'), G)
<1> DEFINE a == Alloc(size, align)
           c == ChunkAt(a.ptr, size)
<1>1. Sound(heap, Starts(heap), held) /\ lost = {} /\ IsFiniteSet(held)
      /\ OnUnits(heap, Starts(heap), G) /\ Whole(heap)
  BY DEF AlignedInv, StorageInv, WholeInv
<1>2. Len(heap) + 1 < Slots(heap)
  BY <1>1, RoomForTwo
<1>3. Got(a, size, align, G)
  BY <1>1, <1>2, AllocServes
<1>4. /\ heap' = a.heap /\ lost' = lost \cup a.lost /\ faulted' = ~a.ok
      /\ held' = IF a.ok THEN held \cup {c} ELSE held
  BY Zenon DEF Allocated, ChunkAt
<1> HIDE DEF a, c
<1>5. a.ok /\ a.lost = {} /\ (align # 0 => a.ptr % align = 0)
      /\ ChunkTaken(heap, a.heap, a.ptr, size, held, G)
  BY <1>3 DEF Got
<1>6. faulted' = FALSE /\ lost' = {} /\ held' = held \cup {c}
  BY <1>1, <1>4, <1>5
<1>7. /\ ChunkAt(a.ptr, size) \in Chunk /\ Nobodys(a.ptr, held)
      /\ a.heap[1].size = heap[1].size
  BY <1>5 DEF ChunkTaken
<1>8. PICK e : Sound(heap', e, held') /\ OnUnits(heap', e, G)
  BY <1>4, <1>5, <1>6 DEF ChunkTaken, c
<1>9. heap'[1].size = heap[1].size /\ heap[1].size \in Nat
  BY <1>1, <1>4, <1>7, TableInRegion
<1>10. Served(size)
  BY <1>6, <1>7, <1>8, <1>9 DEF Served, c
<1>11. ServedAt(align)
  <2>1. c.ptr = a.ptr
    BY DEF c, ChunkAt
  <2>2. c \notin held
    BY <1>7, <2>1 DEF Nobodys
  <2> QED BY <1>5, <1>6, <2>1, <2>2 DEF ServedAt
<1>12. IsFiniteSet(held')
  BY <1>1, <1>6, FS_AddElement
<1>13. Starts(heap') = e
  BY <1>8, FoundWhereLaid DEF Sound, Table
<1> QED BY <1>8, <1>10, <1>11, <1>12, <1>13

\* free leaves the blocks on multiples of the unit.
LEMMA AlignedFree ==
    ASSUME NEW G \in Nat, AlignedInv(G), NEW c \in held, Release(c.ptr),
           held' = held \ {c}, UNCHANGED <<lost, faulted>>, moving' \subseteq held'
    PROVE  AlignedInv(G)'
<1>1. Sound(heap, Starts(heap), held) /\ lost = {} /\ IsFiniteSet(held) /\ ~faulted
      /\ OnUnits(heap, Starts(heap), G) /\ faulted \in BOOLEAN
  BY DEF AlignedInv, StorageInv
<1>2. PICK g : Sound(heap', g, held') /\ Among(g, heap', Starts(heap), heap)
  BY <1>1, FreeSound
<1>3. Starts(heap') = g
  BY <1>2, FoundWhereLaid DEF Sound, Table
<1>4. OnUnits(heap', g, G)
  BY <1>1, <1>2 DEF Among, OnUnits
<1>5. IsFiniteSet(held')
  BY <1>1, FS_RemoveElement
<1>6. StorageInv'
  BY <1>1, <1>2, <1>3 DEF StorageInv
<1> QED BY <1>1, <1>3, <1>4, <1>5, <1>6 DEF AlignedInv

LEMMA AlignedInit ==
    ASSUME NEW G \in Nat, Granular(G), Init
    PROVE  AlignedInv(G)
<1>1. StorageInv /\ ~faulted /\ held = {}
  BY InitSound DEF Init
<1> DEFINE f == Starts(heap)
<1>2. Laid(heap, f) /\ Table(heap) /\ Len(heap) = 2 /\ heap[1].size = Table0 * DescSize
  <2>1. Laid(heap, f) /\ Table(heap)
    BY <1>1 DEF StorageInv, Sound
  <2>2. heap[1].size = Table0 * DescSize /\ Len(heap) = 2
    BY DEF Init
  <2> QED BY <2>1, <2>2
<1> HIDE DEF f
<1>3. f[1] = Base /\ f[2] = Base + Table0 * DescSize /\ f[3] = Base + RegionSize
  BY <1>2 DEF Laid
<1>4. {Base, RegionSize, Table0 * DescSize} \subseteq Multiples(G)
  <2>1. PICK d \in Nat : DescSize = d * G
    BY DEF Granular, Multiples
  <2>2. Table0 * d \in Nat /\ Table0 * DescSize = (Table0 * d) * G
    BY <2>1, Constants
  <2> QED BY <2>2 DEF Granular, Multiples
<1>5. f[1] \in Multiples(G) /\ f[2] \in Multiples(G) /\ f[3] \in Multiples(G)
  BY <1>3, <1>4, MultiplesAdd
<1>6. OnUnits(heap, f, G)
  <2>1. \A j \in 1 .. 2 + 1 : j = 1 \/ j = 2 \/ j = 3
    OBVIOUS
  <2> QED BY <1>2, <1>5, <2>1 DEF OnUnits
<1> QED BY <1>1, <1>6, FS_EmptySet DEF AlignedInv, f

\* An alloc keeps the invariant, and is one the promise allows.
LEMMA AlignedAllocKeeps ==
    ASSUME Roomy, NEW G \in Nat, G > 0, Granular(G), AlignedInv(G), WholeInv,
           NEW size \in Sizes, NEW align \in Aligns, Cardinality(held) < MaxHeld,
           CanAlloc(size, align), Allocated(Alloc(size, align), size), moving' \subseteq held
    PROVE  AlignedInv(G)' /\ Promise!Alloc
<1>1. Served(size) /\ IsFiniteSet(held') /\ OnUnits(heap', Starts(heap'), G)
  BY AlignedAlloc
<1>2. Sound(heap', Starts(heap'), held')
  BY <1>1, SoundStarts DEF Served
<1>3. moving' \subseteq held'
  BY <1>1 DEF Served
<1>4. StorageInv'
  BY <1>1, <1>2, <1>3 DEF StorageInv, Served
<1>5. AlignedInv(G)'
  BY <1>1, <1>4 DEF AlignedInv, Served
<1>6. Promise!Alloc
  BY <1>1, ServedPromised DEF AlignedInv
<1> QED BY <1>5, <1>6

\* So is every step.
LEMMA AlignedStep ==
    ASSUME Roomy, NEW G \in Nat, G > 0, Granular(G), AlignedInv(G), WholeInv, [Next]_vars
    PROVE  AlignedInv(G)' /\ (Promise!Next \/ UNCHANGED Promise!vars)
<1>1. moving \subseteq held /\ StorageInv /\ ~faulted
  BY DEF AlignedInv, StorageInv
<1>2. ASSUME NEW size \in Sizes, NEW align \in Aligns, Allocate(size, align)
      PROVE  AlignedInv(G)' /\ Promise!Alloc
  <2>1. moving' \subseteq held
    BY <1>1, <1>2 DEF Allocate
  <2> QED BY <1>2, <2>1, AlignedAllocKeeps DEF Allocate
<1>3. ASSUME NEW c \in held \ moving, Free(c)
      PROVE  AlignedInv(G)' /\ Promise!Free
  <2>1. moving' \subseteq held' /\ c \in held
    BY <1>1, <1>3 DEF Free
  <2>2. Release(c.ptr) /\ held' = held \ {c} /\ UNCHANGED <<lost, faulted>>
    BY <1>3 DEF Free
  <2> QED BY <1>1, <2>1, <2>2, AlignedFree, FreePromised
<1>4. ASSUME NEW c \in held \ moving, NEW size \in Sizes, NEW align \in Aligns,
             Reallocate(c, size, align)
      PROVE  AlignedInv(G)' /\ Promise!Alloc
  <2>1. size # heap[1].size
    <3>1. heap[1].size \in TableSizes
      BY <1>1 DEF StorageInv, Sound, Table
    <3> QED BY <3>1 DEF Roomy
  <2>2. Cardinality(held) < MaxHeld /\ CanAlloc(size, align)
        /\ Allocated(Alloc(size, align), size)
        /\ moving' = IF faulted' THEN moving ELSE moving \cup {c}
    BY <1>4, <2>1 DEF Reallocate
  <2>3. moving' \subseteq held
    BY <1>1, <2>2
  <2> QED BY <2>2, <2>3, AlignedAllocKeeps
<1>5. ASSUME NEW c \in moving, ReallocDrop(c)
      PROVE  AlignedInv(G)' /\ Promise!Free
  <2>1. moving' \subseteq held' /\ c \in held
    BY <1>1, <1>5 DEF ReallocDrop
  <2>2. Release(c.ptr) /\ held' = held \ {c} /\ UNCHANGED <<lost, faulted>>
    BY <1>5 DEF ReallocDrop
  <2> QED BY <1>1, <2>1, <2>2, AlignedFree, FreePromised
<1>6. CASE UNCHANGED vars
  BY <1>6 DEF vars, AlignedInv, StorageInv, Promise!vars
<1> QED BY <1>2, <1>3, <1>4, <1>5, <1>6 DEF Next, Promise!Next

LEMMA AlignedHolds ==
    ASSUME Roomy, NEW G \in Nat, G > 0, Granular(G)
    PROVE  Spec => []AlignedInv(G)
<1>1. Init => AlignedInv(G)
  BY AlignedInit
<1>2. AlignedInv(G) /\ WholeInv /\ [Next]_vars => AlignedInv(G)'
  BY AlignedStep
<1> QED BY <1>1, <1>2, WholeHolds, PTL DEF Spec

-----------------------------------------------------------------------------
(* The theorems.  Each is proved for some unit the sizes are multiples of. *)

\* alloc, free and realloc (real.cxx) with typed allocations (storage.hxx): the
\* blocks stay a list of blocks in the region, and the clients' chunks chunks.
THEOREM AlignedTypeCorrect == Aligned => (Spec => []TypeOK)
<1> SUFFICES ASSUME Roomy, NEW G \in Nat, G > 0, Granular(G) PROVE Spec => []TypeOK
  BY DEF Aligned
<1>1. AlignedInv(G) => TypeOK
  BY InvTypes DEF AlignedInv
<1> QED BY <1>1, AlignedHolds, PTL

\* check_heap (real.cxx): cutting a block on both sides of an aligned chunk
\* neither loses a byte of the region nor counts one twice.
THEOREM AlignedSizesAddUp == Aligned => (Spec => []SizesAddUp)
<1> SUFFICES ASSUME Roomy, NEW G \in Nat, G > 0, Granular(G) PROVE Spec => []SizesAddUp
  BY DEF Aligned
<1>1. AlignedInv(G) => SizesAddUp
  BY InvSizes DEF AlignedInv
<1> QED BY <1>1, AlignedHolds, PTL

\* alloc and free (real.cxx): the padding an alignment costs is free storage,
\* never in use and nobody's.
THEOREM AlignedUsedIsHeld == Aligned => (Spec => []UsedIsHeld)
<1> SUFFICES ASSUME Roomy, NEW G \in Nat, G > 0, Granular(G) PROVE Spec => []UsedIsHeld
  BY DEF Aligned
<1>1. AlignedInv(G) => UsedIsHeld
  BY InvUsed DEF AlignedInv
<1> QED BY <1>1, AlignedHolds, PTL

\* block::create and merge (real.cxx): two descriptors taken for one chunk are
\* in place, and the pieces it leaves never lie next to free storage.
THEOREM AlignedRegionIsWhole == Aligned => (Spec => []RegionIsWhole)
<1> SUFFICES ASSUME Roomy, NEW G \in Nat, G > 0, Granular(G) PROVE Spec => []RegionIsWhole
  BY DEF Aligned
<1>1. AlignedInv(G) /\ Coalesced => RegionIsWhole
  BY InvPlaces DEF AlignedInv, RegionIsWhole
<1> QED BY <1>1, AlignedHolds, FreeStorageIsWhole, PTL

\* alloc (real.cxx) does not check the block that block::create gives it; with
\* two descriptors per chunk in the table it is never null.
THEOREM AllocNeverFaults == Aligned => (Spec => [](~faulted))
<1> SUFFICES ASSUME Roomy, NEW G \in Nat, G > 0, Granular(G) PROVE Spec => [](~faulted)
  BY DEF Aligned
<1>1. AlignedInv(G) => ~faulted
  BY DEF AlignedInv
<1> QED BY <1>1, AlignedHolds, PTL

\* alloc (real.cxx) rounds the chunk down from the end of its block: what it
\* returns has the alignment asked for, and is a chunk nobody else has.
THEOREM ChunksAreAligned == Aligned => (Spec => AllocAligned)
<1> SUFFICES ASSUME Roomy, NEW G \in Nat, G > 0, Granular(G) PROVE Spec => AllocAligned
  BY DEF Aligned
<1> DEFINE A == \A size \in Sizes, align \in Aligns \ {0} :
                   (Allocate(size, align) /\ ~faulted')
                       => \E c \in held' \ held : c.ptr % align = 0
<1>1. ASSUME AlignedInv(G), WholeInv, NEW size \in Sizes, NEW align \in Aligns \ {0},
             Allocate(size, align)
      PROVE  \E c \in held' \ held : c.ptr % align = 0
  <2>1. ServedAt(align)
    BY <1>1, AlignedAlloc DEF Allocate
  <2> QED BY <2>1 DEF ServedAt
<1>2. AlignedInv(G) /\ WholeInv => A
  BY <1>1
<1>3. AlignedInv(G) /\ WholeInv => [A]_vars
  BY <1>2
<1> HIDE DEF A
<1>4. [][A]_vars => AllocAligned
  BY DEF A, AllocAligned
<1> QED BY <1>3, <1>4, AlignedHolds, WholeHolds, PTL

\* real_storage implements Allocator with alignments too: rounding down never
\* takes a chunk in front of its block, where another client's storage is.
THEOREM AlignedPromiseIsKept == Aligned => (Spec => KeepsPromise)
<1> SUFFICES ASSUME Roomy, NEW G \in Nat, G > 0, Granular(G) PROVE Spec => KeepsPromise
  BY DEF Aligned
<1>1. AlignedInv(G) /\ WholeInv /\ [Next]_vars => [Promise!Next]_Promise!vars
  BY AlignedStep DEF Promise!vars
<1> QED BY <1>1, InitPromised, AlignedHolds, WholeHolds, PTL
        DEF Spec, KeepsPromise, Promise!Spec
============================================================================
