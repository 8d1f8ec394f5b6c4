------------------------------ MODULE IplProofs -------------------------------
(***************************************************************************)
(* Theorems about Zdsfs and Ipl, for all volumes that are written as       *)
(* ZdsfsAssumption and IplAssumption say, and any number of faults.        *)
(***************************************************************************)
EXTENDS Ipl, FiniteSetTheorems, TLAPS

-----------------------------------------------------------------------------
(* Places.                                                                 *)

Upto(p, q) == p = q \/ Before(p, q)

LEMMA PlaceFields ==
    ASSUME NEW c, NEW t, NEW r
    PROVE  Place(c, t, r).cyl = c /\ Place(c, t, r).track = t /\ Place(c, t, r).rec = r
BY DEF Place

LEMMA PlaceIn ==
    ASSUME NEW c \in Nat, NEW t \in Nat, NEW r \in Nat \ {0}
    PROVE  Place(c, t, r) \in Places
BY DEF Place, Places

LEMMA PlaceOf ==
    ASSUME NEW p \in Places
    PROVE  /\ p.cyl \in Nat /\ p.track \in Nat /\ p.rec \in Nat /\ p.rec > 0
           /\ p = Place(p.cyl, p.track, p.rec)
BY DEF Place, Places

LEMMA SamePlace ==
    ASSUME NEW p \in Places, NEW q \in Places, p.cyl = q.cyl, p.track = q.track, p.rec = q.rec
    PROVE  p = q
BY DEF Places

LEMMA BehindPlace ==
    ASSUME NEW p \in Places
    PROVE  /\ Behind(p) \in Places /\ Behind(p) = Place(p.cyl, p.track, p.rec + 1)
           /\ Behind(p).cyl = p.cyl /\ Behind(p).track = p.track /\ Behind(p).rec = p.rec + 1
BY DEF Behind, Place, Places

LEMMA BeforeAfter ==
    ASSUME NEW p \in Places, NEW q \in Places, NEW r \in Places
    PROVE  /\ Before(p, q) /\ Before(q, r) => Before(p, r)
           /\ ~Before(p, p)
           /\ Before(p, q) => ~Before(q, p)
           /\ p = q \/ Before(p, q) \/ Before(q, p)
           /\ Before(p, Behind(q)) <=> Before(p, q) \/ p = q
<1>1. /\ p.cyl \in Nat /\ p.track \in Nat /\ p.rec \in Nat
      /\ q.cyl \in Nat /\ q.track \in Nat /\ q.rec \in Nat
      /\ r.cyl \in Nat /\ r.track \in Nat /\ r.rec \in Nat
  BY PlaceOf
<1>2. p = q <=> p.cyl = q.cyl /\ p.track = q.track /\ p.rec = q.rec
  BY SamePlace
<1>3. Behind(q).cyl = q.cyl /\ Behind(q).track = q.track /\ Behind(q).rec = q.rec + 1
  BY BehindPlace
<1> QED BY <1>1, <1>2, <1>3 DEF Before

-----------------------------------------------------------------------------
(* What a step of read_disk leaves out.                                    *)

\* The data of d from a on and before b.
Gap(v, d, a, b) == {p \in DataOf(v, d.of) : ~Before(p, a) /\ Before(p, b)}

LEMMA Written ==
    ASSUME NEW v \in Volumes
    PROVE  WrittenVolume(v) /\ IsFiniteSet(DOMAIN v) /\ DOMAIN v \subseteq Places
BY ZdsfsAssumption DEF WrittenVolume

LEMMA DataPlaces ==
    ASSUME NEW v \in Volumes, NEW d
    PROVE  /\ DataOf(v, d) \subseteq DOMAIN v /\ DataOf(v, d) \subseteq Places
           /\ IsFiniteSet(DataOf(v, d))
<1>1. DataOf(v, d) \subseteq DOMAIN v
  BY DEF DataOf
<1> QED BY <1>1, Written, FS_Subset

\* The labels of a volume.
Labels(v) == {v[p] : p \in {q \in DOMAIN v : v[q].kind = "dscb"}}

LEMMA LabelLaidOut ==
    ASSUME NEW v \in Volumes, NEW d \in Labels(v)
    PROVE  LaidOut(v, d) /\ FirstPlace(d) \in Places
<1>1. LaidOut(v, d)
  BY Written DEF Labels, WrittenVolume
<1> QED BY <1>1, Written DEF LaidOut

LEMMA GapOfOne ==
    ASSUME NEW v \in Volumes, NEW d, NEW a \in Places
    PROVE  Gap(v, d, a, Behind(a)) \subseteq {a}
<1> SUFFICES ASSUME NEW p \in Gap(v, d, a, Behind(a)) PROVE p = a
  OBVIOUS
<1>1. p \in Places /\ ~Before(p, a) /\ Before(p, Behind(a))
  BY DataPlaces DEF Gap
<1> QED BY <1>1, BeforeAfter

\* Where a track has no record n, it has none behind it.
LEMMA GapOfTrack ==
    ASSUME NEW v \in Volumes, NEW d \in Labels(v), NEW a \in Places, NEW n \in 1 .. a.rec,
           Place(a.cyl, a.track, n) \notin DOMAIN v
    PROVE  Gap(v, d, a, Place(a.cyl, a.track + 1, 1)) = {}
<1> DEFINE b == Place(a.cyl, a.track + 1, 1)
<1> SUFFICES ASSUME NEW p \in Gap(v, d, a, b) PROVE FALSE
  OBVIOUS
<1>1. /\ a.cyl \in Nat /\ a.track \in Nat /\ a.rec \in Nat /\ a.rec > 0
      /\ b.cyl = a.cyl /\ b.track = a.track + 1 /\ b.rec = 1
  BY PlaceOf, PlaceFields
<1>2. p \in Places /\ p \in DOMAIN v /\ p \in DataOf(v, d.of) /\ ~Before(p, a) /\ Before(p, b)
  BY DataPlaces DEF Gap
<1> HIDE DEF b
<1>3. p.cyl \in Nat /\ p.track \in Nat /\ p.rec \in Nat /\ p.rec > 0
      /\ p = Place(p.cyl, p.track, p.rec)
  BY <1>2, PlaceOf
<1>4. p.cyl = a.cyl /\ p.track = a.track /\ p.rec >= a.rec
  BY <1>1, <1>2, <1>3 DEF Before
<1>5. CASE n = p.rec
  BY <1>2, <1>3, <1>4, <1>5
<1>6. CASE n < p.rec
  <2>1. n \in 1 .. p.rec - 1
    BY <1>3, <1>6
  <2>2. Place(p.cyl, p.track, n) \in DOMAIN v
    BY <1>2, <2>1, LabelLaidOut DEF LaidOut
  <2> QED BY <1>4, <2>2
<1> QED BY <1>1, <1>3, <1>4, <1>5, <1>6

\* All of the tracks that are skipped are of one cylinder; where the first of
\* them has no record, the others have none of the dataset.
LEMMA GapOfCylinder ==
    ASSUME NEW v \in Volumes, NEW d \in Labels(v), NEW a \in Places, a.rec = 1,
           ~Before(a, FirstPlace(d))
    PROVE  /\ \A p \in Gap(v, d, a, Place(a.cyl + 1, 0, 1)) : p.cyl = a.cyl
           /\ a \notin DOMAIN v => Gap(v, d, a, Place(a.cyl + 1, 0, 1)) = {}
<1> DEFINE b == Place(a.cyl + 1, 0, 1)
<1>1. /\ a.cyl \in Nat /\ a.track \in Nat /\ a.rec \in Nat /\ a = Place(a.cyl, a.track, 1)
      /\ b.cyl = a.cyl + 1 /\ b.track = 0 /\ b.rec = 1
  BY PlaceOf, PlaceFields
<1> HIDE DEF b
<1>2. ASSUME NEW p \in Gap(v, d, a, b)
      PROVE  p.cyl = a.cyl /\ a \in DOMAIN v
  <2>1. p \in Places /\ p \in DOMAIN v /\ p \in DataOf(v, d.of) /\ ~Before(p, a) /\ Before(p, b)
    BY DataPlaces DEF Gap
  <2>2. p.cyl \in Nat /\ p.track \in Nat /\ p.rec \in Nat /\ p.rec > 0
        /\ p = Place(p.cyl, p.track, p.rec)
    BY <2>1, PlaceOf
  <2>3. p.cyl = a.cyl /\ p.track >= a.track
    BY <1>1, <2>1, <2>2 DEF Before
  <2>4. CASE p.track = a.track /\ p.rec = 1
    BY <1>1, <2>1, <2>2, <2>3, <2>4
  <2>5. CASE p.track = a.track /\ p.rec > 1
    <3>1. 1 \in 1 .. p.rec - 1
      BY <2>2, <2>5
    <3>2. Place(p.cyl, p.track, 1) \in DOMAIN v
      BY <2>1, <3>1, LabelLaidOut DEF LaidOut
    <3> QED BY <1>1, <2>3, <2>5, <3>2
  <2>6. CASE p.track > a.track
    <3>1. a.track \in 0 .. p.track - 1
      BY <1>1, <2>2, <2>6
    <3>2. Before(Place(p.cyl, a.track, 1), FirstPlace(d)) \/ Place(p.cyl, a.track, 1) \in DOMAIN v
      BY <2>1, <3>1, LabelLaidOut DEF LaidOut
    <3> QED BY <1>1, <2>3, <3>2
  <2> QED BY <1>1, <2>2, <2>3, <2>4, <2>5, <2>6
<1> QED BY <1>2 DEF b

-----------------------------------------------------------------------------
(* The invariant of a read.                                                *)

BufRecords(v) == {[at |-> p, of |-> v[p].of] : p \in DOMAIN v}

\* Data in front of l that have not been read.
Unread(v, d, b, l) == {p \in DataOf(v, d.of) : Before(p, l) /\ \A k \in DOMAIN b : b[k].at # p}

InOneCylinder(S) == \A p, q \in S : p.cyl = q.cyl

\* What is in front of where the driver looks has been read, or was behind the
\* only fault.
Frontier(v, d, b, l, e, f) ==
    /\ f = 0 => Unread(v, d, b, l) = {}
    /\ InOneCylinder(Unread(v, d, b, l))
    /\ e = 1 => l.rec > 1 /\ (f = 0 => Place(l.cyl, l.track, l.rec - 1) \notin DOMAIN v)
    /\ e = 2 => l.rec = 1

\* The records read lie in front of l, in their order.
Ordered(b) == \A i, j \in DOMAIN b : i < j => Before(b[i].at, b[j].at)
Passed(b, l) == \A k \in DOMAIN b : Before(b[k].at, l)

VolumeTypes ==
    /\ volume \in Volumes /\ loc \in Places
    /\ reading \in {"label", "chain", "data", "idle", "astray"}
    /\ errcnt \in 0 .. 3 /\ faults \in Nat
    /\ nodes \in Seq(Labels(volume)) /\ buf \in Seq(BufRecords(volume))

Reading ==
    /\ ds \in Labels(volume) /\ result = "none"
    /\ Passed(buf, loc) /\ ~Before(loc, FirstPlace(ds))
    /\ faults <= 1 => Frontier(volume, ds, buf, loc, errcnt, faults)

HasRead ==
    /\ ds \in Labels(volume)
    /\ faults <= 1 =>
          InOneCylinder({p \in DataOf(volume, ds.of) : \A k \in DOMAIN buf : buf[k].at # p})

VolumeInv ==
    /\ VolumeTypes
    /\ Ordered(buf)
    /\ reading \in {"label", "chain", "astray"} => result = "none"
    /\ reading = "data" => Reading
    /\ result = "read" => reading = "idle" /\ HasRead

LEMMA FurtherPlaces ==
    ASSUME NEW p \in Places
    PROVE  /\ Further(p, 1) = Behind(p)
           /\ Further(p, 2) = Place(p.cyl, p.track + 1, 1)
           /\ Further(p, 3) = Place(p.cyl + 1, 0, 1)
           /\ \A n \in 1 .. 3 : Further(p, n) \in Places /\ Before(p, Further(p, n))
<1>1. /\ Further(p, 1) = Behind(p)
      /\ Further(p, 2) = Place(p.cyl, p.track + 1, 1)
      /\ Further(p, 3) = Place(p.cyl + 1, 0, 1)
  BY DEF Further, Behind
<1>2. /\ p.cyl \in Nat /\ p.track \in Nat /\ p.rec \in Nat
      /\ p.track + 1 \in Nat /\ p.cyl + 1 \in Nat /\ 0 \in Nat /\ 1 \in Nat \ {0}
  BY PlaceOf
<1>3. Behind(p) \in Places /\ Before(p, Behind(p))
  BY BehindPlace, BeforeAfter
<1>4. Place(p.cyl, p.track + 1, 1) \in Places /\ Place(p.cyl + 1, 0, 1) \in Places
  BY <1>2, PlaceIn
<1>5. Before(p, Place(p.cyl, p.track + 1, 1)) /\ Before(p, Place(p.cyl + 1, 0, 1))
  BY <1>2, PlaceFields DEF Before
<1> QED BY <1>1, <1>3, <1>4, <1>5

\* The data that become unread when the driver looks further on.
LEMMA UnreadGrows ==
    ASSUME NEW v \in Volumes, NEW d \in Labels(v), NEW b, NEW l \in Places, NEW m \in Places
    PROVE  Unread(v, d, b, m) \subseteq Unread(v, d, b, l) \cup Gap(v, d, l, m)
BY DEF Unread, Gap

\* A read fails: the next place.
LEMMA FrontierMoves ==
    ASSUME NEW v \in Volumes, NEW d \in Labels(v), NEW b, NEW l \in Places, NEW e \in 0 .. 2,
           NEW f \in Nat, NEW f2 \in Nat, ~Before(l, FirstPlace(d)),
           Frontier(v, d, b, l, e, f), f2 <= 1,
           f2 = IF l \in DOMAIN v THEN f + 1 ELSE f
    PROVE  Frontier(v, d, b, Further(l, e + 1), e + 1, f2)
<1> DEFINE m == Further(l, e + 1)
           G == Gap(v, d, l, m)
           U == Unread(v, d, b, l)
           W == Unread(v, d, b, m)
<1>1. m \in Places
  BY FurtherPlaces
<1>2. W \subseteq U \cup G
  BY <1>1, UnreadGrows
<1>3. (f = 0 => U = {}) /\ InOneCylinder(U) /\ (f = 0 \/ f2 = f)
  BY DEF Frontier
<1>4. l.cyl \in Nat /\ l.track \in Nat /\ l.rec \in Nat /\ l.rec > 0
      /\ l = Place(l.cyl, l.track, l.rec)
  BY PlaceOf
<1>5. InOneCylinder(G) /\ (l \notin DOMAIN v => G = {})
  <2>1. CASE e = 0
    <3>1. m = Behind(l)
      BY <2>1, FurtherPlaces
    <3>2. G \subseteq {l} /\ G \subseteq DOMAIN v
      BY <3>1, GapOfOne, DataPlaces DEF Gap
    <3> QED BY <3>2 DEF InOneCylinder
  <2>2. CASE e = 1
    <3>1. m = Place(l.cyl, l.track + 1, 1)
      BY <2>2, FurtherPlaces
    <3>2. l.rec > 1 /\ (f = 0 => Place(l.cyl, l.track, l.rec - 1) \notin DOMAIN v)
      BY <2>2 DEF Frontier
    <3>3. CASE l \notin DOMAIN v
      <4>1. l.rec \in 1 .. l.rec /\ Place(l.cyl, l.track, l.rec) \notin DOMAIN v
        BY <1>4, <3>3
      <4>2. G = {}
        BY <3>1, <4>1, GapOfTrack
      <4> QED BY <4>2 DEF InOneCylinder
    <3>4. CASE l \in DOMAIN v
      <4>1. f = 0
        BY <3>4
      <4>2. l.rec - 1 \in 1 .. l.rec
        BY <1>4, <3>2
      <4>3. G = {}
        BY <3>1, <3>2, <4>1, <4>2, GapOfTrack
      <4> QED BY <4>3 DEF InOneCylinder
    <3> QED BY <3>3, <3>4
  <2>3. CASE e = 2
    <3>1. m = Place(l.cyl + 1, 0, 1)
      BY <2>3, FurtherPlaces
    <3>2. l.rec = 1
      BY <2>3 DEF Frontier
    <3> QED BY <3>1, <3>2, GapOfCylinder DEF InOneCylinder
  <2> QED BY <2>1, <2>2, <2>3
<1>6. f2 = 0 => W = {}
  <2>1. ASSUME f2 = 0 PROVE W = {}
    <3>1. f = 0 /\ l \notin DOMAIN v
      BY <2>1
    <3> QED BY <1>2, <1>3, <1>5, <3>1
  <2> QED BY <2>1
<1>7. InOneCylinder(W)
  <2>1. CASE l \in DOMAIN v
    <3>1. f = 0
      BY <2>1
    <3> QED BY <1>2, <1>3, <1>5, <3>1 DEF InOneCylinder
  <2>2. CASE l \notin DOMAIN v
    BY <1>2, <1>3, <1>5, <2>2 DEF InOneCylinder
  <2> QED BY <2>1, <2>2
<1>8. e + 1 = 1 => m.rec > 1 /\ (f2 = 0 => Place(m.cyl, m.track, m.rec - 1) \notin DOMAIN v)
  <2>1. ASSUME e + 1 = 1
        PROVE  m.rec > 1 /\ (f2 = 0 => Place(m.cyl, m.track, m.rec - 1) \notin DOMAIN v)
    <3>1. m.cyl = l.cyl /\ m.track = l.track /\ m.rec = l.rec + 1
      BY <2>1, FurtherPlaces, BehindPlace
    <3>2. m.rec - 1 = l.rec /\ m.rec > 1
      BY <1>4, <3>1
    <3>3. Place(m.cyl, m.track, m.rec - 1) = l
      BY <1>4, <3>1, <3>2
    <3>4. f2 = 0 => l \notin DOMAIN v
      OBVIOUS
    <3> QED BY <3>2, <3>3, <3>4
  <2> QED BY <2>1
<1>9. e + 1 = 2 => m.rec = 1
  <2>1. ASSUME e + 1 = 2 PROVE m = Place(l.cyl, l.track + 1, 1)
    BY <2>1, FurtherPlaces
  <2> QED BY <2>1, PlaceFields
<1> HIDE DEF m, G, U
<1> QED BY <1>6, <1>7, <1>8, <1>9 DEF Frontier, m

\* The records read and one more.
LEMMA AppendedRecord ==
    ASSUME NEW v, NEW b \in Seq(BufRecords(v)), NEW p \in DOMAIN v
    PROVE  /\ Append(b, [at |-> p, of |-> v[p].of]) \in Seq(BufRecords(v))
           /\ \A k \in DOMAIN b : /\ k \in DOMAIN Append(b, [at |-> p, of |-> v[p].of])
                                  /\ Append(b, [at |-> p, of |-> v[p].of])[k] = b[k]
           /\ Len(b) + 1 \in DOMAIN Append(b, [at |-> p, of |-> v[p].of])
           /\ Append(b, [at |-> p, of |-> v[p].of])[Len(b) + 1].at = p
           /\ \A k \in DOMAIN Append(b, [at |-> p, of |-> v[p].of]) :
                 k \in DOMAIN b \/ k = Len(b) + 1
           /\ \A k \in DOMAIN b : k \in Nat /\ k < Len(b) + 1
<1>1. [at |-> p, of |-> v[p].of] \in BufRecords(v)
  BY DEF BufRecords
<1>2. PICK r \in BufRecords(v) : r = [at |-> p, of |-> v[p].of] /\ r.at = p
  BY <1>1
<1>3. Append(b, r) \in Seq(BufRecords(v)) /\ DOMAIN b = 1 .. Len(b) /\ Len(b) \in Nat
      /\ DOMAIN Append(b, r) = 1 .. Len(b) + 1 /\ Append(b, r)[Len(b) + 1] = r
      /\ \A k \in 1 .. Len(b) : Append(b, r)[k] = b[k]
  OBVIOUS
<1> QED BY <1>2, <1>3

LEMMA RecordPlace ==
    ASSUME NEW v \in Volumes, NEW b \in Seq(BufRecords(v)), NEW k \in DOMAIN b
    PROVE  b[k].at \in DOMAIN v /\ b[k].at \in Places
<1>1. b[k] \in BufRecords(v)
  OBVIOUS
<1> QED BY <1>1, Written DEF BufRecords

\* A record is read.
LEMMA ReadOne ==
    ASSUME NEW v \in Volumes, NEW d \in Labels(v), NEW b \in Seq(BufRecords(v)),
           NEW l \in DOMAIN v, Ordered(b), Passed(b, l), NEW b2,
           b2 = Append(b, [at |-> l, of |-> v[l].of])
    PROVE  /\ Ordered(b2) /\ Passed(b2, Behind(l))
           /\ Unread(v, d, b2, Behind(l)) \subseteq Unread(v, d, b, l)
<1>0. l \in Places /\ Behind(l) \in Places
  BY Written, BehindPlace
<1>1. /\ \A k \in DOMAIN b : k \in DOMAIN b2 /\ b2[k] = b[k]
      /\ Len(b) + 1 \in DOMAIN b2 /\ b2[Len(b) + 1].at = l
      /\ \A k \in DOMAIN b2 : k \in DOMAIN b \/ k = Len(b) + 1
      /\ \A k \in DOMAIN b : k \in Nat /\ k < Len(b) + 1
  BY AppendedRecord
<1>2. \A k \in DOMAIN b : b[k].at \in Places
  BY RecordPlace
<1>3. ASSUME NEW i \in DOMAIN b2, NEW j \in DOMAIN b2, i < j
      PROVE  Before(b2[i].at, b2[j].at)
  <2>0. Len(b) \in Nat
    OBVIOUS
  <2>1. CASE j \in DOMAIN b
    <3>1. i \in DOMAIN b
      BY <1>1, <1>3, <2>0, <2>1
    <3> QED BY <1>1, <1>3, <2>1, <3>1 DEF Ordered
  <2>2. CASE j = Len(b) + 1
    <3>1. i \in DOMAIN b
      BY <1>1, <1>3, <2>0, <2>2
    <3> QED BY <1>1, <2>2, <3>1 DEF Passed
  <2> QED BY <1>1, <2>1, <2>2
<1>4. ASSUME NEW k \in DOMAIN b2
      PROVE  Before(b2[k].at, Behind(l))
  <2>1. CASE k \in DOMAIN b
    BY <1>0, <1>1, <1>2, <2>1, BeforeAfter DEF Passed
  <2>2. CASE k = Len(b) + 1
    BY <1>0, <1>1, <2>2, BeforeAfter
  <2> QED BY <1>1, <2>1, <2>2
<1>5. ASSUME NEW p \in Unread(v, d, b2, Behind(l))
      PROVE  p \in Unread(v, d, b, l)
  <2>1. p \in DataOf(v, d.of) /\ p \in Places /\ Before(p, Behind(l)) /\ \A k \in DOMAIN b2 : b2[k].at # p
    BY DataPlaces DEF Unread
  <2>2. p # l
    BY <1>1, <2>1
  <2>3. Before(p, l)
    BY <1>0, <2>1, <2>2, BeforeAfter
  <2>4. \A k \in DOMAIN b : b[k].at # p
    BY <1>1, <2>1
  <2> QED BY <2>1, <2>3, <2>4 DEF Unread
<1> QED BY <1>3, <1>4, <1>5 DEF Ordered, Passed

\* Behind an empty record, and behind the tracks of a dataset, there are no data of it.
LEMMA AtEnd ==
    ASSUME NEW v \in Volumes, NEW d \in Labels(v), NEW l \in DOMAIN v, NEW p \in DataOf(v, d.of),
           ~Before(l, FirstPlace(d)), v[l].size = 0 \/ PastEnd(Behind(l), d)
    PROVE  Before(p, l) \/ p = l
<1>0. LaidOut(v, d) /\ l \in Places /\ p \in Places
  BY LabelLaidOut, Written, DataPlaces
<1>1. CASE v[l].size = 0
  BY <1>0, <1>1 DEF LaidOut
<1>2. CASE PastEnd(Behind(l), d)
  <2>1. l.track > d.end.track /\ l.cyl >= d.end.cyl
    BY <1>0, <1>2, BehindPlace DEF PastEnd
  <2>2. p.cyl < d.end.cyl \/ (p.cyl = d.end.cyl /\ p.track <= d.end.track)
    BY <1>0 DEF LaidOut
  <2>3. {d.end.cyl, d.end.track} \subseteq Nat
    BY <1>0 DEF LaidOut
  <2>4. /\ l.cyl \in Nat /\ l.track \in Nat /\ p.cyl \in Nat /\ p.track \in Nat
    BY <1>0, PlaceOf
  <2> QED BY <2>1, <2>2, <2>3, <2>4 DEF Before
<1> QED BY <1>1, <1>2

LEMMA InitVolume == MountInit => VolumeInv
<1> SUFFICES ASSUME MountInit PROVE VolumeInv
  OBVIOUS
<1>1. VtocPlace \in Places
  BY PlaceIn DEF VtocPlace
<1>2. buf = <<>> /\ nodes = <<>> /\ DOMAIN buf = {}
  BY DEF MountInit
<1>3. buf \in Seq(BufRecords(volume)) /\ nodes \in Seq(Labels(volume))
  BY <1>2
<1>4. VolumeTypes
  BY <1>1, <1>3 DEF VolumeTypes, MountInit
<1> QED BY <1>2, <1>4 DEF VolumeInv, MountInit, Ordered

LEMMA MissVolume ==
    ASSUME VolumeInv, Miss
    PROVE  VolumeInv'
<1>1. /\ volume' = volume /\ nodes' = nodes /\ ds' = ds /\ buf' = buf
      /\ reading \in {"label", "chain", "data"}
      /\ volume \in Volumes /\ loc \in Places /\ errcnt \in 0 .. 3 /\ faults \in Nat
  BY DEF Miss, VolumeInv, VolumeTypes
<1>2. faults' = (IF loc \in DOMAIN volume THEN faults + 1 ELSE faults) /\ faults' \in Nat
  BY <1>1 DEF Miss
<1>3. Ordered(buf') /\ result = "none"
  BY <1>1 DEF VolumeInv, Reading
<1>4. CASE errcnt + 1 < 4
  <2>1. /\ errcnt' = errcnt + 1 /\ loc' = Further(loc, errcnt + 1)
        /\ reading' = reading /\ result' = result
    BY <1>4 DEF Miss
  <2>2. errcnt + 1 \in 1 .. 3 /\ errcnt \in 0 .. 2
    BY <1>1, <1>4
  <2>3. loc' \in Places /\ Before(loc, loc') /\ errcnt' \in 0 .. 3
    BY <1>1, <2>1, <2>2, FurtherPlaces
  <2>4. VolumeTypes'
    BY <1>1, <1>2, <2>1, <2>3 DEF VolumeTypes, VolumeInv
  <2>5. ASSUME reading' = "data" PROVE Reading'
    <3>1. Reading
      BY <2>1, <2>5 DEF VolumeInv
    <3>2. ds \in Labels(volume) /\ ~Before(loc, FirstPlace(ds)) /\ FirstPlace(ds) \in Places
      BY <1>1, <3>1, LabelLaidOut DEF Reading
    <3>3. ~Before(loc', FirstPlace(ds))
      BY <1>1, <2>3, <3>2, BeforeAfter
    <3>4. Passed(buf, loc')
      <4> SUFFICES ASSUME NEW k \in DOMAIN buf PROVE Before(buf[k].at, loc')
        BY DEF Passed
      <4>1. Before(buf[k].at, loc) /\ buf[k].at \in Places
        BY <1>1, <3>1, RecordPlace DEF Reading, Passed, VolumeInv, VolumeTypes
      <4> QED BY <1>1, <2>3, <4>1, BeforeAfter
    <3>5. ASSUME faults' <= 1
          PROVE  Frontier(volume, ds, buf, loc', errcnt', faults')
      <4>1. faults <= 1
        BY <1>1, <1>2, <3>5
      <4>2. Frontier(volume, ds, buf, loc, errcnt, faults)
        BY <3>1, <4>1 DEF Reading
      <4> QED BY <1>1, <1>2, <2>1, <2>2, <3>2, <3>5, <4>2, FrontierMoves
    <3> QED BY <1>1, <1>3, <2>1, <3>2, <3>3, <3>4, <3>5 DEF Reading
  <2> QED BY <1>1, <1>3, <2>1, <2>4, <2>5 DEF VolumeInv
<1>5. CASE ~(errcnt + 1 < 4)
  <2>1. /\ reading' \in {"idle", "astray"} /\ loc' = loc /\ errcnt' = 0
        /\ result' \in {"unavailable", "none"}
        /\ reading' = "astray" => result' = "none"
    BY <1>3, <1>5 DEF Miss, Idle, Astray, Look
  <2>2. VolumeTypes'
    BY <1>1, <1>2, <2>1 DEF VolumeTypes, VolumeInv
  <2> QED BY <1>3, <2>1, <2>2 DEF VolumeInv
<1> QED BY <1>4, <1>5

\* Labels that are read in turn belong to the volume.
LEMMA LabelVolume ==
    ASSUME VolumeInv, Label
    PROVE  VolumeInv'
<1>1. /\ reading = "label" /\ loc \in DOMAIN volume /\ volume \in Volumes
      /\ volume' = volume /\ faults' = faults /\ nodes' = nodes /\ ds' = ds /\ buf' = buf
      /\ result' = result /\ result = "none"
  BY DEF Label, Hit, VolumeInv, VolumeTypes
<1>2. CASE volume[loc].kind = "vtoc"
  <2>1. reading' = "chain" /\ loc' = volume[loc].chain /\ errcnt' = 0
    BY <1>2 DEF Label, Look
  <2>2. ChainedFrom(volume, volume[loc].chain)
    BY <1>1, <1>2, Written DEF WrittenVolume
  <2>3. loc' \in Places
    BY <1>1, <2>1, <2>2, Written DEF ChainedFrom
  <2>4. VolumeTypes'
    BY <1>1, <2>1, <2>3 DEF VolumeTypes, VolumeInv
  <2> QED BY <1>1, <2>1, <2>4 DEF VolumeInv
<1>3. CASE volume[loc].kind # "vtoc"
  <2>1. reading' = "astray" /\ loc' = loc /\ errcnt' = 0
    BY <1>3 DEF Label, Look, Astray
  <2>2. VolumeTypes'
    BY <1>1, <2>1 DEF VolumeTypes, VolumeInv
  <2> QED BY <1>1, <2>1, <2>2 DEF VolumeInv
<1> QED BY <1>2, <1>3

LEMMA ChainVolume ==
    ASSUME VolumeInv, Chain
    PROVE  VolumeInv'
<1>1. /\ reading = "chain" /\ loc \in DOMAIN volume /\ volume \in Volumes /\ last' = Behind(loc)
      /\ volume' = volume /\ faults' = faults /\ ds' = ds /\ buf' = buf
      /\ result' = result /\ result = "none" /\ loc \in Places /\ nodes \in Seq(Labels(volume))
  BY DEF Chain, Hit, VolumeInv, VolumeTypes
<1>2. /\ reading' \in {"chain", "idle", "astray"} /\ errcnt' = 0
      /\ loc' \in Places /\ nodes' \in Seq(Labels(volume))
  <2>1. CASE volume[loc].kind = "dscb" /\ Look("chain", last') /\ nodes' = Append(nodes, volume[loc])
    <3>1. volume[loc] \in Labels(volume)
      BY <1>1, <2>1 DEF Labels
    <3>2. nodes' \in Seq(Labels(volume))
      BY <1>1, <2>1, <3>1
    <3> QED BY <1>1, <2>1, <3>2, BehindPlace DEF Look
  <2>2. CASE Idle /\ UNCHANGED nodes
    BY <1>1, <2>2 DEF Idle, Look
  <2>3. CASE Astray /\ UNCHANGED nodes
    BY <1>1, <2>3 DEF Astray, Look
  <2> QED BY <2>1, <2>2, <2>3 DEF Chain
<1>3. VolumeTypes'
  BY <1>1, <1>2 DEF VolumeTypes, VolumeInv
<1> QED BY <1>1, <1>2, <1>3 DEF VolumeInv

LEMMA ReadDatasetVolume ==
    ASSUME VolumeInv, ReadDataset
    PROVE  VolumeInv'
<1>1. /\ volume' = volume /\ nodes' = nodes /\ faults' = faults /\ buf' = <<>> /\ result' = "none"
      /\ volume \in Volumes /\ nodes \in Seq(Labels(volume)) /\ faults \in Nat
  BY DEF ReadDataset, VolumeInv, VolumeTypes
<1>2. PICK k \in DOMAIN nodes :
        /\ ds' = nodes[k]
        /\ Look("data", Place(nodes[k].start.cyl, nodes[k].start.track, 1))
  BY DEF ReadDataset
<1>3. ds' \in Labels(volume)
  BY <1>1, <1>2
<1>4. reading' = "data" /\ loc' = FirstPlace(ds') /\ errcnt' = 0
  BY <1>2 DEF Look, FirstPlace
<1>5. FirstPlace(ds') \in Places /\ LaidOut(volume, ds')
  BY <1>1, <1>3, LabelLaidOut
<1>6. DOMAIN buf' = {} /\ buf' \in Seq(BufRecords(volume))
  BY <1>1
<1>7. VolumeTypes'
  BY <1>1, <1>4, <1>5, <1>6 DEF VolumeTypes, VolumeInv
<1>8. Unread(volume, ds', buf', loc') = {}
  BY <1>4, <1>5 DEF Unread, LaidOut
<1>9. ~Before(loc', FirstPlace(ds'))
  BY <1>4, <1>5, BeforeAfter
<1>10. Frontier(volume, ds', buf', loc', errcnt', faults')
  BY <1>4, <1>8 DEF Frontier, InOneCylinder
<1>11. Reading'
  BY <1>1, <1>3, <1>6, <1>9, <1>10 DEF Reading, Passed
<1> QED BY <1>1, <1>4, <1>6, <1>7, <1>11 DEF VolumeInv, Ordered

LEMMA DataVolume ==
    ASSUME VolumeInv, Data
    PROVE  VolumeInv'
<1>1. /\ reading = "data" /\ loc \in DOMAIN volume /\ volume \in Volumes /\ last' = Behind(loc)
      /\ volume' = volume /\ faults' = faults /\ ds' = ds /\ nodes' = nodes
      /\ loc \in Places /\ buf \in Seq(BufRecords(volume)) /\ Reading /\ Ordered(buf)
  BY DEF Data, Hit, VolumeInv, VolumeTypes
<1>2. /\ ds \in Labels(volume) /\ result = "none" /\ Passed(buf, loc)
      /\ ~Before(loc, FirstPlace(ds)) /\ FirstPlace(ds) \in Places
      /\ faults <= 1 => Frontier(volume, ds, buf, loc, errcnt, faults)
  BY <1>1, LabelLaidOut DEF Reading
<1> DEFINE b2 == Append(buf, [at |-> loc, of |-> volume[loc].of])
<1>3. /\ Ordered(b2) /\ Passed(b2, Behind(loc))
      /\ Unread(volume, ds, b2, Behind(loc)) \subseteq Unread(volume, ds, buf, loc)
  BY <1>1, <1>2, ReadOne
<1>4. b2 \in Seq(BufRecords(volume)) /\ \E k \in DOMAIN b2 : b2[k].at = loc
  BY <1>1, AppendedRecord
<1> HIDE DEF b2
<1>5. CASE volume[loc].size = 0
  <2>1. reading' = "idle" /\ loc' = loc /\ errcnt' = 0 /\ result' = "read" /\ buf' = buf
    BY <1>5 DEF Data, Idle, Look
  <2>2. VolumeTypes'
    BY <1>1, <2>1 DEF VolumeTypes, VolumeInv
  <2>3. HasRead'
    <3>1. ASSUME faults <= 1
          PROVE  InOneCylinder({p \in DataOf(volume, ds.of) : \A k \in DOMAIN buf : buf[k].at # p})
      <4>1. ASSUME NEW p \in DataOf(volume, ds.of)
            PROVE  Before(p, loc)
        <5>1. p # loc
          BY <1>5 DEF DataOf
        <5> QED BY <1>1, <1>2, <1>5, <5>1, AtEnd
      <4>2. InOneCylinder(Unread(volume, ds, buf, loc))
        BY <1>2, <3>1 DEF Frontier
      <4> QED BY <4>1, <4>2 DEF Unread, InOneCylinder
    <3> QED BY <1>1, <1>2, <2>1, <3>1 DEF HasRead
  <2> QED BY <1>1, <2>1, <2>2, <2>3 DEF VolumeInv
<1>6. CASE volume[loc].size # 0 /\ PastEnd(Behind(loc), ds)
  <2>1. reading' = "idle" /\ loc' = loc /\ errcnt' = 0 /\ result' = "read" /\ buf' = b2
    BY <1>1, <1>6 DEF Data, Idle, Look, b2
  <2>2. VolumeTypes'
    BY <1>1, <1>4, <2>1 DEF VolumeTypes, VolumeInv
  <2>3. HasRead'
    <3>1. ASSUME faults <= 1
          PROVE  InOneCylinder({p \in DataOf(volume, ds.of) : \A k \in DOMAIN b2 : b2[k].at # p})
      <4>1. ASSUME NEW p \in DataOf(volume, ds.of), \A k \in DOMAIN b2 : b2[k].at # p
            PROVE  p \in Unread(volume, ds, b2, Behind(loc))
        <5>1. p # loc
          BY <1>4, <4>1
        <5>2. Before(p, loc)
          BY <1>1, <1>2, <1>6, <5>1, AtEnd
        <5>3. Before(p, Behind(loc))
          BY <1>1, <5>2, BeforeAfter, DataPlaces
        <5> QED BY <4>1, <5>3 DEF Unread
      <4>2. InOneCylinder(Unread(volume, ds, buf, loc))
        BY <1>2, <3>1 DEF Frontier
      <4> QED BY <1>3, <4>1, <4>2 DEF InOneCylinder
    <3> QED BY <1>1, <1>2, <2>1, <3>1 DEF HasRead
  <2> QED BY <1>1, <1>3, <2>1, <2>2, <2>3 DEF VolumeInv
<1>7. CASE volume[loc].size # 0 /\ ~PastEnd(Behind(loc), ds)
  <2>1. reading' = "data" /\ loc' = Behind(loc) /\ errcnt' = 0 /\ result' = result /\ buf' = b2
    BY <1>1, <1>7 DEF Data, Look, b2
  <2>2. loc' \in Places /\ ~Before(loc', FirstPlace(ds))
    BY <1>1, <1>2, <2>1, BehindPlace, BeforeAfter
  <2>3. VolumeTypes'
    BY <1>1, <1>4, <2>1, <2>2 DEF VolumeTypes, VolumeInv
  <2>4. ASSUME faults <= 1
        PROVE  Frontier(volume, ds, b2, Behind(loc), 0, faults)
    BY <1>2, <1>3, <2>4 DEF Frontier, InOneCylinder
  <2>5. Reading'
    BY <1>1, <1>2, <1>3, <2>1, <2>2, <2>4 DEF Reading
  <2> QED BY <1>1, <1>2, <1>3, <2>1, <2>3, <2>5 DEF VolumeInv
<1> QED BY <1>5, <1>6, <1>7

LEMMA VolumeStep == VolumeInv /\ [VolumeNext]_volumeVars => VolumeInv'
<1> SUFFICES ASSUME VolumeInv, [VolumeNext]_volumeVars PROVE VolumeInv'
  OBVIOUS
<1>1. ASSUME UNCHANGED volumeVars PROVE VolumeInv'
  BY <1>1 DEF volumeVars, VolumeInv, VolumeTypes, Reading, HasRead
<1>2. CASE VolumeNext
  BY <1>2, MissVolume, LabelVolume, ChainVolume, ReadDatasetVolume, DataVolume DEF VolumeNext
<1> QED BY <1>1, <1>2

LEMMA OneCylinderLost == VolumeInv => OneFaultOneCylinder
<1> SUFFICES ASSUME VolumeInv PROVE OneFaultOneCylinder
  OBVIOUS
<1>1. \A i, j \in DOMAIN buf : i < j => Before(buf[i].at, buf[j].at)
  BY DEF VolumeInv, Ordered
<1>2. ASSUME result = "read", faults <= 1,
             NEW p \in Extent(ds.of) \ ToSet(BufPlaces), NEW q \in Extent(ds.of) \ ToSet(BufPlaces)
      PROVE  p.cyl = q.cyl
  <2>1. \A x : x \in Extent(ds.of) \ ToSet(BufPlaces)
                 => x \in DataOf(volume, ds.of) /\ \A k \in DOMAIN buf : buf[k].at # x
    BY DEF Extent, ToSet, BufPlaces
  <2>2. HasRead
    BY <1>2 DEF VolumeInv
  <2> QED BY <1>2, <2>1, <2>2 DEF HasRead, InOneCylinder
<1> QED BY <1>1, <1>2 DEF OneFaultOneCylinder

-----------------------------------------------------------------------------
(* Places in their order.                                                  *)

\* s has the places of S, the earlier ones first.
Enumerates(s, n, S) ==
    /\ S \subseteq Places /\ n \in Nat /\ s \in [1 .. n -> S]
    /\ \A p \in S : \E k \in 1 .. n : s[k] = p
    /\ \A i, j \in 1 .. n : i < j => Before(s[i], s[j])

LEMMA Counting ==
    ASSUME NEW n \in Nat, NEW S, NEW f \in [1 .. n -> S],
           \A i, j \in 1 .. n : f[i] = f[j] => i = j,
           \A x \in S : \E k \in 1 .. n : f[k] = x
    PROVE  Cardinality(S) = n
<1>1. f \in Bijection(1 .. n, S)
  BY DEF Bijection, Injection, Surjection, IsInjective
<1>2. ExistsBijection(1 .. n, S)
  BY <1>1 DEF ExistsBijection
<1> QED BY <1>2, FS_CountingElements

LEMMA OneToOne ==
    ASSUME NEW s, NEW n, NEW S, Enumerates(s, n, S), NEW i \in 1 .. n, NEW j \in 1 .. n
    PROVE  (s[i] = s[j] <=> i = j) /\ (Before(s[i], s[j]) <=> i < j) /\ s[i] \in Places
<1>1. s[i] \in Places /\ s[j] \in Places /\ i \in Int /\ j \in Int
  BY DEF Enumerates
<1>2. i < j => Before(s[i], s[j])
  BY DEF Enumerates
<1>3. j < i => Before(s[j], s[i])
  BY DEF Enumerates
<1>4. i < j \/ i = j \/ j < i
  BY <1>1
<1> QED BY <1>1, <1>2, <1>3, <1>4, BeforeAfter

\* As many places lie before the k-th one as there are in front of it.
LEMMA CountBefore ==
    ASSUME NEW s, NEW n, NEW S, Enumerates(s, n, S), NEW k \in 1 .. n
    PROVE  Cardinality({q \in S : Before(q, s[k])}) = k - 1
<1> DEFINE T == {q \in S : Before(q, s[k])}
           f == [i \in 1 .. k - 1 |-> s[i]]
<1>0. n \in Nat /\ k - 1 \in Nat /\ \A i \in 1 .. k - 1 : i \in 1 .. n /\ i < k
  BY DEF Enumerates
<1>1. ASSUME NEW i \in 1 .. k - 1
      PROVE  s[i] \in T
  <2>1. Before(s[i], s[k]) /\ s[i] \in S
    BY <1>0 DEF Enumerates
  <2> QED BY <2>1
<1>2. f \in [1 .. k - 1 -> T]
  BY <1>1
<1>3. \A i, j \in 1 .. k - 1 : f[i] = f[j] => i = j
  BY <1>0, OneToOne
<1>4. ASSUME NEW x \in T
      PROVE  \E i \in 1 .. k - 1 : f[i] = x
  <2>1. PICK i \in 1 .. n : s[i] = x
    BY DEF Enumerates
  <2>2. i < k
    BY <2>1, OneToOne
  <2>3. i \in 1 .. k - 1
    BY <1>0, <2>2
  <2> QED BY <2>1, <2>3
<1> HIDE DEF f, T
<1>5. Cardinality(T) = k - 1
  BY <1>0, <1>2, <1>3, <1>4, Counting
<1> QED BY <1>5 DEF T

LEMMA InOrderIs ==
    ASSUME NEW s, NEW n, NEW S, Enumerates(s, n, S)
    PROVE  InOrder(S) = s /\ Cardinality(S) = n /\ DOMAIN s = 1 .. n
<1>0. n \in Nat /\ s \in [1 .. n -> S]
  BY DEF Enumerates
<1>1. Cardinality(S) = n
  <2>1. \A i, j \in 1 .. n : s[i] = s[j] => i = j
    BY OneToOne
  <2>2. \A x \in S : \E k \in 1 .. n : s[k] = x
    BY DEF Enumerates
  <2> QED BY <1>0, <2>1, <2>2, Counting
<1>2. ASSUME NEW k \in 1 .. n
      PROVE  (CHOOSE p \in S : Cardinality({q \in S : Before(q, p)}) = k - 1) = s[k]
  <2>1. s[k] \in S /\ Cardinality({q \in S : Before(q, s[k])}) = k - 1
    BY <1>0, CountBefore
  <2>2. ASSUME NEW p \in S, Cardinality({q \in S : Before(q, p)}) = k - 1
        PROVE  p = s[k]
    <3>1. PICK j \in 1 .. n : s[j] = p
      BY DEF Enumerates
    <3>2. Cardinality({q \in S : Before(q, s[j])}) = j - 1
      BY CountBefore
    <3>3. j - 1 = k - 1
      BY <2>2, <3>1, <3>2
    <3>4. j = k
      BY <1>0, <3>3
    <3> QED BY <3>1, <3>4
  <2> QED BY <2>1, <2>2
<1>3. InOrder(S) = [k \in 1 .. n |-> s[k]]
  BY <1>1, <1>2 DEF InOrder
<1> QED BY <1>0, <1>1, <1>3

-----------------------------------------------------------------------------
(* Where the next record is found, if nothing fails.                       *)

\* The driver, having failed e times, comes from l to record x, and there is
\* nothing it could come to before.
Target(v, l, e, x) ==
    /\ x \in DOMAIN v
    /\ \A y \in DOMAIN v : Before(y, l) \/ ~Before(y, x)
    /\ e = 0 => x \in {l, Place(l.cyl, l.track + 1, 1), Place(l.cyl + 1, 0, 1)}
    /\ e = 1 => x \in {Place(l.cyl, l.track + 1, 1), Place(l.cyl + 1, 0, 1)}
    /\ e = 2 => x \in {l, Place(l.cyl + 1, 0, 1)}
    /\ e = 3 => x = l

LEMMA TargetAhead ==
    ASSUME NEW v \in Volumes, NEW l \in Places, NEW e \in 0 .. 3, NEW x, Target(v, l, e, x)
    PROVE  /\ x \in DOMAIN v /\ x \in Places /\ (x = l \/ Before(l, x))
           /\ l \in DOMAIN v => x = l
           /\ e = 3 => l \in DOMAIN v
<1>1. x \in DOMAIN v /\ x \in Places
  BY Written DEF Target
<1>2. /\ l.cyl \in Nat /\ l.track \in Nat /\ l.rec \in Nat
  BY PlaceOf
<1>3. Before(l, Place(l.cyl, l.track + 1, 1)) /\ Before(l, Place(l.cyl + 1, 0, 1))
  BY <1>2, PlaceFields DEF Before
<1>4. x = l \/ Before(l, x)
  <2>1. x \in {l, Place(l.cyl, l.track + 1, 1), Place(l.cyl + 1, 0, 1)}
    BY DEF Target
  <2> QED BY <1>3, <2>1
<1>5. l \in DOMAIN v => x = l
  BY <1>1, <1>4, BeforeAfter DEF Target
<1>6. e = 3 => l \in DOMAIN v
  BY <1>1 DEF Target
<1> QED BY <1>1, <1>4, <1>5, <1>6

\* What lies behind a record is the next target.
LEMMA TargetBehind ==
    ASSUME NEW v \in Volumes, NEW p \in DOMAIN v, NEW q, NextTo(v, p, q)
    PROVE  Target(v, Behind(p), 0, q)
<1>0. p \in Places
  BY Written
<1>1. Behind(p).cyl = p.cyl /\ Behind(p).track = p.track
  BY <1>0, BehindPlace
<1>2. q \in DOMAIN v /\ q \in {Behind(p), Place(p.cyl, p.track + 1, 1), Place(p.cyl + 1, 0, 1)}
  BY <1>0, BehindPlace DEF NextTo
<1>3. ASSUME NEW y \in DOMAIN v
      PROVE  Before(y, Behind(p)) \/ ~Before(y, q)
  <2>1. y \in Places
    BY Written
  <2>2. Before(y, Behind(p)) <=> Before(y, p) \/ y = p
    BY <1>0, <2>1, BeforeAfter
  <2>3. Before(y, p) \/ y = p \/ Before(p, y)
    BY <1>0, <2>1, BeforeAfter
  <2> QED BY <2>2, <2>3 DEF NextTo
<1> QED BY <1>1, <1>2, <1>3 DEF Target

\* A read that fails for its place comes nearer.
LEMMA TargetStays ==
    ASSUME NEW v \in Volumes, NEW l \in Places, NEW e \in 0 .. 2, NEW x, Target(v, l, e, x),
           l \notin DOMAIN v
    PROVE  Target(v, Further(l, e + 1), e + 1, x)
<1> DEFINE m == Further(l, e + 1)
<1>0. x \in DOMAIN v /\ m \in Places /\ Before(l, m)
  BY FurtherPlaces DEF Target
<1>1. ASSUME NEW y \in DOMAIN v
      PROVE  Before(y, m) \/ ~Before(y, x)
  <2>1. Before(y, l) \/ ~Before(y, x)
    BY DEF Target
  <2>2. Before(y, l) => Before(y, m)
    BY <1>0, Written, BeforeAfter
  <2> QED BY <2>1, <2>2
<1>2. CASE e = 0
  <2>1. m.cyl = l.cyl /\ m.track = l.track
    BY <1>2, FurtherPlaces, BehindPlace
  <2>2. x \in {Place(l.cyl, l.track + 1, 1), Place(l.cyl + 1, 0, 1)}
    BY <1>0, <1>2 DEF Target
  <2> HIDE DEF m
  <2>3. Target(v, m, 1, x)
    BY <1>0, <1>1, <2>1, <2>2 DEF Target
  <2> QED BY <1>2, <2>3 DEF m
<1>3. CASE e = 1
  <2>1. m = Place(l.cyl, l.track + 1, 1) /\ m.cyl = l.cyl
    BY <1>3, FurtherPlaces, PlaceFields
  <2>2. x \in {m, Place(m.cyl + 1, 0, 1)}
    BY <1>3, <2>1 DEF Target
  <2> HIDE DEF m
  <2>3. Target(v, m, 2, x)
    BY <1>0, <1>1, <2>2 DEF Target
  <2> QED BY <1>3, <2>3 DEF m
<1>4. CASE e = 2
  <2>1. m = Place(l.cyl + 1, 0, 1)
    BY <1>4, FurtherPlaces
  <2>2. x = m
    BY <1>0, <1>4, <2>1 DEF Target
  <2> HIDE DEF m
  <2>3. Target(v, m, 3, x)
    BY <1>0, <1>1, <2>2 DEF Target
  <2> QED BY <1>4, <2>3 DEF m
<1> QED BY <1>2, <1>3, <1>4

-----------------------------------------------------------------------------
(* The invariant of a volume that is read without faults.                  *)

From(v) == v[VtocPlace].chain

\* The labels of the chain, by their places.
ChainPlaces(v) ==
    {p \in DOMAIN v :
        /\ p = From(v) \/ Before(From(v), p)
        /\ v[p].kind = "dscb"
        /\ \A q \in DOMAIN v : (q = From(v) \/ Before(From(v), q)) /\ Before(q, p) => v[q].kind # "end"}

ChainUpto(v, l) == {p \in ChainPlaces(v) : Before(p, l)}

\* The labels in ns are those at S, in their order.
LabelsOf(v, ns, S) ==
    \E s : /\ Enumerates(s, Len(ns), S)
           /\ \A k \in 1 .. Len(ns) : ns[k] = v[s[k]]

Chained(v, l, e, ns) ==
    /\ l = From(v) \/ Before(From(v), l)
    /\ \A q \in DOMAIN v : v[q].kind = "end" => Before(q, From(v)) \/ ~Before(q, l)
    /\ LabelsOf(v, ns, ChainUpto(v, l))
    /\ \E x : Target(v, l, e, x) /\ v[x].kind \in {"dscb", "end"}

OfDataset(v, d, b) == \A k \in DOMAIN b : b[k].at \in DataOf(v, d.of)

OnTarget(v, d, l, e, b) ==
    /\ OfDataset(v, d, b)
    /\ \E x : Target(v, l, e, x) /\ v[x].kind = "data" /\ v[x].of = d.of

ReadAll(v, d, b) ==
    /\ OfDataset(v, d, b)
    /\ \A p \in DataOf(v, d.of) : \E k \in DOMAIN b : b[k].at = p

WholeInv ==
    faults = 0 =>
        /\ result # "unavailable" /\ reading # "astray"
        /\ reading = "label" => loc = VtocPlace /\ errcnt = 0 /\ nodes = <<>>
        /\ reading = "chain" => Chained(volume, loc, errcnt, nodes)
        /\ reading \in {"data", "idle"} => LabelsOf(volume, nodes, ChainPlaces(volume))
        /\ reading = "data" => OnTarget(volume, ds, loc, errcnt, buf)
        /\ result = "read" => ReadAll(volume, ds, buf)

LEMMA Vtoc ==
    ASSUME NEW v \in Volumes
    PROVE  /\ VtocPlace \in DOMAIN v /\ v[VtocPlace].kind = "vtoc"
           /\ ChainedFrom(v, From(v)) /\ From(v) \in DOMAIN v /\ From(v) \in Places
           /\ v[From(v)].kind \in {"dscb", "end"}
BY Written DEF WrittenVolume, ChainedFrom, From

LEMMA ChainPlacesIn ==
    ASSUME NEW v \in Volumes
    PROVE  ChainPlaces(v) \subseteq DOMAIN v /\ ChainPlaces(v) \subseteq Places
BY Written DEF ChainPlaces

\* One place more is enumerated.
LEMMA EnumeratesOneMore ==
    ASSUME NEW s, NEW n, NEW S, Enumerates(s, n, S), NEW p \in Places,
           \A q \in S : Before(q, p)
    PROVE  /\ Enumerates([k \in 1 .. n + 1 |-> IF k = n + 1 THEN p ELSE s[k]], n + 1, S \cup {p})
<1> DEFINE t == [k \in 1 .. n + 1 |-> IF k = n + 1 THEN p ELSE s[k]]
<1>0. n \in Nat /\ s \in [1 .. n -> S] /\ S \subseteq Places
  BY DEF Enumerates
<1>1. /\ t[n + 1] = p /\ n + 1 \in 1 .. n + 1
      /\ \A k \in 1 .. n : t[k] = s[k] /\ k \in 1 .. n + 1
      /\ \A k \in 1 .. n + 1 : k = n + 1 \/ (k \in 1 .. n /\ k < n + 1)
  BY <1>0
<1>2. t \in [1 .. n + 1 -> S \cup {p}]
  BY <1>0
<1> HIDE DEF t
<1>3. \A x \in S \cup {p} : \E k \in 1 .. n + 1 : t[k] = x
  BY <1>1 DEF Enumerates
<1>4. ASSUME NEW i \in 1 .. n + 1, NEW j \in 1 .. n + 1, i < j
      PROVE  Before(t[i], t[j])
  <2>1. i \in 1 .. n
    BY <1>0, <1>4
  <2>2. CASE j = n + 1
    <3>1. t[i] = s[i] /\ s[i] \in S
      BY <1>0, <1>1, <2>1
    <3> QED BY <1>1, <2>2, <3>1
  <2>3. CASE j \in 1 .. n
    BY <1>1, <1>4, <2>1, <2>3 DEF Enumerates
  <2> QED BY <1>1, <2>2, <2>3
<1>5. S \cup {p} \subseteq Places /\ n + 1 \in Nat
  BY <1>0
<1>6. \A i, j \in 1 .. n + 1 : i < j => Before(t[i], t[j])
  BY <1>4
<1>7. Enumerates(t, n + 1, S \cup {p})
  BY <1>2, <1>3, <1>5, <1>6, Zenon DEF Enumerates
<1> QED BY <1>7 DEF t

LEMMA OneLabelMore ==
    ASSUME NEW v \in Volumes, NEW ns \in Seq(Labels(v)), NEW S, LabelsOf(v, ns, S),
           NEW p \in Places, v[p] \in Labels(v), \A q \in S : Before(q, p)
    PROVE  LabelsOf(v, Append(ns, v[p]), S \cup {p})
<1>1. PICK s : Enumerates(s, Len(ns), S) /\ \A k \in 1 .. Len(ns) : ns[k] = v[s[k]]
  BY DEF LabelsOf
<1>2. PICK n \in Nat : n = Len(ns)
  OBVIOUS
<1> DEFINE t == [k \in 1 .. n + 1 |-> IF k = n + 1 THEN p ELSE s[k]]
<1>3. Enumerates(t, n + 1, S \cup {p})
  BY <1>1, <1>2, EnumeratesOneMore
<1>4. Len(Append(ns, v[p])) = n + 1 /\ Append(ns, v[p])[n + 1] = v[p]
      /\ \A k \in 1 .. n : Append(ns, v[p])[k] = ns[k]
  BY <1>2
<1>5. ASSUME NEW k \in 1 .. n + 1
      PROVE  Append(ns, v[p])[k] = v[t[k]]
  <2>1. CASE k = n + 1
    BY <1>4, <2>1
  <2>2. CASE k # n + 1
    <3>1. k \in 1 .. n /\ t[k] = s[k]
      BY <1>2, <2>2
    <3> QED BY <1>1, <1>2, <1>4, <3>1
  <2> QED BY <2>1, <2>2
<1> HIDE DEF t
<1> QED BY <1>3, <1>4, <1>5 DEF LabelsOf

LEMMA InitWhole == MountInit => WholeInv
<1> SUFFICES ASSUME MountInit PROVE WholeInv
  OBVIOUS
<1>1. reading = "label" /\ result = "none" /\ loc = VtocPlace /\ errcnt = 0 /\ nodes = <<>>
  BY DEF MountInit
<1> QED BY <1>1 DEF WholeInv

\* What is in front of the target and not in front of l is nothing.
LEMMA ChainUptoStays ==
    ASSUME NEW v \in Volumes, NEW l \in Places, NEW m \in Places, NEW e, NEW x, Target(v, l, e, x),
           Before(l, m), x \in Places, m = x \/ Before(m, x)
    PROVE  /\ ChainUpto(v, m) = ChainUpto(v, l)
           /\ \A q \in DOMAIN v : Before(q, m) => Before(q, l)
<1>1. ASSUME NEW q \in DOMAIN v, Before(q, m)
      PROVE  Before(q, l)
  <2>1. q \in Places
    BY Written
  <2>2. Before(q, x)
    BY <1>1, <2>1, BeforeAfter
  <2> QED BY <2>2 DEF Target
<1>2. ASSUME NEW q \in DOMAIN v, Before(q, l)
      PROVE  Before(q, m)
  BY <1>2, Written, BeforeAfter
<1> QED BY <1>1, <1>2, ChainPlacesIn DEF ChainUpto

LEMMA MissWhole ==
    ASSUME VolumeInv, WholeInv, Miss
    PROVE  WholeInv'
<1> SUFFICES ASSUME faults' = 0
             PROVE  WholeInv'
  BY DEF WholeInv
<1>1. /\ volume' = volume /\ nodes' = nodes /\ ds' = ds /\ buf' = buf
      /\ reading \in {"label", "chain", "data"} /\ result = "none"
      /\ volume \in Volumes /\ loc \in Places /\ errcnt \in 0 .. 3 /\ faults \in Nat
  BY DEF Miss, VolumeInv, VolumeTypes, Reading
<1>2. loc \notin DOMAIN volume /\ faults = 0
  BY <1>1 DEF Miss
<1>3. reading # "label"
  BY <1>1, <1>2, Vtoc DEF WholeInv
<1>4. PICK x : Target(volume, loc, errcnt, x)
               /\ (reading = "chain" => volume[x].kind \in {"dscb", "end"})
               /\ (reading = "data" => volume[x].kind = "data" /\ volume[x].of = ds.of)
  BY <1>1, <1>2, <1>3 DEF WholeInv, Chained, OnTarget
<1>5. errcnt # 3 /\ x \in Places
  BY <1>1, <1>2, <1>4, TargetAhead
<1>6. errcnt \in 0 .. 2 /\ errcnt + 1 < 4 /\ errcnt + 1 \in 1 .. 3
  BY <1>1, <1>5
<1>7. /\ errcnt' = errcnt + 1 /\ loc' = Further(loc, errcnt + 1)
      /\ reading' = reading /\ result' = result
  BY <1>6 DEF Miss
<1>8. Target(volume, loc', errcnt', x)
  BY <1>1, <1>2, <1>4, <1>6, <1>7, TargetStays
<1>9. loc' \in Places /\ Before(loc, loc') /\ errcnt' \in 0 .. 3
  BY <1>1, <1>6, <1>7, FurtherPlaces
<1>10. x = loc' \/ Before(loc', x)
  BY <1>1, <1>8, <1>9, TargetAhead
<1>11. ASSUME reading' = "chain" PROVE Chained(volume, loc', errcnt', nodes)
  <2>1. Chained(volume, loc, errcnt, nodes)
    BY <1>2, <1>7, <1>11 DEF WholeInv
  <2>2. /\ ChainUpto(volume, loc') = ChainUpto(volume, loc)
        /\ \A q \in DOMAIN volume : Before(q, loc') => Before(q, loc)
    BY <1>1, <1>4, <1>5, <1>9, <1>10, ChainUptoStays
  <2>3. loc' = From(volume) \/ Before(From(volume), loc')
    BY <1>1, <1>9, <2>1, Vtoc, BeforeAfter DEF Chained
  <2>4. volume[x].kind \in {"dscb", "end"}
    BY <1>4, <1>7, <1>11
  <2> QED BY <1>8, <2>1, <2>2, <2>3, <2>4 DEF Chained
<1>12. ASSUME reading' = "data" PROVE OnTarget(volume, ds, loc', errcnt', buf)
  <2>1. OnTarget(volume, ds, loc, errcnt, buf)
    BY <1>2, <1>7, <1>12 DEF WholeInv
  <2>2. volume[x].kind = "data" /\ volume[x].of = ds.of
    BY <1>4, <1>7, <1>12
  <2> QED BY <1>8, <2>1, <2>2 DEF OnTarget
<1>13. reading' \in {"data", "idle"} => LabelsOf(volume, nodes, ChainPlaces(volume))
  BY <1>2, <1>7 DEF WholeInv
<1> QED BY <1>1, <1>3, <1>7, <1>11, <1>12, <1>13 DEF WholeInv

LEMMA LabelWhole ==
    ASSUME VolumeInv, WholeInv, Label
    PROVE  WholeInv'
<1> SUFFICES ASSUME faults' = 0
             PROVE  WholeInv'
  BY DEF WholeInv
<1>1. /\ reading = "label" /\ volume \in Volumes /\ faults = 0 /\ volume' = volume
      /\ nodes' = nodes /\ ds' = ds /\ buf' = buf /\ result' = result /\ result = "none"
      /\ loc = VtocPlace /\ nodes = <<>>
  BY DEF Label, Hit, VolumeInv, VolumeTypes, WholeInv
<1>2. reading' = "chain" /\ loc' = From(volume) /\ errcnt' = 0
  BY <1>1, Vtoc DEF Label, Look, From
<1>3. From(volume) \in DOMAIN volume /\ From(volume) \in Places
      /\ volume[From(volume)].kind \in {"dscb", "end"}
  BY <1>1, Vtoc
<1>4. Target(volume, loc', 0, From(volume))
  BY <1>1, <1>2, <1>3 DEF Target
<1>5. ChainUpto(volume, loc') = {}
  <2> SUFFICES ASSUME NEW p \in ChainUpto(volume, loc') PROVE FALSE
    OBVIOUS
  <2>1. p \in Places /\ Before(p, From(volume)) /\ (p = From(volume) \/ Before(From(volume), p))
    BY <1>1, <1>2, ChainPlacesIn DEF ChainUpto, ChainPlaces
  <2> QED BY <1>3, <2>1, BeforeAfter
<1>6. LabelsOf(volume, nodes, {})
  <2>1. Enumerates(<<>>, Len(nodes), {}) /\ Len(nodes) = 0
    BY <1>1 DEF Enumerates
  <2> QED BY <2>1 DEF LabelsOf
<1>7. Chained(volume, loc', errcnt', nodes)
  <2>1. \A q \in DOMAIN volume : Before(q, From(volume)) \/ ~Before(q, loc')
    BY <1>2
  <2> QED BY <1>2, <1>3, <1>4, <1>5, <1>6, <2>1 DEF Chained
<1> QED BY <1>1, <1>2, <1>7 DEF WholeInv

LEMMA ChainWhole ==
    ASSUME VolumeInv, WholeInv, Chain
    PROVE  WholeInv'
<1> SUFFICES ASSUME faults' = 0
             PROVE  WholeInv'
  BY DEF WholeInv
<1>1. /\ reading = "chain" /\ loc \in DOMAIN volume /\ volume \in Volumes /\ last' = Behind(loc)
      /\ volume' = volume /\ faults = 0 /\ ds' = ds /\ buf' = buf /\ errcnt \in 0 .. 3
      /\ result' = result /\ result = "none" /\ loc \in Places /\ nodes \in Seq(Labels(volume))
      /\ Chained(volume, loc, errcnt, nodes)
  BY DEF Chain, Hit, VolumeInv, VolumeTypes, WholeInv
<1>2. PICK x : Target(volume, loc, errcnt, x) /\ volume[x].kind \in {"dscb", "end"}
  BY <1>1 DEF Chained
<1>3. x = loc
  BY <1>1, <1>2, TargetAhead
<1>4. /\ loc = From(volume) \/ Before(From(volume), loc)
      /\ \A q \in DOMAIN volume : volume[q].kind = "end" => Before(q, From(volume)) \/ ~Before(q, loc)
      /\ LabelsOf(volume, nodes, ChainUpto(volume, loc))
      /\ From(volume) \in Places
  BY <1>1, Vtoc DEF Chained
<1>5. CASE volume[loc].kind = "dscb"
  <2>1. /\ reading' = "chain" /\ loc' = Behind(loc) /\ errcnt' = 0
        /\ nodes' = Append(nodes, volume[loc])
    BY <1>1, <1>5 DEF Chain, Look
  <2>2. Behind(loc) \in Places /\ Before(From(volume), Behind(loc))
    BY <1>1, <1>4, BehindPlace, BeforeAfter
  <2>3. ASSUME NEW q \in DOMAIN volume, volume[q].kind = "end"
        PROVE  Before(q, From(volume)) \/ ~Before(q, Behind(loc))
    <3>1. q \in Places /\ q # loc
      BY <1>1, <1>5, <2>3, Written
    <3> QED BY <1>1, <1>4, <2>3, <3>1, BeforeAfter
  <2>4. loc \in ChainPlaces(volume)
    <3>1. ASSUME NEW q \in DOMAIN volume, q = From(volume) \/ Before(From(volume), q), Before(q, loc)
          PROVE  volume[q].kind # "end"
      <4>1. q \in Places /\ ~Before(q, From(volume))
        BY <1>1, <1>4, <3>1, Written, BeforeAfter
      <4> QED BY <1>4, <3>1, <4>1
    <3> QED BY <1>1, <1>4, <1>5, <3>1 DEF ChainPlaces
  <2>5. ChainUpto(volume, Behind(loc)) = ChainUpto(volume, loc) \cup {loc}
    <3>1. ASSUME NEW p \in ChainPlaces(volume)
          PROVE  Before(p, Behind(loc)) <=> Before(p, loc) \/ p = loc
      BY <1>1, ChainPlacesIn, BeforeAfter
    <3> QED BY <2>4, <3>1 DEF ChainUpto
  <2>6. volume[loc] \in Labels(volume) /\ \A q \in ChainUpto(volume, loc) : Before(q, loc)
    BY <1>1, <1>5 DEF Labels, ChainUpto
  <2>7. LabelsOf(volume, nodes', ChainUpto(volume, loc'))
    <3>1. LabelsOf(volume, Append(nodes, volume[loc]), ChainUpto(volume, loc) \cup {loc})
      BY <1>1, <1>4, <2>6, OneLabelMore
    <3> QED BY <2>1, <2>5, <3>1
  <2>8. PICK q \in DOMAIN volume : NextTo(volume, loc, q) /\ volume[q].kind \in {"dscb", "end"}
    BY <1>1, <1>5, Vtoc DEF ChainedFrom
  <2>9. Target(volume, Behind(loc), 0, q)
    BY <1>1, <2>8, TargetBehind
  <2>10. Chained(volume, loc', errcnt', nodes')
    BY <2>1, <2>2, <2>3, <2>7, <2>8, <2>9 DEF Chained
  <2> QED BY <1>1, <2>1, <2>10 DEF WholeInv
<1>6. CASE volume[loc].kind = "end"
  <2>1. reading' = "idle" /\ nodes' = nodes
    BY <1>1, <1>6 DEF Chain, Look, Idle
  <2>2. ChainUpto(volume, loc) = ChainPlaces(volume)
    <3> SUFFICES ASSUME NEW p \in ChainPlaces(volume) PROVE Before(p, loc)
      BY DEF ChainUpto
    <3>1. p \in Places /\ p # loc /\ (Before(loc, p) => volume[loc].kind # "end")
      BY <1>1, <1>4, <1>6, ChainPlacesIn DEF ChainPlaces
    <3> QED BY <1>1, <1>6, <3>1, BeforeAfter
  <2> QED BY <1>1, <1>4, <2>1, <2>2 DEF WholeInv
<1> QED BY <1>2, <1>3, <1>5, <1>6

LEMMA ReadDatasetWhole ==
    ASSUME VolumeInv, WholeInv, ReadDataset
    PROVE  WholeInv'
<1> SUFFICES ASSUME faults' = 0
             PROVE  WholeInv'
  BY DEF WholeInv
<1>1. /\ volume' = volume /\ nodes' = nodes /\ faults = 0 /\ buf' = <<>> /\ result' = "none"
      /\ volume \in Volumes /\ nodes \in Seq(Labels(volume)) /\ reading = "idle"
      /\ LabelsOf(volume, nodes, ChainPlaces(volume))
  BY DEF ReadDataset, VolumeInv, VolumeTypes, WholeInv
<1>2. PICK k \in DOMAIN nodes :
        /\ ds' = nodes[k]
        /\ Look("data", Place(nodes[k].start.cyl, nodes[k].start.track, 1))
  BY DEF ReadDataset
<1>3. ds' \in Labels(volume)
  BY <1>1, <1>2
<1>4. reading' = "data" /\ loc' = FirstPlace(ds') /\ errcnt' = 0
  BY <1>2 DEF Look, FirstPlace
<1>5. LaidOut(volume, ds')
  BY <1>1, <1>3, LabelLaidOut
<1>6. Target(volume, loc', 0, loc') /\ volume[loc'].kind = "data" /\ volume[loc'].of = ds'.of
  BY <1>4, <1>5 DEF Target, LaidOut
<1>7. DOMAIN buf' = {}
  BY <1>1
<1>8. OnTarget(volume, ds', loc', errcnt', buf')
  BY <1>4, <1>6, <1>7 DEF OnTarget, OfDataset
<1> QED BY <1>1, <1>4, <1>8 DEF WholeInv

LEMMA DataWhole ==
    ASSUME VolumeInv, WholeInv, Data
    PROVE  WholeInv'
<1> SUFFICES ASSUME faults' = 0
             PROVE  WholeInv'
  BY DEF WholeInv
<1>1. /\ reading = "data" /\ loc \in DOMAIN volume /\ volume \in Volumes /\ last' = Behind(loc)
      /\ volume' = volume /\ faults = 0 /\ ds' = ds /\ nodes' = nodes /\ errcnt \in 0 .. 3
      /\ loc \in Places /\ buf \in Seq(BufRecords(volume)) /\ Reading
      /\ OnTarget(volume, ds, loc, errcnt, buf)
      /\ LabelsOf(volume, nodes, ChainPlaces(volume))
  BY DEF Data, Hit, VolumeInv, VolumeTypes, WholeInv
<1>2. /\ ds \in Labels(volume) /\ result = "none" /\ ~Before(loc, FirstPlace(ds))
      /\ Unread(volume, ds, buf, loc) = {}
  BY <1>1 DEF Reading, Frontier
<1>3. LaidOut(volume, ds)
  BY <1>1, <1>2, LabelLaidOut
<1>4. volume[loc].kind = "data" /\ volume[loc].of = ds.of
  <2>1. PICK x : Target(volume, loc, errcnt, x) /\ volume[x].kind = "data" /\ volume[x].of = ds.of
    BY <1>1 DEF OnTarget
  <2>2. x = loc
    BY <1>1, <2>1, TargetAhead
  <2> QED BY <2>1, <2>2
<1>5. CASE volume[loc].size = 0
  <2>1. reading' = "idle" /\ result' = "read" /\ buf' = buf
    BY <1>5 DEF Data, Idle, Look
  <2>2. ASSUME NEW p \in DataOf(volume, ds.of)
        PROVE  \E k \in DOMAIN buf : buf[k].at = p
    <3>1. p # loc
      BY <1>5 DEF DataOf
    <3>2. Before(p, loc)
      BY <1>1, <1>2, <1>5, <3>1, AtEnd
    <3> QED BY <1>2, <3>2 DEF Unread
  <2>3. ReadAll(volume, ds, buf)
    BY <1>1, <2>2 DEF ReadAll, OnTarget
  <2> QED BY <1>1, <2>1, <2>3 DEF WholeInv
<1>6. CASE volume[loc].size # 0
  <2>1. loc \in DataOf(volume, ds.of)
    <3>1. volume[loc].size \in Nat
      BY <1>1, Written DEF WrittenVolume
    <3> QED BY <1>1, <1>4, <1>6, <3>1 DEF DataOf
  <2>2. ~PastEnd(Behind(loc), ds)
    <3>1. /\ loc.cyl < ds.end.cyl \/ (loc.cyl = ds.end.cyl /\ loc.track <= ds.end.track)
          /\ {ds.end.cyl, ds.end.track} \subseteq Nat
      BY <1>3, <2>1 DEF LaidOut
    <3>2. loc.cyl \in Nat /\ loc.track \in Nat /\ Behind(loc).cyl = loc.cyl /\ Behind(loc).track = loc.track
      BY <1>1, PlaceOf, BehindPlace
    <3> QED BY <3>1, <3>2 DEF PastEnd
  <2> DEFINE b2 == Append(buf, [at |-> loc, of |-> volume[loc].of])
  <2>3. /\ reading' = "data" /\ loc' = Behind(loc) /\ errcnt' = 0 /\ result' = result /\ buf' = b2
    BY <1>1, <1>6, <2>2 DEF Data, Look
  <2>4. OfDataset(volume, ds, b2)
    <3>1. /\ \A k \in DOMAIN buf : b2[k] = buf[k]
          /\ b2[Len(buf) + 1].at = loc
          /\ \A k \in DOMAIN b2 : k \in DOMAIN buf \/ k = Len(buf) + 1
      BY <1>1, AppendedRecord
    <3> HIDE DEF b2
    <3> QED BY <1>1, <2>1, <3>1 DEF OfDataset, OnTarget
  <2>5. PICK q \in DOMAIN volume :
          NextTo(volume, loc, q) /\ volume[q].kind = "data" /\ volume[q].of = ds.of
    BY <1>3, <2>1 DEF LaidOut
  <2>6. Target(volume, Behind(loc), 0, q)
    BY <1>1, <2>5, TargetBehind
  <2> HIDE DEF b2
  <2>7. OnTarget(volume, ds, loc', errcnt', b2)
    BY <2>3, <2>4, <2>5, <2>6 DEF OnTarget
  <2> QED BY <1>1, <1>2, <2>3, <2>7 DEF WholeInv
<1> QED BY <1>5, <1>6

LEMMA WholeStep == VolumeInv /\ WholeInv /\ [VolumeNext]_volumeVars => WholeInv'
<1> SUFFICES ASSUME VolumeInv, WholeInv, [VolumeNext]_volumeVars PROVE WholeInv'
  OBVIOUS
<1>1. ASSUME UNCHANGED volumeVars PROVE WholeInv'
  BY <1>1 DEF volumeVars, WholeInv
<1>2. CASE VolumeNext
  BY <1>2, MissWhole, LabelWhole, ChainWhole, ReadDatasetWhole, DataWhole DEF VolumeNext
<1> QED BY <1>1, <1>2

LEMMA EverythingRead == VolumeInv /\ WholeInv => ReadsWhatIsThere
<1> SUFFICES ASSUME VolumeInv, WholeInv, faults = 0 PROVE ReadsWhatIsThere
  BY DEF ReadsWhatIsThere
<1>0. volume \in Volumes /\ nodes \in Seq(Labels(volume)) /\ buf \in Seq(BufRecords(volume))
  BY DEF VolumeInv, VolumeTypes
<1>1. ASSUME reading \in {"data", "idle"} PROVE nodes = ChainLabels
  <2>1. LabelsOf(volume, nodes, ChainPlaces(volume))
    BY <1>1 DEF WholeInv
  <2>2. PICK s : /\ Enumerates(s, Len(nodes), ChainPlaces(volume))
                 /\ \A k \in 1 .. Len(nodes) : nodes[k] = volume[s[k]]
    BY <2>1 DEF LabelsOf
  <2>3. InOrder(ChainPlaces(volume)) = s /\ DOMAIN s = 1 .. Len(nodes)
    BY <2>2, InOrderIs
  <2>4. ChainLabels = [k \in 1 .. Len(nodes) |-> volume[s[k]]]
    BY <2>3 DEF ChainLabels, ChainPlaces, From
  <2>5. nodes = [k \in 1 .. Len(nodes) |-> nodes[k]]
    BY <1>0
  <2> QED BY <2>2, <2>4, <2>5
<1>2. ASSUME result = "read" PROVE BufPlaces = InOrder(Extent(ds.of))
  <2>1. ReadAll(volume, ds, buf)
    BY <1>2 DEF WholeInv
  <2>2. DOMAIN buf = 1 .. Len(buf) /\ Len(buf) \in Nat
    BY <1>0
  <2>3. BufPlaces \in [1 .. Len(buf) -> DataOf(volume, ds.of)]
    BY <2>1, <2>2 DEF ReadAll, OfDataset, BufPlaces
  <2>4. \A p \in DataOf(volume, ds.of) : \E k \in 1 .. Len(buf) : BufPlaces[k] = p
    BY <2>1, <2>2 DEF ReadAll, BufPlaces
  <2>5. \A i, j \in 1 .. Len(buf) : i < j => Before(BufPlaces[i], BufPlaces[j])
    BY <2>2 DEF VolumeInv, Ordered, BufPlaces
  <2>6. DataOf(volume, ds.of) \subseteq Places
    BY <1>0, DataPlaces
  <2>7. Enumerates(BufPlaces, Len(buf), DataOf(volume, ds.of))
    BY <2>2, <2>3, <2>4, <2>5, <2>6 DEF Enumerates
  <2> QED BY <2>7, InOrderIs DEF Extent
<1>3. result # "unavailable" /\ reading # "astray"
  BY DEF WholeInv
<1> QED BY <1>1, <1>2, <1>3 DEF ReadsWhatIsThere

LEMMA VolumeAlways == VolumeSpec => [](VolumeInv /\ WholeInv)
<1>1. MountInit => VolumeInv /\ WholeInv
  BY InitVolume, InitWhole
<1>2. VolumeInv /\ WholeInv /\ [VolumeNext]_volumeVars => (VolumeInv /\ WholeInv)'
  BY VolumeStep, WholeStep
<1> QED BY <1>1, <1>2, PTL DEF VolumeSpec

\* zdsfs::init, read_file and the driver's read_disk: reads of places without a
\* record, of which the driver makes up to three to find the next record, neither
\* lose nor repeat nor mix anything.  Without faults the mount has the labels of
\* the chain, in their order, and what read_file returns is the dataset: all its
\* records, only they, in their order; no record is taken for a label and no
\* dataset found unavailable.
THEOREM VolumeIsRead == VolumeSpec => []ReadsWhatIsThere
<1>1. VolumeInv /\ WholeInv => ReadsWhatIsThere
  BY EverythingRead
<1> QED BY <1>1, VolumeAlways, PTL

\* read_disk takes any failure for the end of a track or of a cylinder.  However
\* many there are, read_file never returns a record twice or out of order; and
\* with one, wherever in the mount or the reads it comes, what is missing from
\* what is returned as read is of one cylinder.
THEOREM FaultCostsCylinder == VolumeSpec => []OneFaultOneCylinder
<1>1. VolumeInv => OneFaultOneCylinder
  BY OneCylinderLost
<1> QED BY <1>1, VolumeAlways, PTL

-----------------------------------------------------------------------------
(* The loader's walk.                                                      *)

\* The places on the loader's way.
OnTheWay(p) ==
    /\ p \in Places /\ p.cyl < NumCylinders /\ p.track < TracksPerCylinder /\ p.rec < RecordsPerTrack
    /\ Number(p) > 0

\* Block j of disk_buffer is from the j-th place of the way, if it was read.
BlockOf(v, buffer, failed, j) ==
    \E p : /\ OnTheWay(p) /\ Number(p) = j
           /\ buffer[j] = IF p \in DOMAIN v /\ j \notin failed THEN p ELSE Blank

Blocks(v, buffer, failed) == \A j \in DOMAIN buffer : BlockOf(v, buffer, failed, j)

WalkInv ==
    /\ volume \in Volumes
    /\ diskBuffer \in Seq(Places \cup {Blank})
    /\ iplFaults \subseteq DOMAIN diskBuffer
    /\ Blocks(volume, diskBuffer, iplFaults)
    /\ at \in {"next_read", "disk_buffer"}
    /\ at = "next_read" => OnTheWay(Place(cc, hh, rr)) /\ Number(Place(cc, hh, rr)) = Len(diskBuffer) + 1
    /\ at = "disk_buffer" => Len(diskBuffer) = Walked

LEMMA NumberIs ==
    ASSUME NEW p \in Places
    PROVE  /\ Number(p) \in Int
           /\ \E E \in Nat, a \in Nat, b \in Int :
                 /\ E = RecordsPerTrack - 1 /\ a = p.cyl * TracksPerCylinder
                 /\ b = (a + p.track - 1) * E /\ Number(p) = b + p.rec
<1>1. p.cyl \in Nat /\ p.track \in Nat /\ p.rec \in Nat
  BY PlaceOf
<1>2. RecordsPerTrack - 1 \in Nat /\ p.cyl * TracksPerCylinder \in Nat
  BY <1>1, IplAssumption
<1>3. (p.cyl * TracksPerCylinder + p.track - 1) * (RecordsPerTrack - 1) \in Int
  BY <1>1, <1>2
<1> QED BY <1>1, <1>2, <1>3 DEF Number

\* The tracks of a later cylinder have greater numbers than those of an earlier one.
LEMMA LaterCylinder ==
    ASSUME NEW T \in Nat, NEW c \in Nat, NEW d \in Nat, NEW h \in Nat, c < d, h < T
    PROVE  c * T + h < d * T
<1>1. PICK e \in Nat : d = c + 1 + e
  <2>1. d - c - 1 \in Nat /\ d = c + 1 + (d - c - 1)
    OBVIOUS
  <2> QED BY <2>1
<1>2. d * T = c * T + T + e * T
  BY <1>1
<1>3. c * T \in Nat /\ e * T \in Nat
  BY <1>1
<1> QED BY <1>2, <1>3

LEMMA NumberInOrder ==
    ASSUME NEW p \in Places, NEW q \in Places, Before(p, q),
           p.track < TracksPerCylinder, p.rec < RecordsPerTrack
    PROVE  Number(p) < Number(q)
<1>1. /\ p.cyl \in Nat /\ p.track \in Nat /\ p.rec \in Nat
      /\ q.cyl \in Nat /\ q.track \in Nat /\ q.rec \in Nat /\ q.rec > 0
  BY PlaceOf
<1>2. PICK E \in Nat, a \in Nat, b \in Int :
        /\ E = RecordsPerTrack - 1 /\ a = p.cyl * TracksPerCylinder
        /\ b = (a + p.track - 1) * E /\ Number(p) = b + p.rec
  BY NumberIs
<1>3. PICK F \in Nat, a1 \in Nat, b1 \in Int :
        /\ F = RecordsPerTrack - 1 /\ a1 = q.cyl * TracksPerCylinder
        /\ b1 = (a1 + q.track - 1) * F /\ Number(q) = b1 + q.rec
  BY NumberIs
<1>4. F = E
  BY <1>2, <1>3
<1>5. CASE p.cyl = q.cyl /\ p.track = q.track
  <2>1. b1 = b /\ p.rec < q.rec
    BY <1>1, <1>2, <1>3, <1>4, <1>5 DEF Before
  <2> QED BY <1>1, <1>2, <1>3, <2>1
<1>6. CASE ~(p.cyl = q.cyl /\ p.track = q.track)
  <2>1. a + p.track < a1 + q.track
    <3>1. CASE p.cyl < q.cyl
      <4>1. TracksPerCylinder \in Nat
        BY IplAssumption
      <4>2. p.cyl * TracksPerCylinder + p.track < q.cyl * TracksPerCylinder
        BY <1>1, <3>1, <4>1, LaterCylinder
      <4>3. a + p.track < a1
        BY <1>2, <1>3, <4>2
      <4> QED BY <1>1, <4>3
    <3>2. CASE p.cyl = q.cyl /\ p.track < q.track
      BY <1>1, <1>2, <1>3, <3>2
    <3> QED BY <1>1, <1>6, <3>1, <3>2 DEF Before
  <2>2. PICK x \in Int, y \in Int : x = a + p.track - 1 /\ y = a1 + q.track - 1
    BY <1>1, <1>2, <1>3
  <2>3. x + 1 <= y
    BY <1>1, <1>2, <1>3, <2>1, <2>2
  <2>4. PICK z \in Nat : y = x + 1 + z
    <3>1. y - x - 1 \in Nat /\ y = x + 1 + (y - x - 1)
      BY <2>3
    <3> QED BY <3>1
  <2>5. b = x * E /\ b1 = y * E
    BY <1>2, <1>3, <1>4, <2>2
  <2>6. y * E = x * E + E + z * E
    BY <2>4
  <2>7. z * E \in Nat
    OBVIOUS
  <2>8. p.rec <= E
    BY <1>1, <1>2, IplAssumption
  <2> QED BY <1>1, <1>2, <1>3, <2>5, <2>6, <2>7, <2>8
<1> QED BY <1>5, <1>6

LEMMA NumberOneToOne ==
    ASSUME NEW p \in Places, NEW q \in Places, Number(p) = Number(q),
           p.track < TracksPerCylinder, p.rec < RecordsPerTrack,
           q.track < TracksPerCylinder, q.rec < RecordsPerTrack
    PROVE  p = q
<1>1. Number(p) \in Int /\ Number(q) \in Int
  BY NumberIs
<1>2. ~Before(p, q)
  BY <1>1, NumberInOrder
<1>3. ~Before(q, p)
  BY <1>1, NumberInOrder
<1> QED BY <1>2, <1>3, BeforeAfter

\* The k-th record of the kernel is the k-th of the way.
LEMMA KernelIs ==
    ASSUME NEW v \in Volumes
    PROVE  LET kernel == InOrder(DataOf(v, KernelName))
           IN  \A k \in DOMAIN kernel :
                  /\ kernel[k] \in DOMAIN v /\ kernel[k] \in Places /\ Number(kernel[k]) = k
                  /\ kernel[k].track < TracksPerCylinder /\ kernel[k].rec < RecordsPerTrack
<1> DEFINE K == DataOf(v, KernelName)
           n == Cardinality(K)
           s == [k \in 1 .. n |-> CHOOSE p \in K : Number(p) = k]
<1>1. K \subseteq DOMAIN v /\ K \subseteq Places /\ n \in Nat
  BY DataPlaces, FS_CardinalityType
<1>2. /\ \A p \in K : p.track < TracksPerCylinder /\ p.rec < RecordsPerTrack
      /\ {Number(p) : p \in K} = 1 .. n
  BY IplAssumption DEF AtFront
<1> HIDE DEF K, n
<1>3. ASSUME NEW k \in 1 .. n
      PROVE  s[k] \in K /\ Number(s[k]) = k
  <2>1. \E p \in K : Number(p) = k
    BY <1>2
  <2> QED BY <2>1
<1>4. s \in [1 .. n -> K]
  BY <1>3
<1>5. ASSUME NEW p \in K
      PROVE  \E k \in 1 .. n : s[k] = p
  <2>1. Number(p) \in 1 .. n
    BY <1>2
  <2>2. s[Number(p)] \in K /\ Number(s[Number(p)]) = Number(p)
    BY <1>3, <2>1
  <2>3. s[Number(p)] = p
    BY <1>1, <1>2, <2>2, NumberOneToOne
  <2> QED BY <2>1, <2>3
<1>6. ASSUME NEW i \in 1 .. n, NEW j \in 1 .. n, i < j
      PROVE  Before(s[i], s[j])
  <2>1. /\ s[i] \in K /\ s[j] \in K /\ Number(s[i]) = i /\ Number(s[j]) = j
        /\ s[i] \in Places /\ s[j] \in Places
    BY <1>1, <1>3
  <2> HIDE DEF s
  <2>2. s[i] # s[j]
    BY <1>6, <2>1
  <2>3. ~Before(s[j], s[i])
    <3>1. Before(s[j], s[i]) => Number(s[j]) < Number(s[i])
      BY <1>2, <2>1, NumberInOrder
    <3> QED BY <1>6, <2>1, <3>1
  <2> QED BY <2>1, <2>2, <2>3, BeforeAfter
<1> HIDE DEF s
<1>7. Enumerates(s, n, K)
  BY <1>1, <1>4, <1>5, <1>6 DEF Enumerates
<1>8. InOrder(K) = s /\ DOMAIN s = 1 .. n
  BY <1>7, InOrderIs
<1> QED BY <1>1, <1>2, <1>3, <1>8 DEF K

\* ComparedWord is not the address, so %r3 stays the head, and the walk takes
\* every place of the way in its order.
LEMMA ReadBlockWalks ==
    ASSUME WalkInv, at = "next_read", NEW ok \in BOOLEAN, ReadBlock(ok)
    PROVE  /\ diskBuffer' = Append(diskBuffer, IF ok THEN Place(cc, hh, rr) ELSE Blank)
           /\ at' \in {"next_read", "disk_buffer"}
           /\ at' = "next_read" => /\ OnTheWay(Place(cc', hh', rr'))
                                   /\ Number(Place(cc', hh', rr')) = Len(diskBuffer') + 1
           /\ at' = "disk_buffer" => Len(diskBuffer') = Walked
<1> DEFINE p == Place(cc, hh, rr)
<1>1. /\ OnTheWay(p) /\ p \in Places /\ diskBuffer \in Seq(Places \cup {Blank})
      /\ p.cyl = cc /\ p.track = hh /\ p.rec = rr /\ Number(p) = Len(diskBuffer) + 1
      /\ cc < NumCylinders /\ hh < TracksPerCylinder /\ rr < RecordsPerTrack
  BY PlaceFields DEF WalkInv, OnTheWay
<1>2. cc \in Nat /\ hh \in Nat /\ rr \in Nat /\ rr > 0
  BY <1>1, PlaceOf
<1> HIDE DEF p
<1>3. PICK E, T, N, n \in Nat : /\ E = RecordsPerTrack - 1 /\ T = TracksPerCylinder /\ N = NumCylinders
                                /\ n = Len(diskBuffer) /\ E > 0 /\ T > 0
  <2>1. /\ RecordsPerTrack - 1 \in Nat /\ RecordsPerTrack - 1 > 0
        /\ TracksPerCylinder \in Nat /\ TracksPerCylinder > 0 /\ NumCylinders \in Nat
    BY IplAssumption
  <2>2. Len(diskBuffer) \in Nat
    BY <1>1
  <2> QED BY <2>1, <2>2
<1>a. RecordsPerTrack = E + 1
  BY <1>3, IplAssumption
<1>4. ((cc * T + hh) - 1) * E + rr = n + 1
  <2>1. Number(p) = (p.cyl * TracksPerCylinder + p.track - 1) * (RecordsPerTrack - 1) + p.rec
    BY DEF Number
  <2>2. p.cyl * TracksPerCylinder + p.track - 1 = (cc * T + hh) - 1
    BY <1>1, <1>2, <1>3
  <2> QED BY <1>1, <1>3, <2>1, <2>2
<1>5. diskBuffer' = Append(diskBuffer, IF ok THEN p ELSE Blank) /\ Len(diskBuffer') = n + 1
  BY <1>1, <1>3 DEF ReadBlock, p
<1>6. ASSUME NEW c \in Nat, NEW h \in Nat, NEW r \in Nat, r > 0, c < N, h < T, r < E + 1,
             ((c * T + h) - 1) * E + r = n + 2
      PROVE  OnTheWay(Place(c, h, r)) /\ Number(Place(c, h, r)) = Len(diskBuffer') + 1
  <2>1. /\ Place(c, h, r).cyl = c /\ Place(c, h, r).track = h /\ Place(c, h, r).rec = r
        /\ Place(c, h, r) \in Places
    BY <1>6, PlaceIn, PlaceFields
  <2>2. Number(Place(c, h, r)) = n + 2
    BY <1>3, <1>6, <2>1 DEF Number
  <2>3. r < RecordsPerTrack
    BY <1>6, <1>a
  <2>4. c < NumCylinders /\ h < TracksPerCylinder
    BY <1>3, <1>6
  <2>5. Number(Place(c, h, r)) > 0
    BY <1>3, <2>2
  <2>6. OnTheWay(Place(c, h, r))
    BY <2>1, <2>3, <2>4, <2>5 DEF OnTheWay
  <2>7. n + 2 = Len(diskBuffer') + 1
    BY <1>3, <1>5
  <2> QED BY <2>2, <2>6, <2>7
<1>7. ComparedWord(ok) # "rb_end_chain"
  BY DEF ComparedWord
<1>8. PICK a \in Nat, b \in Int : a = cc * T /\ b = ((a + hh) - 1) * E /\ b + rr = n + 1
  BY <1>2, <1>3, <1>4
<1>9. CASE rr + 1 # RecordsPerTrack
  <2>1. at' = at /\ cc' = cc /\ hh' = hh /\ rr' = rr + 1
    BY <1>7, <1>9 DEF ReadBlock
  <2>2. ((cc * T + hh) - 1) * E + (rr + 1) = n + 2
    BY <1>2, <1>8
  <2>3. rr + 1 \in Nat /\ rr + 1 > 0 /\ rr + 1 < E + 1
    BY <1>1, <1>2, <1>9, <1>a
  <2>4. OnTheWay(Place(cc, hh, rr + 1)) /\ Number(Place(cc, hh, rr + 1)) = Len(diskBuffer') + 1
    <3>1. cc < N /\ hh < T
      BY <1>1, <1>3
    <3> QED BY <1>2, <1>6, <2>2, <2>3, <3>1
  <2> QED BY <1>5, <2>1, <2>4 DEF p
<1>10. CASE rr + 1 = RecordsPerTrack /\ hh + 1 # TracksPerCylinder
  <2>1. at' = at /\ cc' = cc /\ hh' = hh + 1 /\ rr' = 1
    BY <1>7, <1>10 DEF ReadBlock
  <2>2. ((cc * T + (hh + 1)) - 1) * E + 1 = n + 2
    <3>1. rr = E
      BY <1>2, <1>3, <1>10
    <3>2. PICK x \in Int : x = (a + hh) - 1
      BY <1>2
    <3>3. b = x * E /\ (a + (hh + 1)) - 1 = x + 1
      BY <1>2, <1>8, <3>2
    <3>4. (x + 1) * E = x * E + E
      OBVIOUS
    <3>5. (x + 1) * E + 1 = n + 2
      BY <1>2, <1>8, <3>1, <3>3, <3>4
    <3> QED BY <1>8, <3>3, <3>5
  <2>3. hh + 1 \in Nat /\ hh + 1 < T /\ 1 < E + 1
    BY <1>1, <1>2, <1>3, <1>10
  <2>4. OnTheWay(Place(cc, hh + 1, 1)) /\ Number(Place(cc, hh + 1, 1)) = Len(diskBuffer') + 1
    <3>1. cc < N
      BY <1>1, <1>3
    <3> QED BY <1>2, <1>6, <2>2, <2>3, <3>1
  <2> QED BY <1>5, <2>1, <2>4 DEF p
<1>11. CASE rr + 1 = RecordsPerTrack /\ hh + 1 = TracksPerCylinder
  <2>1. /\ hh' = 0 /\ rr' = 1
        /\ IF cc + 1 # NumCylinders THEN cc' = cc + 1 /\ at' = at ELSE cc' = 0 /\ at' = "disk_buffer"
    BY <1>7, <1>11 DEF ReadBlock
  <2>2. rr = E /\ hh = T - 1
    BY <1>2, <1>3, <1>11
  <2>3. PICK x \in Int : x = (a + T) - 2
    BY <1>2
  <2>4. b = x * E /\ (x + 1) * E = x * E + E /\ (cc + 1) * T = a + T
    BY <1>2, <1>8, <2>2, <2>3
  <2>5. (x + 1) * E = n + 1
    BY <1>2, <1>8, <2>2, <2>4
  <2>6. CASE cc + 1 # NumCylinders
    <3>1. (((cc + 1) * T + 0) - 1) * E + 1 = n + 2
      <4>1. ((cc + 1) * T + 0) - 1 = x + 1
        BY <1>2, <2>3, <2>4
      <4> QED BY <2>5, <4>1
    <3>2. cc + 1 \in Nat /\ cc + 1 < N /\ 0 < T /\ 1 < E + 1
      BY <1>1, <1>2, <1>3, <2>6
    <3>3. OnTheWay(Place(cc + 1, 0, 1)) /\ Number(Place(cc + 1, 0, 1)) = Len(diskBuffer') + 1
      BY <1>6, <3>1, <3>2
    <3> QED BY <1>5, <2>1, <2>6, <3>3 DEF p
  <2>7. CASE cc + 1 = NumCylinders
    <3>1. Walked = E * (T * N - 1)
      BY <1>3 DEF Walked
    <3>2. N = cc + 1 /\ T * N = (cc + 1) * T
      BY <1>2, <1>3, <2>7
    <3>3. T * N - 1 = x + 1
      BY <1>2, <2>3, <2>4, <3>2
    <3>4. Walked = (x + 1) * E
      BY <3>1, <3>3
    <3> QED BY <1>5, <2>1, <2>5, <2>7, <3>4 DEF p
  <2> QED BY <2>6, <2>7
<1> QED BY <1>9, <1>10, <1>11

LEMMA FirstOnTheWay == OnTheWay(Place(0, 1, 1)) /\ Number(Place(0, 1, 1)) = 1
<1>1. Place(0, 1, 1).cyl = 0 /\ Place(0, 1, 1).track = 1 /\ Place(0, 1, 1).rec = 1
  BY PlaceFields
<1>2. Place(0, 1, 1) \in Places
  BY PlaceIn
<1>3. Number(Place(0, 1, 1)) = 1
  <2>1. Number(Place(0, 1, 1)) = (0 * TracksPerCylinder + 1 - 1) * (RecordsPerTrack - 1) + 1
    BY <1>1 DEF Number
  <2>2. 0 * TracksPerCylinder + 1 - 1 = 0
    BY IplAssumption
  <2>3. RecordsPerTrack - 1 \in Int
    BY IplAssumption
  <2> QED BY <2>1, <2>2, <2>3
<1> QED BY <1>1, <1>2, <1>3, IplAssumption DEF OnTheWay

LEMMA InitWalk == BootInit => WalkInv
<1> SUFFICES ASSUME BootInit PROVE WalkInv
  OBVIOUS
<1>1. /\ volume \in Volumes /\ diskBuffer = <<>> /\ iplFaults = {} /\ at = "next_read"
      /\ cc = 0 /\ hh = 1 /\ rr = 1
  BY DEF BootInit, MountInit, IplInit
<1>2. Blocks(volume, diskBuffer, iplFaults)
  BY <1>1 DEF Blocks
<1>3. OnTheWay(Place(cc, hh, rr)) /\ Number(Place(cc, hh, rr)) = 1
  BY <1>1, FirstOnTheWay
<1> QED BY <1>1, <1>2, <1>3 DEF WalkInv

\* A block read behind the others leaves them what they are.
LEMMA OneBlockMore ==
    ASSUME NEW v, NEW buffer \in Seq(Places \cup {Blank}), NEW failed, failed \subseteq DOMAIN buffer,
           Blocks(v, buffer, failed),
           NEW p, OnTheWay(p), Number(p) = Len(buffer) + 1,
           NEW x \in Places \cup {Blank}, NEW more \in SUBSET {Len(buffer) + 1},
           x = IF p \in DOMAIN v /\ more = {} THEN p ELSE Blank
    PROVE  /\ Append(buffer, x) \in Seq(Places \cup {Blank})
           /\ Blocks(v, Append(buffer, x), failed \cup more)
           /\ failed \cup more \subseteq DOMAIN Append(buffer, x)
<1>1. PICK n \in Nat : n = Len(buffer)
  OBVIOUS
<1> DEFINE b == Append(buffer, x)
           f == failed \cup more
<1>2. /\ b \in Seq(Places \cup {Blank}) /\ DOMAIN b = 1 .. n + 1 /\ DOMAIN buffer = 1 .. n
      /\ b[n + 1] = x /\ \A j \in 1 .. n : b[j] = buffer[j]
  BY <1>1
<1> HIDE DEF b
<1>3. failed \subseteq 1 .. n /\ (more = {} \/ more = {n + 1}) /\ n + 1 \notin 1 .. n
  <2>1. failed \subseteq 1 .. n
    BY <1>2
  <2>2. more = {} \/ more = {n + 1}
    <3>1. \A y \in more : y = n + 1
      BY <1>1
    <3> QED BY <3>1
  <2> QED BY <1>1, <2>1, <2>2
<1>4. \A j \in 1 .. n : j \in f <=> j \in failed
  BY <1>3
<1>5. n + 1 \in f <=> more # {}
  BY <1>3
<1>6. f \subseteq 1 .. n + 1
  <2>1. \A j \in 1 .. n : j \in 1 .. n + 1
    BY <1>1
  <2>2. n + 1 \in 1 .. n + 1
    BY <1>1
  <2> QED BY <1>3, <2>1, <2>2
<1> HIDE DEF f
<1>7. ASSUME NEW j \in 1 .. n
      PROVE  BlockOf(v, b, f, j)
  BY <1>2, <1>4 DEF Blocks, BlockOf
<1>8. BlockOf(v, b, f, n + 1)
  BY <1>1, <1>2, <1>5 DEF BlockOf
<1>9. Blocks(v, b, f)
  <2>1. \A j \in 1 .. n + 1 : j \in 1 .. n \/ j = n + 1
    BY <1>1
  <2> QED BY <1>2, <1>7, <1>8, <2>1 DEF Blocks
<1> QED BY <1>2, <1>6, <1>9 DEF b, f

LEMMA NextReadWalk ==
    ASSUME WalkInv, NextRead
    PROVE  WalkInv'
<1> DEFINE p == Place(cc, hh, rr)
<1>1. /\ at = "next_read" /\ volume' = volume /\ OnTheWay(p) /\ Number(p) = Len(diskBuffer) + 1
      /\ volume \in Volumes /\ p \in Places
      /\ diskBuffer \in Seq(Places \cup {Blank}) /\ iplFaults \subseteq DOMAIN diskBuffer
      /\ Blocks(volume, diskBuffer, iplFaults)
  BY DEF NextRead, volumeVars, WalkInv, OnTheWay
<1>2. PICK ok \in BOOLEAN, more \in SUBSET {Len(diskBuffer) + 1} :
        /\ ReadBlock(ok) /\ iplFaults' = iplFaults \cup more
        /\ ok <=> p \in DOMAIN volume /\ more = {}
  <2>1. CASE p \in DOMAIN volume /\ ReadBlock(TRUE) /\ UNCHANGED iplFaults
    <3>1. {} \in SUBSET {Len(diskBuffer) + 1} /\ iplFaults' = iplFaults \cup {}
      BY <2>1
    <3> QED BY <2>1, <3>1
  <2>2. CASE p \notin DOMAIN volume /\ ReadBlock(FALSE) /\ UNCHANGED iplFaults
    <3>1. {} \in SUBSET {Len(diskBuffer) + 1} /\ iplFaults' = iplFaults \cup {}
      BY <2>2
    <3> QED BY <2>2, <3>1
  <2>3. CASE /\ p \in DOMAIN volume /\ ReadBlock(FALSE)
             /\ iplFaults' = iplFaults \cup {Len(diskBuffer) + 1}
    <3>1. {Len(diskBuffer) + 1} \in SUBSET {Len(diskBuffer) + 1} /\ {Len(diskBuffer) + 1} # {}
      OBVIOUS
    <3> QED BY <2>3, <3>1
  <2> QED BY <2>1, <2>2, <2>3 DEF NextRead
<1> DEFINE x == IF ok THEN p ELSE Blank
<1>3. /\ diskBuffer' = Append(diskBuffer, x)
      /\ at' \in {"next_read", "disk_buffer"}
      /\ at' = "next_read" => /\ OnTheWay(Place(cc', hh', rr'))
                              /\ Number(Place(cc', hh', rr')) = Len(diskBuffer') + 1
      /\ at' = "disk_buffer" => Len(diskBuffer') = Walked
  BY <1>1, <1>2, ReadBlockWalks
<1>4. x \in Places \cup {Blank} /\ x = IF p \in DOMAIN volume /\ more = {} THEN p ELSE Blank
  BY <1>1, <1>2
<1> HIDE DEF p, x
<1>5. /\ Append(diskBuffer, x) \in Seq(Places \cup {Blank})
      /\ Blocks(volume, Append(diskBuffer, x), iplFaults \cup more)
      /\ iplFaults \cup more \subseteq DOMAIN Append(diskBuffer, x)
  BY <1>1, <1>2, <1>4, OneBlockMore
<1> QED BY <1>1, <1>2, <1>3, <1>5 DEF WalkInv

LEMMA WalkStep == WalkInv /\ [BootNext]_<<volumeVars, iplVars>> => WalkInv'
<1> SUFFICES ASSUME WalkInv, [BootNext]_<<volumeVars, iplVars>> PROVE WalkInv'
  OBVIOUS
<1>1. CASE NextRead
  BY <1>1, NextReadWalk
<1>2. ASSUME UNCHANGED iplVars, volume' = volume PROVE WalkInv'
  BY <1>2 DEF iplVars, WalkInv
<1>3. CASE KernelStep
  <2>1. volume' = volume
    BY <1>3 DEF KernelStep, VolumeNext, Miss, Label, Chain, ReadDataset, Data, Hit
  <2> QED BY <1>2, <1>3, <2>1 DEF KernelStep
<1>4. CASE UNCHANGED <<volumeVars, iplVars>>
  BY <1>2, <1>4 DEF volumeVars
<1> QED BY <1>1, <1>3, <1>4 DEF BootNext

LEMMA KernelBlocks == WalkInv => KernelInOrder
<1> SUFFICES ASSUME WalkInv PROVE KernelInOrder
  OBVIOUS
<1> DEFINE kernel == InOrder(DataOf(volume, KernelName))
<1>1. /\ volume \in Volumes /\ Blocks(volume, diskBuffer, iplFaults)
      /\ at = "disk_buffer" => Len(diskBuffer) = Walked
  BY DEF WalkInv
<1>2. ASSUME NEW k \in DOMAIN diskBuffer \cap DOMAIN kernel
      PROVE  diskBuffer[k] = IF k \in iplFaults THEN Blank ELSE kernel[k]
  <2>1. /\ kernel[k] \in DOMAIN volume /\ kernel[k] \in Places /\ Number(kernel[k]) = k
        /\ kernel[k].track < TracksPerCylinder /\ kernel[k].rec < RecordsPerTrack
    BY <1>1, <1>2, KernelIs
  <2>2. PICK p : /\ OnTheWay(p) /\ Number(p) = k
                 /\ diskBuffer[k] = IF p \in DOMAIN volume /\ k \notin iplFaults THEN p ELSE Blank
    BY <1>1, <1>2 DEF Blocks, BlockOf
  <2> HIDE DEF kernel
  <2>3. p = kernel[k]
    BY <2>1, <2>2, NumberOneToOne DEF OnTheWay
  <2> QED BY <2>1, <2>2, <2>3
<1> QED BY <1>1, <1>2 DEF KernelInOrder, Extent

\* ipl.S does not know where the kernel's dataset ends and looks at no error: it
\* takes 3 records of every track on its way.  Whatever fails, what it jumps to
\* has every block of the kernel at its place but those whose own read failed, for
\* every kernel on every volume that dir2dasd lays out.
THEOREM KernelIsRead == BootSpec => []KernelInOrder
<1>1. WalkInv => KernelInOrder
  BY KernelBlocks
<1> QED BY <1>1, InitWalk, WalkStep, PTL DEF BootSpec

\* The kernel that the loader has started reads the same volume: what it mounts
\* and reads is what it would be if the loader had never read.
THEOREM KernelReadsVolume == BootSpec => [](ReadsWhatIsThere /\ OneFaultOneCylinder)
<1>1. BootInit => VolumeInv /\ WholeInv
  BY InitVolume, InitWhole DEF BootInit
<1>2. VolumeInv /\ WholeInv /\ [BootNext]_<<volumeVars, iplVars>> => (VolumeInv /\ WholeInv)'
  <2> SUFFICES ASSUME VolumeInv, WholeInv, [BootNext]_<<volumeVars, iplVars>>
               PROVE  (VolumeInv /\ WholeInv)'
    OBVIOUS
  <2>1. [VolumeNext]_volumeVars
    BY DEF BootNext, NextRead, KernelStep
  <2> QED BY <2>1, VolumeStep, WholeStep
<1>3. VolumeInv /\ WholeInv => ReadsWhatIsThere /\ OneFaultOneCylinder
  BY EverythingRead, OneCylinderLost
<1> QED BY <1>1, <1>2, <1>3, PTL DEF BootSpec
=============================================================================
