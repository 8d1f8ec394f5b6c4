-------------------------------- MODULE Zdsfs --------------------------------
(***************************************************************************)
(* Reading the volume: the DASD driver (kernel/s390/dasd.cxx), which looks *)
(* for a record where it is asked to and then further on, and ZDSFS        *)
(* (kernel/zdsfs.cxx), which mounts the volume by its chain of dataset     *)
(* labels and reads datasets record by record.  Neither knows how many     *)
(* records a track has: the end of a track is a read that fails.           *)
(*                                                                         *)
(* A volume is a function from places to records.  A record has the kind   *)
(* "vtoc", "dscb", "end" (a label with an empty name) or "data", the       *)
(* dataset it is of, and a size; the last record of a dataset is empty.    *)
(***************************************************************************)
EXTENDS Integers, Sequences, FiniteSets, SequencesExt

CONSTANTS
    Volumes,    \* the volumes there may be in the drive
    Nobody,     \* what is of no dataset
    MaxFaults   \* bound on the reads that fail although the record is there

-----------------------------------------------------------------------------
(* Volumes.                                                                *)

Place(cyl, track, rec) == [cyl |-> cyl, track |-> track, rec |-> rec]
Places == [cyl : Nat, track : Nat, rec : Nat \ {0}]

\* The VTOC is at 0:0:3.
VtocPlace == Place(0, 0, 3)

Before(p, q) ==
    \/ p.cyl < q.cyl
    \/ p.cyl = q.cyl /\ p.track < q.track
    \/ p.cyl = q.cyl /\ p.track = q.track /\ p.rec < q.rec

\* Mutant of Behind: reading goes on where it was.
BehindSame(p) == p

\* g_disk_loc after a read at p.
Behind(p) == [p EXCEPT !.rec = @ + 1]

\* The first place of a dataset, as its label says.
FirstPlace(d) == Place(d.start.cyl, d.start.track, 1)

\* The records of volume v that are of dataset d, but for the empty one.
DataOf(v, d) == {p \in DOMAIN v : v[p].kind = "data" /\ v[p].of = d /\ v[p].size > 0}

\* What is behind record p: the next one of the track, the first one of the
\* next track, or the first one of the next cylinder.
NextTo(v, p, q) ==
    /\ q \in DOMAIN v
    /\ q \in {Place(p.cyl, p.track, p.rec + 1), Place(p.cyl, p.track + 1, 1), Place(p.cyl + 1, 0, 1)}
    /\ \A x \in DOMAIN v : ~(Before(p, x) /\ Before(x, q))

\* A dataset has the tracks its label names.  Its records are numbered from 1 on
\* every track and lie behind one another, up to an empty one; tracks behind
\* that one may be without records.
LaidOut(v, d) ==
    /\ FirstPlace(d) \in DOMAIN v /\ {d.start.cyl, d.start.track, d.end.cyl, d.end.track} \subseteq Nat
    /\ v[FirstPlace(d)].kind = "data" /\ v[FirstPlace(d)].of = d.of
    /\ \A p \in DataOf(v, d.of) :
          /\ ~Before(p, FirstPlace(d))
          /\ p.cyl < d.end.cyl \/ (p.cyl = d.end.cyl /\ p.track <= d.end.track)
          /\ \A n \in 1 .. p.rec - 1 : Place(p.cyl, p.track, n) \in DOMAIN v
          /\ \A t \in 0 .. p.track - 1 :
                Before(Place(p.cyl, t, 1), FirstPlace(d)) \/ Place(p.cyl, t, 1) \in DOMAIN v
          /\ \A q \in DOMAIN v :
                v[q].size = 0 => Before(q, FirstPlace(d)) \/ Before(p, q)
          /\ \E q \in DOMAIN v : NextTo(v, p, q) /\ v[q].kind = "data" /\ v[q].of = d.of

\* The labels lie behind one another, from where the VTOC says to an empty one.
ChainedFrom(v, from) ==
    /\ from \in DOMAIN v /\ v[from].kind \in {"dscb", "end"}
    /\ \A p \in DOMAIN v :
          v[p].kind = "dscb" => \E q \in DOMAIN v : NextTo(v, p, q) /\ v[q].kind \in {"dscb", "end"}

\* What dir2dasd and the program that makes a volume of its list put on one.
WrittenVolume(v) ==
    /\ IsFiniteSet(DOMAIN v) /\ DOMAIN v \subseteq Places
    /\ \A p \in DOMAIN v : v[p].size \in Nat
    /\ VtocPlace \in DOMAIN v /\ v[VtocPlace].kind = "vtoc"
    /\ \A p \in DOMAIN v : v[p].kind = "vtoc" => ChainedFrom(v, v[p].chain)
    /\ \A p \in DOMAIN v : v[p].kind = "dscb" => LaidOut(v, v[p])

ASSUME ZdsfsAssumption == MaxFaults \in Nat /\ \A v \in Volumes : WrittenVolume(v)

-----------------------------------------------------------------------------
(* State.                                                                  *)

VARIABLES
    volume,  \* the volume in the drive
    reading, \* what is being read: "label", "chain", "data"; "idle"; "astray"
    loc,     \* read_disk: where the next attempt looks
    errcnt,  \* read_disk: attempts that have failed
    last,    \* g_disk_loc
    nodes,   \* the labels mounted, oldest first
    ds,      \* the label of the dataset being read
    buf,     \* the records read of it
    result,  \* what the last read_file has returned
    faults   \* history: reads that failed for no fault of the place

volumeVars == <<volume, reading, loc, errcnt, last, nodes, ds, buf, result, faults>>

NoLabel == [kind |-> "end", of |-> Nobody, size |-> 0]

MountInit ==
    /\ volume \in Volumes
    /\ reading = "label"
    /\ loc = VtocPlace
    /\ errcnt = 0
    /\ last = Place(0, 0, 0)
    /\ nodes = <<>>
    /\ ds = NoLabel
    /\ buf = <<>>
    /\ result = "none"
    /\ faults = 0

-----------------------------------------------------------------------------
(* The DASD driver.                                                        *)

\* Mutant of Further: the cylinder comes before the track.
FurtherCylinderFirst(p, n) ==
    CASE n = 1 -> [p EXCEPT !.rec = @ + 1]
      [] n = 2 -> Place(p.cyl + 1, 0, 1)
      [] OTHER -> Place(p.cyl, p.track + 1, 1)

\* Where read_disk looks after its n-th failure at p.
Further(p, n) ==
    CASE n = 1 -> [p EXCEPT !.rec = @ + 1]
      [] n = 2 -> Place(p.cyl, p.track + 1, 1)
      [] n = 3 -> Place(p.cyl + 1, 0, 1)
      [] OTHER -> p

\* read_disk starts to look at p, for what s names.
Look(s, p) == reading' = s /\ loc' = p /\ errcnt' = 0

Idle == Look("idle", loc)

\* The mount goes on with what it did not read, or with another record than a label: what
\* follows is not modelled.
Astray == Look("astray", loc)

\* read_single finds no such record, or the channel does not answer in time.
Miss ==
    /\ reading \in {"label", "chain", "data"}
    /\ IF loc \in DOMAIN volume
       THEN faults < MaxFaults /\ faults' = faults + 1
       ELSE UNCHANGED faults
    /\ IF errcnt + 1 < 4
       THEN /\ errcnt' = errcnt + 1
            /\ loc' = Further(loc, errcnt + 1)
            /\ UNCHANGED <<reading, result>>
       ELSE /\ IF reading = "label" THEN Astray ELSE Idle
            /\ result' = IF reading = "data" THEN "unavailable" ELSE result
    /\ UNCHANGED <<volume, last, nodes, ds, buf>>

\* read_single has read the record at loc, and read_disk returns.
Hit(s) ==
    /\ reading = s
    /\ loc \in DOMAIN volume
    /\ last' = Behind(loc)
    /\ UNCHANGED <<volume, faults>>

-----------------------------------------------------------------------------
(* ZDSFS.                                                                  *)

\* get_vtoc_chain_fdscb
Label ==
    /\ Hit("label")
    /\ IF volume[loc].kind = "vtoc" THEN Look("chain", volume[loc].chain) ELSE Astray
    /\ UNCHANGED <<nodes, ds, buf, result>>

\* next_dscb, and init, which registers what it has read.
Chain ==
    /\ Hit("chain")
    /\ \/ /\ volume[loc].kind = "dscb"
          /\ Look("chain", last')
          /\ nodes' = Append(nodes, volume[loc])
       \/ /\ volume[loc].kind = "end"
          /\ Idle
          /\ UNCHANGED nodes
       \/ /\ volume[loc].kind \notin {"dscb", "end"}
          /\ Astray
          /\ UNCHANGED nodes
    /\ UNCHANGED <<ds, buf, result>>

\* A read of a mounted dataset: from its start, whatever the handle has read.
ReadDataset ==
    /\ reading = "idle"
    /\ \E k \in DOMAIN nodes :
           /\ ds' = nodes[k]
           /\ Look("data", Place(nodes[k].start.cyl, nodes[k].start.track, 1))
    /\ buf' = <<>>
    /\ result' = "none"
    /\ UNCHANGED <<volume, last, nodes, faults>>

\* Mutant of PastEnd: the extent ends before its last track.
PastEndEarly(p, d) == p.track >= d.end.track /\ p.cyl >= d.end.cyl

\* read_file is behind the dataset's extent.
PastEnd(p, d) == p.track > d.end.track /\ p.cyl >= d.end.cyl

\* read_file: an empty record ends the dataset.
Data ==
    /\ Hit("data")
    /\ IF volume[loc].size = 0
       THEN Idle /\ result' = "read" /\ UNCHANGED buf
       ELSE /\ buf' = Append(buf, [at |-> loc, of |-> volume[loc].of])
            /\ IF PastEnd(last', ds)
               THEN Idle /\ result' = "read"
               ELSE Look("data", last') /\ UNCHANGED result
    /\ UNCHANGED <<nodes, ds>>

VolumeNext == Miss \/ Label \/ Chain \/ ReadDataset \/ Data

VolumeSpec == MountInit /\ [][VolumeNext]_volumeVars

-----------------------------------------------------------------------------
(* Properties.                                                             *)

\* The records of a set of places, in the order of the places.
InOrder(places) ==
    [k \in 1 .. Cardinality(places) |->
        CHOOSE p \in places : Cardinality({q \in places : Before(q, p)}) = k - 1]

\* The labels from the start of the chain to the first empty one.
ChainLabels ==
    LET from == volume[VtocPlace].chain
        at == {p \in DOMAIN volume :
                 /\ p = from \/ Before(from, p)
                 /\ volume[p].kind = "dscb"
                 /\ \A q \in DOMAIN volume :
                        (q = from \/ Before(from, q)) /\ Before(q, p) => volume[q].kind # "end"}
        places == InOrder(at)
    IN  [k \in DOMAIN places |-> volume[places[k]]]

Extent(d) == DataOf(volume, d)

BufPlaces == [k \in DOMAIN buf |-> buf[k].at]

\* Without faults the mount finds the datasets of the chain, and a read gets
\* the whole dataset and nothing else, in its order: the failures by which the
\* driver finds the ends of tracks and cylinders lose and repeat nothing.
ReadsWhatIsThere ==
    faults = 0 =>
        /\ reading \in {"data", "idle"} => nodes = ChainLabels
        /\ result = "read" => BufPlaces = InOrder(Extent(ds.of))
        /\ result # "unavailable" /\ reading # "astray"

\* A read that fails once for another reason than its place, the device being
\* late, passes for the end of a track, or of a cylinder when it is the third
\* failure in a row.  It costs no more than the rest of that cylinder, and
\* nothing is ever read twice or out of order.
OneFaultOneCylinder ==
    LET lost == Extent(ds.of) \ ToSet(BufPlaces)
    IN  /\ \A i, j \in DOMAIN buf : i < j => Before(buf[i].at, buf[j].at)
        /\ result = "read" /\ faults <= 1 => \A p, q \in lost : p.cyl = q.cyl
=============================================================================
