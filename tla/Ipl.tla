--------------------------------- MODULE Ipl ---------------------------------
(***************************************************************************)
(* The IPL loader (ipl/ipl.S) and the system it starts.  The loader reads  *)
(* the kernel, which dir2dasd (tools/dir2dasd.cxx) has put at the front of *)
(* the volume, from track 1 on, with a walk over records, heads and        *)
(* cylinders whose lengths are built into it, and jumps to what it has     *)
(* read, whatever that is.  The kernel then mounts the same volume, which  *)
(* is Zdsfs.  A track is called a head here, as the loader does.           *)
(*                                                                         *)
(* Outside the model: CHECK_STATUS compares a byte of low storage with 3   *)
(* (cli \r,3 names an address); it is taken to differ.                     *)
(***************************************************************************)
EXTENDS Zdsfs

CONSTANTS
    RecordsPerTrack,    \* RECORDS_PER_TRACK, one more than are read of a track
    TracksPerCylinder,  \* TRACKS_PER_CYLINDER
    NumCylinders,       \* NUM_CYLINDERS
    KernelName,         \* the label of the kernel's dataset
    IrbAddress,         \* rb_irb
    MaxIplFaults        \* bound on the loader's reads that fail

\* The kernel's dataset begins on track 1 of the first cylinder, with as many
\* records on every track as the loader reads, up to its last one: its places are
\* the first ones of the loader's walk, of which place p is the Number(p)-th.
Number(p) == (p.cyl * TracksPerCylinder + p.track - 1) * (RecordsPerTrack - 1) + p.rec

AtFront(places) ==
    /\ \A p \in places : p.track < TracksPerCylinder /\ p.rec < RecordsPerTrack
    /\ {Number(p) : p \in places} = 1 .. Cardinality(places)

ASSUME IplAssumption ==
    /\ {RecordsPerTrack, TracksPerCylinder} \subseteq Nat \ {0, 1}
    /\ NumCylinders \in Nat \ {0}
    /\ MaxIplFaults \in Nat
    /\ \A v \in Volumes : AtFront(DataOf(v, KernelName))

VARIABLES
    at,          \* "next_read", "disk_buffer" once the kernel has control
    cc, hh, rr,  \* %r2, %r3, %r4: cylinder, head and record to be read next
    diskBuffer,  \* disk_buffer, by blocks of RECORD_LENGTH: where each is from
    iplFaults    \* history: the blocks whose read failed for no fault of the place

iplVars == <<at, cc, hh, rr, diskBuffer, iplFaults>>

\* What a block of disk_buffer is that no record was read into: there is no record 0.
Blank == Place(0, 0, 0)

IplInit ==
    /\ at = "next_read"
    /\ cc = 0 /\ hh = 1 /\ rr = 1
    /\ diskBuffer = <<>>
    /\ iplFaults = {}

\* Mutant of ComparedWord: the address the channel program ended at, as meant.
ComparedWordOfIrb(ok) == IF ok THEN "rb_end_chain" ELSE "elsewhere"

\* What clc compares with rb_end_chain: 4(%r3) is storage near 0, as %r3 is the head.
ComparedWord(ok) == "low storage"

\* read_block.  rb_end_success uses %r3 for the address of the IRB.
ReadBlock(ok) ==
    /\ diskBuffer' = Append(diskBuffer, IF ok THEN Place(cc, hh, rr) ELSE Blank)
    /\ LET head == IF ComparedWord(ok) = "rb_end_chain" THEN IrbAddress ELSE hh
       IN  \/ /\ rr + 1 # RecordsPerTrack
              /\ rr' = rr + 1 /\ hh' = head
              /\ UNCHANGED <<at, cc>>
           \/ /\ rr + 1 = RecordsPerTrack /\ head + 1 # TracksPerCylinder
              /\ rr' = 1 /\ hh' = head + 1
              /\ UNCHANGED <<at, cc>>
           \/ /\ rr + 1 = RecordsPerTrack /\ head + 1 = TracksPerCylinder
              /\ rr' = 1 /\ hh' = 0
              /\ IF cc + 1 # NumCylinders
                 THEN cc' = cc + 1 /\ UNCHANGED at
                 ELSE cc' = 0 /\ at' = "disk_buffer"

\* The next block: its place may have no record, and a read may fail otherwise.
NextRead ==
    /\ at = "next_read"
    /\ \/ /\ Place(cc, hh, rr) \in DOMAIN volume
          /\ ReadBlock(TRUE)
          /\ UNCHANGED iplFaults
       \/ /\ Place(cc, hh, rr) \notin DOMAIN volume
          /\ ReadBlock(FALSE)
          /\ UNCHANGED iplFaults
       \/ /\ Place(cc, hh, rr) \in DOMAIN volume
          /\ Cardinality(iplFaults) < MaxIplFaults
          /\ ReadBlock(FALSE)
          /\ iplFaults' = iplFaults \cup {Len(diskBuffer) + 1}
    /\ UNCHANGED volumeVars

BootInit == MountInit /\ IplInit

\* The kernel mounts the volume and reads of it.
KernelStep == at = "disk_buffer" /\ VolumeNext /\ UNCHANGED iplVars

BootNext == NextRead \/ KernelStep

BootSpec == BootInit /\ [][BootNext]_<<volumeVars, iplVars>>

-----------------------------------------------------------------------------
(* Properties.                                                             *)

\* How many blocks the loader has room for in its walk.
Walked == (RecordsPerTrack - 1) * (TracksPerCylinder * NumCylinders - 1)

\* Whatever has control has the kernel in disk_buffer, block after block as the
\* file system would read it, over the ends of tracks and cylinders, up to what
\* the loader reads at all; a read that failed costs the block it should have
\* read and moves no other.  Nothing checks this at run time: errors are ignored.
KernelInOrder ==
    LET kernel == InOrder(Extent(KernelName))
    IN  /\ \A k \in DOMAIN diskBuffer \cap DOMAIN kernel :
               diskBuffer[k] = IF k \in iplFaults THEN Blank ELSE kernel[k]
        /\ at = "disk_buffer" => Len(diskBuffer) = Walked
=============================================================================
