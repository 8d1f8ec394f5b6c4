------------------------------- MODULE MCBoot --------------------------------
(***************************************************************************)
(* How the system comes up, in two parts that share no state: the IPL      *)
(* loader and the volume it reads, and the programs the kernel then loads. *)
(* A behaviour is one of the part that `part' names; the other stays as it *)
(* began.                                                                  *)
(***************************************************************************)
EXTENDS Ipl, Loader

VARIABLE part

iplAllVars == <<volumeVars, iplVars>>
allVars == <<part, vars, iplAllVars>>

\* The volume, when a behaviour is not about it.
VolumeAsleep ==
    /\ volume = <<>> /\ reading = "idle" /\ loc = VtocPlace /\ errcnt = 0 /\ last = Blank
    /\ nodes = <<>> /\ ds = NoLabel /\ buf = <<>> /\ result = "none" /\ faults = 0

PartsInit ==
    /\ part \in {"volume", "programs"} /\ Init /\ IplInit
    /\ IF part = "volume" THEN MountInit ELSE VolumeAsleep
    \* The programs do not matter to the loader and the volume: one choice is enough.
    /\ part = "volume" => image = [BOOTMAIN |-> CHOOSE i \in BootImages : TRUE,
                                  SYSMAIN |-> CHOOSE i \in Images : TRUE]

PartsNext ==
    /\ UNCHANGED part
    /\ \/ part = "volume" /\ BootNext /\ UNCHANGED vars
       \/ part = "programs" /\ Next /\ UNCHANGED iplAllVars

PartsSpec == PartsInit /\ [][PartsNext]_allVars

-----------------------------------------------------------------------------
(* Programs.                                                               *)

Sect(type, addr, size) ==
    [type |-> type, addr |-> addr, size |-> size, align |-> PageSize,
     alloc |-> TRUE, inside |-> TRUE]

Image(sections, headers) ==
    [present |-> TRUE, valid |-> TRUE, headers |-> headers, entry |-> 48, sections |-> sections]

\* Code of one page and a byte, data that are not in the file, cleared data.
Program == Image(<<Sect("PROGBITS", 48, 3), [Sect("PROGBITS", 52, 2) EXCEPT !.inside = FALSE],
                   Sect("NOBITS", 54, 1), [Sect("RELA", 0, 4) EXCEPT !.alloc = FALSE]>>, 4)
Cut == Image(<<Sect("PROGBITS", 48, 1), Sect("NOBITS", 50, 1)>>, 1)
Text == [Image(<<>>, 0) EXCEPT !.valid = FALSE]
WithRel == Image(<<Sect("PROGBITS", 48, 1), [Sect("REL", 0, 1) EXCEPT !.alloc = FALSE]>>, 2)

Boots == {NoFile, Text, Program}
Commands == {Program, Cut, WithRel}
OnlyProgram == {Program}
Nothing == {NoFile}

-----------------------------------------------------------------------------
(* Volumes.                                                                *)

\* The records of one track, from record 1.
Track(cyl, track, recs) ==
    [p \in {Place(cyl, track, r) : r \in DOMAIN recs} |-> recs[p.rec]]

Vtoc(cyl, track) == [kind |-> "vtoc", of |-> Nobody, size |-> 1, chain |-> Place(cyl, track, 1)]
IplText == [kind |-> "data", of |-> Nobody, size |-> 1]
Some(d) == [kind |-> "data", of |-> d, size |-> 1]
None(d) == [kind |-> "data", of |-> d, size |-> 0]
Dscb(d, cyl, track, endCyl, endTrack) ==
    [kind |-> "dscb", of |-> d, size |-> 1, start |-> Place(cyl, track, 0),
     end |-> Place(endCyl, endTrack, 0)]

Front0(cyl, track) == Track(0, 0, <<IplText, IplText, Vtoc(cyl, track)>>)

\* The kernel lies over the end of a cylinder; A lies on three tracks of one
\* cylinder and one of the next, where B begins on the next track.
AcrossCylinders ==
    Front0(3, 0)
        @@ Track(0, 1, <<Some(KernelName), Some(KernelName)>>)
        @@ Track(1, 0, <<Some(KernelName), Some(KernelName)>>) @@ Track(1, 1, <<Some(KernelName), None(KernelName)>>)
        @@ Track(3, 0, <<Dscb(KernelName, 0, 1, 1, 1), Dscb("A", 4, 0, 5, 0)>>)
        @@ Track(3, 1, <<Dscb("B", 5, 1, 5, 1), NoLabel>>)
        @@ Track(4, 0, <<Some("A"), Some("A")>>) @@ Track(4, 1, <<Some("A")>>)
        @@ Track(4, 2, <<Some("A"), Some("A")>>)
        @@ Track(5, 0, <<Some("A"), Some("A"), None("A")>>) @@ Track(5, 1, <<Some("B"), None("B")>>)

\* The kernel is larger than the loader's walk; the chain goes on on the next
\* track; the end of A has a track of its own.
LargeKernel ==
    Front0(3, 0)
        @@ Track(0, 1, <<Some(KernelName), Some(KernelName)>>)
        @@ Track(1, 0, <<Some(KernelName), Some(KernelName)>>) @@ Track(1, 1, <<Some(KernelName), Some(KernelName)>>)
        @@ Track(2, 0, <<Some(KernelName), Some(KernelName)>>) @@ Track(2, 1, <<Some(KernelName), Some(KernelName)>>)
        @@ Track(2, 2, <<None(KernelName)>>)
        @@ Track(3, 0, <<Dscb("A", 4, 0, 4, 1)>>) @@ Track(3, 1, <<NoLabel>>)
        @@ Track(4, 0, <<Some("A"), Some("A"), Some("A")>>) @@ Track(4, 1, <<None("A")>>)

TwoVolumes == {AcrossCylinders, LargeKernel}
=============================================================================
