------------------------------- MODULE Files ---------------------------------
(***************************************************************************)
(* Streams of the C library (sys/libio: stdio.cxx, fcntl.cxx, unistd.cxx,  *)
(* crt1.cxx) over the virtual disk.  Each program has its own table of     *)
(* FILEs; a FILE holds what SVC VFS OPEN returned, an index into the list  *)
(* of handles all programs of the user share, and 0 stands for NULL.       *)
(*                                                                         *)
(* A supervisor call is one step: its handler is not preempted.  A call of *)
(* the library that makes several is as many steps, unless the first of    *)
(* them stops the system.                                                  *)
(***************************************************************************)
EXTENDS VirtualDisk

CONSTANTS
    Programs,
    Paths,      \* the texts programs open files by
    FOPEN_MAX,  \* the FILEs of a program
    MaxSlots    \* bound on the list of handles

ASSUME FilesAssumption ==
    /\ FOPEN_MAX \in Nat \ {0} /\ MaxSlots \in Nat /\ Paths \subseteq Seq(STRING)
    /\ \A text \in Paths : CutBetween(text)

VARIABLES
    pc,     \* how far each program is: the stream _start opens next, MAIN, ...
    files   \* _files[fd].handle of each program

vars == <<nodes, hdls, slots, mounted, delivered, stopped, pc, files>>

Fd == 0 .. FOPEN_MAX - 1
NULL == 0

Streams == << <<"/", "CSUP", ".", "IN">>, <<"/", "CSUP", ".", "OUT">>,
              <<"/", "CSUP", ".", "ERR">>, <<"/", "CSUP", ".", "PRN">> >>

BOOT == 0
MAIN == Len(Streams) + 1
EXIT == MAIN + 1
ENDED == MAIN + 2

\* What fopen's modes, creat and open ask of the kernel: O_CREAT, or the bit of O_EXCL,
\* which the kernel takes for BUFFERED, or neither.
Modes == { {}, {"O_CREAT"}, {"BUFFERED"} }

Init ==
    /\ DiskInit
    /\ pc = [p \in Programs |-> BOOT]
    /\ files = [p \in Programs |-> [fd \in Fd |-> NULL]]

-----------------------------------------------------------------------------
Unused(p) == {fd \in Fd : files[p][fd] = NULL}

\* open: the first unused FILE gets the index, and an index of 0 is taken for a failure.
\* next is where a program goes that has its FILE, failed one that has not.
Open(p, text, flags, next, failed) ==
    IF Unused(p) = {}
    THEN pc' = [pc EXCEPT ![p] = failed] /\ UNCHANGED <<diskVars, files>>
    ELSE LET fd == Min(Unused(p))
             got == PlacedAt # NULL
         IN  /\ Len(slots) < MaxSlots \/ InUse # {}
             /\ \E h \in Handle \cup {Null} :
                  /\ Opens(Absolute(text), h)
                  /\ hdls' = Opened(Absolute(text), flags, h)
                  /\ slots' = Placed(h)
             /\ files' = [files EXCEPT ![p][fd] = PlacedAt]
             /\ pc' = [pc EXCEPT ![p] = IF got THEN next ELSE failed]
             \* What could not be opened is created, a call that does not return.
             /\ stopped' = (~got /\ "O_CREAT" \in flags)
             /\ nodes' = IF stopped' THEN Added(<<"/", "TAPE">>, text)
                         ELSE nodes
             /\ UNCHANGED mounted /\ delivered' = Null

\* _start opens the standard streams one after the other and gives up at the first failure.
Start(p, k) ==
    /\ pc[p] = k
    /\ Open(p, Streams[k], IF k = 1 THEN {} ELSE {"O_CREAT"},
            k + 1, EXIT)

\* fclose, close: of a FILE that is not open too.
Fclose(p, fd) ==
    /\ SvcClose(files[p][fd])
    /\ files' = [files EXCEPT ![p][fd] = NULL]

\* _exit: every FILE in use is closed, then SVC ABEND, whose branch ends in kpanic.
Exit(p) ==
    /\ pc[p] = EXIT
    /\ IF Unused(p) # Fd
       THEN Fclose(p, Min(Fd \ Unused(p))) /\ UNCHANGED pc
       ELSE /\ pc' = [pc EXCEPT ![p] = ENDED] /\ stopped' = TRUE
            /\ UNCHANGED <<nodes, hdls, slots, mounted, delivered, files>>

\* fwrite, write; fread, read; fflush, flush: the FILE need not be open.
Fwrite(p, fd) == SvcWrite(files[p][fd])
Fread(p, fd)  == SvcRead(files[p][fd])
Fflush(p, fd) == SvcFlush(files[p][fd])

\* dup, dup2 and dup3: both FILEs share one index.  What newfd had is closed, by a call
\* before; dup takes the first unused FILE.
Dup(p, fd, newfd) ==
    /\ files[p][fd] # NULL /\ fd # newfd
    /\ IF files[p][newfd] = NULL
       THEN /\ files' = [files EXCEPT ![p][newfd] = files[p][fd]]
            /\ UNCHANGED diskVars
       ELSE Fclose(p, newfd)

\* stdio's remove: nothing is at the path of its parent.
RemoveFile(name) == SvcRemoveNode(<<"/", "TAPE">>, name)

-----------------------------------------------------------------------------
\* exec_user starts the programs once the command processor is read: each runs from
\* _start, or with an entry of its own.
Boot ==
    \/ MountDisk /\ UNCHANGED <<pc, files>>
    \/ /\ mounted # Null
       /\ \A p \in Programs : pc[p] = BOOT
       /\ LoadJda
       /\ pc' \in [Programs -> {1, MAIN}]
       /\ UNCHANGED files

Main(p) ==
    /\ pc[p] = MAIN
    /\ \/ \E text \in Paths, flags \in Modes : Open(p, text, flags, MAIN, MAIN)
       \/ \E fd \in Fd :
            /\ \/ Fclose(p, fd)
               \/ Fwrite(p, fd) /\ UNCHANGED files
               \/ Fread(p, fd) /\ UNCHANGED files
               \/ Fflush(p, fd) /\ UNCHANGED files
            /\ UNCHANGED pc
       \/ \E fd, newfd \in Fd : Dup(p, fd, newfd) /\ UNCHANGED pc
       \/ \E text \in Paths : RemoveFile(text) /\ UNCHANGED <<pc, files>>
       \/ pc' = [pc EXCEPT ![p] = EXIT] /\ UNCHANGED <<diskVars, files>>

Next ==
    /\ ~stopped
    /\ \/ Boot
       \/ \E p \in Programs : (\E k \in DOMAIN Streams : Start(p, k)) \/ Main(p) \/ Exit(p)

Spec == Init /\ [][Next]_vars

-----------------------------------------------------------------------------
(* Properties.                                                             *)

TypeOK ==
    /\ DiskTypeOK
    /\ pc \in [Programs -> BOOT .. ENDED]
    /\ files \in [Programs -> [Fd -> 0 .. MaxSlots]]

\* A program gives up on a standard stream only if it could not be opened ("Couldn't open
\* file", sys/libio/fcntl.cxx:47): a handle it got is not taken for none.
GivesUpOnFailure ==
    [][\A p \in Programs : pc[p] \in DOMAIN Streams /\ pc'[p] = EXIT => hdls' = hdls]_vars
=============================================================================
