------------------------------- MODULE Loader --------------------------------
(***************************************************************************)
(* How the kernel starts programs (kernel/elf.cxx, kernel/boot.cxx:145,    *)
(* kernel/kmain.cxx:144): it reads a file, creates a job with an address   *)
(* space, loads the sections, relocates, frees the file and starts a       *)
(* thread.  First the boot program, if the disk has one, then the command  *)
(* processor, while the threads that are started already run and ask for   *)
(* storage and for more threads (kernel/service.cxx).                      *)
(***************************************************************************)
EXTENDS AddressSpace

CONSTANTS
    BootImages, \* the boot programs the disk may hold, or NoFile
    Images,     \* the command processors it may hold
    Terminals,  \* whether a node answers to TERM001, or BOOLEAN for both: the first
                \* terminal is TERM000 (kernel/s390/x3270.cxx:6), and no other is made
    BufferSize, \* size of the buffer a file is read into
    FileSize,   \* size of a file
    MainStack,  \* stack of a program's first thread
    StackSize,  \* stack of the threads it starts itself
    Requests,   \* the sizes of storage programs ask for
    Entries,    \* where programs start threads: "storage" or "text"
    MaxCalls    \* bound on the calls of all threads

\* A section lies at page boundaries of its own, above the storage of the
\* machine (sys/pgm.ld), so that no address is both a section's and the
\* identity of real storage.
ASSUME LoaderAssumption ==
    /\ {BufferSize, FileSize, MainStack, StackSize} \subseteq Nat \ {0}
    /\ FileSize # RegionTable /\ Terminals \subseteq BOOLEAN
    /\ Requests \subseteq Nat \ {0} /\ MaxCalls \in Nat
    /\ Entries \subseteq {"storage", "text"}
    /\ \A i \in BootImages \cup Images : \A k \in DOMAIN i.sections :
          LET s == i.sections[k] IN
          s.alloc =>
            /\ s.addr % PageSize = 0 /\ s.addr >= High
            /\ s.addr + s.size <= MaxSegments * SegmentSize
            /\ \A j \in DOMAIN i.sections \ {k} :
                 LET t == i.sections[j] IN
                 t.alloc => PageOf(t.addr + t.size - 1) < s.addr \/ t.addr > PageOf(s.addr + s.size - 1)

VARIABLES
    image,    \* the file each job is loaded from, or NoFile
    held,     \* the chunks of real storage that are allocated
    tables,   \* the segment and page tables of each job
    short,    \* the jobs that an allocation has failed for
    loading,  \* the job the kernel is loading
    step,     \* what it does next for it
    next,     \* the section it loads next
    entry,    \* elf64::load's *entry
    threads,  \* the threads of each job
    awake,    \* the jobs whose SLEEP flag is off
    calls,    \* the calls that were made
    strays,   \* pages a RESIZE leaves mapped, or maps by mistake
    stopped   \* a kpanic, or a null pointer was followed

vars == <<image, held, tables, short, loading, step, next, entry, threads, awake, calls, strays,
          stopped>>

Jobs == {"BOOTMAIN", "SYSMAIN"}
NoFile == [valid |-> FALSE, headers |-> 0, entry |-> Null, sections |-> <<>>, present |-> FALSE]
Garbage == -1  \* a variable that was never set

\* The device block of a channel device, which GET_DEV shows to programs.
Device == Chunk(High - 1, 1, Kernel, "device", 0)

Storage == [held |-> held, tables |-> tables, short |-> short]
Keep(m) == held' = m.held /\ tables' = m.tables /\ short' = m.short

Chunks(job, use) == {c \in held : c.owner = job /\ c.use = use}

Init ==
    /\ \E boot \in BootImages, i \in Images : image = [BOOTMAIN |-> boot, SYSMAIN |-> i]
    /\ held = {Descriptors, Device}
    /\ tables = [job \in Jobs |-> NoSegments]
    /\ short = {} /\ awake = {} /\ calls = 0
    /\ loading = "BOOTMAIN" /\ step = "read" /\ next = 1 /\ entry = Garbage
    /\ threads = [job \in Jobs |-> <<>>]
    /\ strays = [job \in Jobs |-> {}]
    /\ stopped = FALSE

-----------------------------------------------------------------------------
(* The kernel loads the programs one after the other.                      *)

At(s) == ~stopped /\ step = s
Goto(s) == step' = s

Finished == loading' = "SYSMAIN" /\ next' = 1 /\ entry' = Garbage
            /\ Goto(IF loading = "BOOTMAIN" THEN "read" ELSE "done")

\* The file is read into a buffer and moved to a chunk of its own size.  Where that
\* is not to be had the buffer is lost; without a terminal, the file.  Boot goes on
\* without its program, but the missing command processor is a kpanic.
Read ==
    /\ At("read")
    /\ LET big == Alloc(held, BufferSize, 1)
           buffer == Chunk(big, BufferSize, Kernel, "lost", 0)
           buf == Alloc(held \cup {buffer}, FileSize, 1)
           fails(lost) == /\ held' = held \cup lost
                          /\ stopped' = (loading = "SYSMAIN")
                          /\ Finished
       IN  \/ (~image[loading].present \/ big = Null) /\ fails({})
           \/ image[loading].present /\ big # Null /\ buf = Null /\ fails({buffer})
           \/ /\ image[loading].present /\ big # Null /\ buf # Null
              /\ \/ loading = "BOOTMAIN" /\ FALSE \in Terminals
                    /\ fails({Chunk(buf, FileSize, Kernel, "lost", 0)})
                 \/ /\ loading = "BOOTMAIN" => TRUE \in Terminals
                    /\ held' = held \cup {Chunk(buf, FileSize, Kernel, "file", 0)}
                    /\ Goto("create")
                    /\ UNCHANGED <<loading, next, entry, stopped>>
    /\ UNCHANGED <<image, tables, short, threads, awake, calls, strays>>

\* timeshare::job::create with an address space: without a segment table it returns
\* nullptr, which load follows.
CreateJob ==
    /\ At("create")
    /\ LET segtab == Alloc(held, SegtabSize, PageSize) IN
       IF segtab = Null THEN stopped' = TRUE /\ UNCHANGED held
       ELSE /\ held' = held \cup {Chunk(segtab, SegtabSize, Kernel, "segtab", 0)}
            /\ UNCHANGED stopped
    /\ Goto("check")
    /\ UNCHANGED <<image, tables, short, loading, next, entry, threads, awake, calls, strays>>

\* check_valid: what is no ELF file is not loaded, and the caller does not look.
CheckValid ==
    /\ At("check")
    /\ Goto(IF image[loading].valid THEN "sections" ELSE "free")
    /\ UNCHANGED <<image, held, tables, short, loading, next, entry, threads, awake, calls, strays, stopped>>

Present(s) == s.type \in {"PROGBITS", "NOBITS"}
IsLoaded(s) == s.alloc /\ s.size > 0 /\ Present(s) /\ (s.type = "PROGBITS" => s.inside)

\* Sections of the file are loaded at a page boundary, cleared ones where they ask.
Alignment(s) ==
    IF s.type = "PROGBITS" /\ s.align < PageSize THEN PageSize ELSE s.align

\* load_section on the storage of a job.
LoadSection(m, job, k) ==
    LET s == image[job].sections[k]
        addr == Alloc(m.held, s.size, Alignment(s))
    IN  IF ~IsLoaded(s) THEN m
        ELSE IF addr = Null THEN [m EXCEPT !.short = @ \cup {job}]
        ELSE MapRange([m EXCEPT !.held = @ \cup {Chunk(addr, s.size, job, "section", k)}],
                      job, PageOf(s.addr), PageOf(addr), s.size)

\* A section whose header is outside the file ends the load before *entry is set;
\* one that cannot be loaded does not.
Section ==
    /\ At("sections")
    /\ next <= Len(image[loading].sections)
    /\ IF next > image[loading].headers
       THEN Goto("free") /\ UNCHANGED <<held, tables, short, next>>
       ELSE /\ Keep(LoadSection(Storage, loading, next))
            /\ next' = next + 1
            /\ UNCHANGED step
    /\ UNCHANGED <<image, loading, entry, threads, awake, calls, strays, stopped>>

\* The second pass: a relocation without addend is a kpanic; one with an addend
\* changes the file, of which the sections were copies, and is lost.
Relocate ==
    /\ At("sections")
    /\ next > Len(image[loading].sections)
    /\ stopped' = (\E k \in DOMAIN image[loading].sections :
                      LET s == image[loading].sections[k] IN s.type = "REL" /\ s.size > 0)
    /\ entry' = image[loading].entry
    /\ Goto("free")
    /\ UNCHANGED <<image, held, tables, short, loading, next, threads, awake, calls, strays>>

FreeFile ==
    /\ At("free")
    /\ held' = held \ Chunks(Kernel, "file")
    /\ Goto("start")
    /\ UNCHANGED <<image, tables, short, loading, next, entry, threads, awake, calls, strays, stopped>>

Thread(task, pc, asked, stack) == [task |-> task, pc |-> pc, asked |-> asked, stack |-> stack]

\* thread::create and set_pc: a stack that cannot be allocated is a null thread,
\* whose context set_pc sets.
NewThread(job, task, pc, asked, size) ==
    LET stack == Alloc(held, size, PageSize)
        c == Chunk(stack, size, job, "stack", Len(threads[job]) + 1)
    IN  IF stack = Null THEN stopped' = TRUE /\ UNCHANGED <<held, tables, short, threads>>
        ELSE /\ Keep(MapRange([Storage EXCEPT !.held = @ \cup {c}], job, stack, stack, size))
             /\ threads' = [threads EXCEPT ![job] = Append(@, Thread(task, pc, asked, stack))]
             /\ UNCHANGED stopped

\* Then the job is awake.
Start ==
    /\ At("start")
    /\ NewThread(loading, 1, entry, entry, MainStack)
    /\ awake' = awake \cup {loading}
    /\ Finished
    /\ UNCHANGED <<image, calls, strays>>

Load == Read \/ CreateJob \/ CheckValid \/ Section \/ Relocate \/ FreeFile \/ Start

-----------------------------------------------------------------------------
(* The threads' supervisor calls.                                          *)

\* A thread that started where nothing is mapped calls nobody.
Calls(job) ==
    /\ ~stopped
    /\ job \in awake
    /\ calls < MaxCalls /\ calls' = calls + 1
    /\ \E k \in DOMAIN threads[job] :
          LET pc == threads[job][k].pc IN pc # Garbage /\ VirtualToReal(tables, job, pc) # Null

\* The storage of a call, mapped to the address it has.
Identity(m, job, ptr, size) == MapRange(m, job, PageOf(ptr), PageOf(ptr), size)

KernelUnchanged == UNCHANGED <<image, loading, step, next, entry>>

GetStorage(job) ==
    /\ Calls(job)
    /\ \E size \in Requests :
          LET p == Alloc(held, size, PageSize) IN
          p # Null /\ Keep(Identity([Storage EXCEPT !.held = @ \cup {Chunk(p, size, job, "storage", 0)}],
                                    job, p, size))
    /\ UNCHANGED <<threads, awake, strays, stopped>> /\ KernelUnchanged

PagesOf(c) == {PageOf(c.ptr + k) : k \in 0 .. c.size - 1}

\* RESIZE_STORAGE of a chunk.  real_storage::realloc looks at the first block of the
\* region, its descriptors: if they have the size it is "the same size" and they are
\* returned, whatever the chunk; otherwise new storage takes the place of the old, if
\* a page leads to that.  The pages of the old stay mapped.
ResizeStorage(job) ==
    /\ Calls(job)
    /\ \E c \in Chunks(job, "storage"), size \in Requests :
          LET p == Alloc(held, size, PageSize)
              mapped == VirtualToReal(tables, job, c.ptr) # Null
              moved == (held \cup {Chunk(p, size, job, "storage", 0)}) \ (IF mapped THEN {c} ELSE {})
          IN  IF mapped /\ size = Descriptors.size
              THEN /\ Keep(Identity(Storage, job, Low, size))
                   /\ strays' = [strays EXCEPT ![job] = @ \cup PagesOf(Descriptors)]
              ELSE /\ p # Null
                   /\ Keep(Identity([Storage EXCEPT !.held = moved], job, p, size))
                   /\ strays' = [strays EXCEPT ![job] = @ \cup PagesOf(c)]
    /\ UNCHANGED <<threads, awake, stopped>> /\ KernelUnchanged

\* DROP_STORAGE frees and does not return: the call falls into the branch of the
\* invalid ones, a kpanic.
DropStorage(job) ==
    /\ Calls(job)
    /\ \E c \in Chunks(job, "storage") : held' = held \ {c}
    /\ stopped' = TRUE
    /\ UNCHANGED <<tables, short, threads, awake, strays>> /\ KernelUnchanged

\* GET_DEV maps the page of the kernel that the device block is in.
GetDevice(job) ==
    /\ Calls(job)
    /\ Keep(Identity(Storage, job, Device.ptr, PageSize))
    /\ UNCHANGED <<threads, awake, strays, stopped>> /\ KernelUnchanged

\* The addresses a program starts threads at.
Entry(job) ==
    (IF "storage" \in Entries THEN {c.ptr : c \in Chunks(job, "storage")} ELSE {}) \cup
    (IF "text" \in Entries THEN {image[job].entry} ELSE {})

\* EXEC_AT in a new task, THREAD_AT in the current one: the real address of the entry
\* becomes that of a thread which runs with translation on.
StartAt(job, inTask) ==
    /\ Calls(job)
    /\ \E virt \in Entry(job) :
          NewThread(job, inTask, VirtualToReal(tables, job, virt), virt, StackSize)
    /\ UNCHANGED <<awake, strays>> /\ KernelUnchanged

Tasks(job) == {threads[job][k].task : k \in DOMAIN threads[job]}
ExecAt(job) == StartAt(job, Cardinality(Tasks(job)) + 1)
ThreadAt(job) == \E task \in Tasks(job) : StartAt(job, task)

Next == Load \/ \E job \in Jobs :
            \/ GetStorage(job) \/ ResizeStorage(job) \/ DropStorage(job) \/ GetDevice(job)
            \/ ExecAt(job) \/ ThreadAt(job)

Spec == Init /\ [][Next]_vars

-----------------------------------------------------------------------------
(* Properties.                                                             *)

\* The state has the shape the code gives it: chunks lie in the region, apart from
\* each other, and each page table is one of them (elf.cxx, virtual.cxx).
TypeOK ==
    /\ \A c \in held : Low <= c.ptr /\ c.ptr + c.size <= High
    /\ \A c, d \in held : c # d => c.ptr + c.size <= d.ptr \/ d.ptr + d.size <= c.ptr
    /\ \A job \in Jobs, s \in Segments :
          LET t == tables[job][s] IN
          IF t.origin = Null THEN t = Invalid
          ELSE Chunk(t.origin, TableSize, Kernel, "pagetab", 0) \in held
    /\ \A i, j \in Jobs, s, t \in Segments :
          tables[i][s].origin = tables[j][t].origin /\ tables[i][s] # Invalid => i = j /\ s = t
    /\ loading \in Jobs /\ step \in {"read", "create", "check", "sections", "free", "start", "done"}
    /\ entry \in {Garbage} \cup {i.entry : i \in BootImages \cup Images}
    /\ calls \in 0 .. MaxCalls /\ short \subseteq Jobs /\ awake \subseteq Jobs /\ stopped \in BOOLEAN

\* A byte of a chunk is what the program reads at an address.
Reads(job, virt, c, k) == VirtualToReal(tables, job, virt + k) = c.ptr + k

Complete(i) == i.valid /\ i.headers >= Len(i.sections)

\* A program that runs finds every section it was linked with at its address, and
\* every thread of it its stack, in storage that is still its own - whatever was
\* allocated, mapped and moved since, for it or for others.  Only an allocation that
\* failed on the way, which nobody looks at, takes that away (elf.cxx:496, virtual.cxx:134).
ProgramInPlace ==
    \A job \in awake \ short :
        /\ Complete(image[job]) =>
              \A k \in DOMAIN image[job].sections :
                 LET s == image[job].sections[k] IN
                 IsLoaded(s) => \E c \in Chunks(job, "section") :
                                   c.part = k /\ \A i \in 0 .. s.size - 1 : Reads(job, s.addr, c, i)
        /\ \A k \in DOMAIN threads[job] : \E c \in Chunks(job, "stack") :
              c.part = k /\ \A i \in 0 .. c.size - 1 : Reads(job, threads[job][k].stack, c, i)

\* A program reaches storage of another only through a page that a RESIZE left mapped
\* after giving its storage back, or took for its own (service.cxx:34, real.cxx:442),
\* or through the page of a device block it was shown (service.cxx:106, "Don't expose
\* dev like this to the application!"), in which a small section may lie too.
Isolated ==
    \A i, j \in Jobs : i # j =>
        \A s \in Segments, p \in Pages, c \in held :
            LET page == tables[i][s].page[p] IN
            (c.owner = j /\ page # Null /\ page \in PagesOf(c)) =>
                page \in strays[i] \cup {PageOf(Device.ptr)}

\* A thread starts at the byte the program named when it asked for it: "Execute a new
\* task at" (abi_bits.h:74), "Execute a new thread at" (abi_bits.h:75).
StartsWhereAsked ==
    [][\A job \in Jobs : Len(threads'[job]) > Len(threads[job]) =>
          LET t == Last(threads'[job]) IN
          t.asked # Garbage =>
             VirtualToReal(tables', job, t.pc) = VirtualToReal(tables', job, t.asked)]_vars
=============================================================================
