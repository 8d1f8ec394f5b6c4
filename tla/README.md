# KinnowOS: a verification project

TLA+ models of the core of KinnowOS (uDOS), a small operating system for the
s390 architecture, checked by TLC, with theorems checked by TLAPS.  The models
are translated from the source under `src/`; `PROJECT.json` maps every
definition to the lines it stands for.

Contents: [inventory](#inventory), [what is modelled](#what-is-modelled),
[runs](#runs), [further instances](#further-instances), [findings](#findings),
[proofs](#proofs), [not modelled](#not-modelled).

## Inventory

The kernel is one C++ program.  `main` (`kernel/kmain.cxx`) initialises each
part in turn and then spins as the thread KERNEL; from `init_smp` on, a CPU
timer preempts it.  All other code runs in interruption handlers, in the kernel
thread SPOOLER, or in problem-state threads that enter the kernel by SVC.

| Component | State | Operations | Interacts with | What makes it correct |
|---|---|---|---|---|
| Scheduler (`timeshr.cxx`) | jobs, tasks, threads, a cursor in each list, a context per thread | create job, task, thread; `set_pc`; `job::remove`; `next`, `switch_context`, `schedule` | called by handlers; filled by boot and SVCs | a save goes to the thread that ran; the CPU runs the current thread; cursors in range; nobody starves |
| Handlers (`s390/handlers.cxx`, `s390/entry.cxx`) | FLCGRSAV, one old PSW per class | SVC, program check, external, I/O | scheduler, service | the PSW loaded is the one exchanged; a handler never waits for what it has interrupted |
| SVCs (`service.cxx`) | none of its own | 20 calls | everything | each call returns; handles and requests are valid when used |
| Real storage (`real.cxx`) | list of blocks, descriptor table in the region | create, alloc, free, realloc, merge | every list and object | chunks are disjoint, nothing is lost, the table is nobody's |
| Lists and strings (`storage.hxx`) | pointer, size, capacity | insert, remove, resize, move, compare | everything | elements survive growth and removal |
| Mutexes (`mutex.hxx`) | one word | try_lock, lock, unlock | storage, CSS, users, printf | one holder; no handler spins for a preempted one |
| Channel subsystem (`s390/css.cxx`) | request pool, queue, device list | create, send, perform, destroy | SPOOLER, SVCs, DASD and 3270 drivers | each request is performed once, in order, and its owner learns the result |
| DASD (`s390/dasd.cxx`) | last disk location | read, write with retry | CSS, VFS | the record read is the one meant |
| Virtual disk (`vdisk.cxx`) | nodes, drivers, handles, write buffers | open, read, write, flush, close, add and remove node | SVCs, drivers, users | a path leads to the node of that name; an index leads to a handle that is open |
| ZDSFS (`zdsfs.cxx`) | the volume's dataset labels | mount, read (create cannot be reached) | DASD | each dataset is found and read whole |
| Users (`user.cxx`) | one user, its list of handles | look up | virtual disk | a handle has one index |
| Address spaces (`s390/virtual.cxx`) | segment and page tables | map, translate | jobs, SVCs | what is mapped is found; pages of others are not |
| Program loader (`elf.cxx`, `boot.cxx`, `kmain.cxx`) | the program being loaded | load, start | real storage, address spaces, scheduler | a program finds its sections at their addresses |
| C library (`sys/libio`) | a table of FILEs per program | open, read, write, close, dup; start, exit | SVCs | a FILE stands for the handle it was opened with |
| JDA (`sys/jda`) | tokens, stack, named objects, script buffer | lex, convert, evaluate, assign, builtins | C library | each call gets its arguments; each line ends |
| Ciphers (`crypto.cxx`) | none; tables of the caller | generate keys, encrypt, decrypt | nobody yet | what is encrypted comes back |
| Strings and characters (`storage.hxx`, `locale.*`, `libio/string*`) | the caller's buffers | compare, search, copy, translate | paths, labels, everything | equal strings are equal, copies are whole, texts survive translation |
| Formatting and environment (`printf.cxx`, `libio/stdio.cxx`, `stdlib.cxx`) | a buffer; `environ` | format, convert numbers, set and get | console, programs | what is printed can be read back, inside the buffer |
| Registry (`utils/rgadm.cxx`) | groups of groups and keys, in arrays | create, add, find, resolve a path | C library | a key is found at its path |
| Software GL (`libgl/GL/gl.cxx`) | a context with a list of commands | colours, coordinates, glBegin, glEnd | programs | a component arrives as the part of the whole it was passed as |
| Device tree, PCI, TCP/IP headers | little or none | parsing | boot | results of pure functions |
| Other machines (x86, riscv, or1k, sparc, ia64) | stubs | | | |
| IPL (`ipl.S`) | registers, the buffer it reads into | read the front of the volume, jump | DASD | the kernel lies in storage in its order |
| Other utilities | | | SVCs | |

Hard behaviours: preemption of the thread that builds the tables the handler
reads; handlers that share one register save area; a fault that removes the very
thread whose state is to be saved; locks taken by threads and by handlers; a
storage manager whose bookkeeping lives in the storage it manages; requests
referred to by pointers into lists that move; handles shared by all programs and
known by an index; allocations that fail in the middle of a load, unnoticed; a
volume whose end is found by reading until it fails; scripts run in the buffer
they replace.  `PROJECT.json` lists each hazard
at its line, with the properties that cover it or the reason none does yet.

## What is modelled

### Scheduler.tla

The table of jobs, tasks and threads and everything that changes it.

*State.*  `tasks[j]` and `threads[t]` are the `dynamic_list`s; `curJob`,
`curTask`, `curThread` the three cursors; `asleep` the SLEEP flag; `ctx` the
saved contexts; `psa` the register save area and the old PSWs of the three
classes of interruption; `cpu` what the processor runs with.  A register set or
a PSW is abstracted to its owner: the value `t` is "the state of thread t".
That is what the properties tell apart: a save into the wrong context and a
return by the wrong PSW both show as a mismatch of owners.

*Actions.*  `KernelThread` is `init_smp` followed by `exec_user`, any number of
times, one action per call, because the timer can interrupt between any two.
`External`, `ProgramCheck` and `Yield` are the entries of the handlers: the
hardware's PSW store, the first-level handler's register save, what the handler
does before `schedule` (the kill in `asc_pc_handler`), and the look-up of the
old thread at the head of `timeshare::next`.  `ScanStep` is one turn of the loop
in `next`; when it finds a thread it includes `switch_context` and the handler's
return.  The loop is a sequence of steps so that "the scan ends" can be stated;
nothing interleaves with it since handlers run disabled.  `ExecAt` and
`ThreadAt` are whole SVCs.

*Where the model starts.*  `timeshare::init` ends with an SVC that, as the code
stands, never returns (see the finding on `YieldReturns`).  `Init` is the state
after it, as if it had returned; every later yield is modelled as it is and ends
in `mode = "halted"`.  The SPOOLER's own yields are in the model only when
`"yield"` is in `Interrupts`.

*Abstractions.*  Storage exhaustion in the creations, stacks, names, priorities
(which nothing reads) and address spaces are left out.  The return value that
`asc_svc_handler` stores into the save area after an await goes into the
registers of the thread just picked; as registers are abstracted to their owner,
the model does not see that one register.

### RealStorage.tla and Allocator.tla

`RealStorage` is one region.  `heap` is the list of blocks in list order with
descriptor number, size and flag; a block's address is the sum of the sizes
before it, as in every loop of the code.  `Alloc` is the whole of
`real_storage::alloc` under its lock: the first fit, the cut on the left, the
cut on the right, each through `block::create` with its three outcomes (a free
descriptor, a grown table, null) and what alloc does with a null.  `Merge` is
`block::merge` in closed form, including the loop's step to the next block.
`Reallocate` and `ReallocDrop` are the two locked sections of `realloc`.
Arithmetic is modulo `Word`.  `held` and `moving` are the clients' knowledge.

After alloc has followed a null pointer (`faulted`) the model stops: what it
would do to low storage is undefined.

`Allocator` is the promise: a set of disjoint chunks outside a front part that
is the manager's.  `KeepsPromise` says that RealStorage implements it, with
`held` and the size of the table's block as the mapping.

### CssRequests.tla

Channel requests: who makes them, the pool and the queue, `request_perform`, the
subchannel it drives.

*State.*  `slot` is the storage of `g_request_pool` and `size` how much of it the
list has; slots behind `size` keep what was in them, because `insert` constructs
nothing and a removal copies.  `queue` holds slot numbers, which stand for the
pointers.  `ptr` and `step` are the clients: where their request is and which
call they made last.  `run` is the activation of `request_perform`: who made it,
whether the CPU is enabled for I/O interruptions, the step it is at and its IRB.
`chan` is a subchannel per device with the program it runs and the status it
holds; it is the hardware, modelled as the I/O instructions of the code see it.
A channel program is abstracted to the address of its CCWs, which is what the
code compares.  `owner`, `fate` and `late` are history: whose request a slot
holds, whether its program ran to its end, whether a wait has ended too early.

*Actions.*  A client has one action per SVC.  `DriverCall` and `DriverReturn` are
a driver's read or write, between which it performs requests until its own is
done.  The steps of `Perform` are the sections of `request_perform` between two
I/O instructions; only devices and I/O interruptions come between them.  A
problem-state thread or a driver cannot: the SPOOLER performs with the timer
masked, and an SVC is not preempted.  The KERNEL thread, which calls the drivers
at boot, can be preempted, but there is no other client then and `try_lock` keeps
the SPOOLER out, so its activation also runs as if alone.

*Abstractions.*  The branches of SVC_CSS_REQ_SEND, DELETE, XCHG_FLAGS and SET_CCW
(`service.cxx:124-158`) do not return: like SVC_SCHED_YIELD (`MCSchedulerYield` below) they
do their work and then reach the kpanic at the end (`service.cxx:199`).  `Send`, `SetFlags`
and `Delete` do the same work, and the client goes on, as the library that makes these
calls expects.  So the model has the behaviours of the code, which are prefixes of the
model's, and those of a kernel whose branches return; the drivers, which call `send` and
`destroy` directly, go on in both.  Left out: the contents
of CCWs (`SET_CCW`), failures of allocation, a pool of more than 16 requests (which would move), `dev_enable` and `probe`, which
nothing calls.  The SPOOLER's yields are taken to return, as in `Init` of
Scheduler.  `Fresh` says what DONE may be in storage that has held no request: the
runs take it to be off; with `{TRUE, FALSE}` a DASD request, whose flags nobody
sets, is taken for done before it is performed, and destroyed while queued.

### Lists.tla

`storage::dynamic_list`, from which the kernel makes its jobs, requests, nodes,
handles and symbols, over `real_storage` as `Allocator` promises it.  `store` is a
small region cell by cell; `ptr`, `size` and `capacity` are the members of each
list, `room` the size of its chunk, and `meant` the sequence a list is supposed to
be.  An element is two cells, because `storage::move` works on bytes and its upward
branch is off by one: it copies `n` bytes to `dest + 1`, so the first byte does not
come along and the byte behind the chunk is written.  Reallocation of a list always
goes through a new chunk: the growing branches of `realloc` in place are for
`align == 0` in the first block of the region, which is never a client's.

`resize` raises size and capacity before it asks for storage.  A list that has
failed (`failed`) claims elements it has none for, and the next insert writes
outside its chunk; the model stops there (`stopped`).  A chunk given back forgets
what it held.  The destructor and `compress` have no callers.

### VirtualDisk.tla and Files.tla

`VirtualDisk` is the tree of nodes, the handles and the list of handles by which a
user's programs reach them.  A name is a sequence of tokens, a token a separator or
a run of other characters of which the length and the sum are known, because that
is all `storage::compare` tells apart when two names have one length.  `nodes`,
`hdls` and `slots` are the tree, the handles that are allocated and the list
`user->handles`; `delivered` is what the last call handed to a driver.  `Mount` is
`zdsfs::init`, which gives each dataset a node named by its label, cleaned up.  A label
has up to 44 characters and a node keeps 24 of them (`Truncated`), while a lookup wants
the whole name: datasets with longer names cannot be found.  A name that is cut is one
that can be cut between two of its tokens (`CutBetween`, assumed of the constants).  The
terminator of a name of 24 characters is written behind the array, at the end of the
node: into its padding as the build is by default (`-m64`), one byte past the node with
`-m31`; in neither case is it another node's name, and the model leaves it out.

`Files` is the C library above: a table of FILEs per program, the start of a program
that opens the standard streams, `fopen` to `fclose`, `dup`, `remove` and the end.
An SVC is one step.  `boot` and the mount come before the programs.

What the code does and the model therefore does: an open looks for a slot that is
*not* null, so each open replaces the handle of the one before; a closed slot stays
null and is never used again; index 0 is taken for a failure by the library, so a
program that starts regularly gives up at its first stream, and its `SVC_ABEND`
falls into kpanic; a flush writes into the buffer that it frees and hands nothing to
the driver; `remove` names a parent that does not exist.

Left out: listing of directories and ioctl, several users (boot makes one), contents
of files beyond "what was written" and "garbage", and allocations that fail (an `insert`
into the list of handles whose result SVC_VFS_OPEN does not look at, `service.cxx:53`,
would give the program the index of the last handle before).

### Zdsfs.tla

Reading a volume.  The volume is a function from places (cylinder, track, record) to
records, known to neither the driver nor ZDSFS; `Further` is the search `read_disk`
makes after each failure, `Behind` where it continues.  `Label`, `Chain`, `ReadDataset`
and `Data` are the mount and `read_file`.  `Miss` is a read that fails because there is
no such record, or, up to `MaxFaults` times, for a reason of the device.  With a
fault while mounting, a record of another kind can be taken for a label, and a label of
the volume that could not be read at all leaves the place of the chain to chance
(`zdsfs.cxx:376` does not look); the model stops there (`astray`).

How a volume is written is `WrittenVolume`: what dir2dasd lists, and the program that
makes a volume of the list.  Records of a track are numbered from 1; a dataset's records
lie behind one another up to an empty one, within the tracks its label names; so do the
labels.  It is assumed of `Volumes` (`ZdsfsAssumption`), for `read_disk` finds nothing
on a volume with gaps, and TLC evaluates it on the volumes of `boot`.

### Ipl.tla

The assembler that loads the kernel, and then the system it starts, on the same
volumes.  `cc`, `hh` and `rr` are its registers and `diskBuffer` what it has put into
storage, block by block, as the places the blocks came from.  `NextRead` is one turn of
its loop.  A read that fails leaves its block as it was and the loop goes on.  The
branch for success compares a word of low storage, because the register that holds the
head is used as an address; were the comparison as meant, it would lose the head.
When the walk is through, or the device is, the loader jumps to what it has read;
if that is the kernel, mount and reads are those of Zdsfs.  `IplAssumption` says that the
kernel is where dir2dasd puts it, in front: its places are the first ones of the walk.

### Locks.tla

`base::mutex` and those who take it.  Three flows: the kernel thread, which the timer
preempts; the spooler, which masks interruptions while it performs; and the handlers
that run for a problem-state thread, which nothing preempts.  A call is the sequence
of steps on locks it makes (`work`), read off the sources: test the word, set it,
give it back, look at a request, perform one.  Test and setting are two steps.
`word` is what the mutexes hold, `inside` who believes to be in.  `realloc` gives
its lock back by hand before `alloc` and `free`, and again at its end; x3270's
`init` holds its device's lock over a driver's call; asc_pc_handler takes its lock
and then loops until it cannot be had, which is at once.

### Crypto.tla

A user generates keys, encrypts a message and decrypts it; each is one step.  Words,
bytes, rounds, shifts and tables are scaled down together (`Bits`, `ByteBits`,
`Rounds`, `Shifts`); the tables' first contents are arbitrary numbers, as those of the
code are for these properties.  `blowfish::genkey` copies `sizeof` a pointer, two
words, of its tables into the caller's: `Leftovers` is what the rest may hold.
`arc4::encrypt` tests the counter of the loop before, and writes nothing unless the
stream has 256 bytes.  `rsa::genkey` finds no `e`, and the powers are modulo 2^32.

### Strings.tla

The string functions of the kernel and of the C library, the character classes, and
the tables that translate between ASCII and EBCDIC.  They are pure, or write to a
buffer: a behaviour is one call, `Ask` of all the questions about two strings or `Copy`
into `cells`.  `FirstPlace` and `Differences` stand for the loops.

### Formats.tla

Formatted output: the kernel's `vsnprintf` with `dputs` behind it, and the library's
with the conversions of numbers.  `format` is a sequence of items, a conversion with
its argument or a character, and a step is one turn of the loop over it; `text` is the
string in the buffer, `length` the code's `i`, `reach` the last cell written, which
tells whether it was the buffer's.  What a cell holds that nobody has written
(`numbuf[j]`, and `s[i]` after the first word) is any of `Garbage`.  Floating point is
exact, in sixteenths.  Left out are the library's padding, which is parsed and not used,
and words of the dictionary inside a string that is an argument (`printf.cxx:127-141`),
of which only the sanitizer's messages make use (`ubsan.cxx:71`); a word in the format is
an item.  The tables have SUB for a line feed, among others, so `MessagesArrive` says of
each character as what it is shown (`Shown`).

### Environ.tla

`environ` and the three calls on it.  Nothing in the library or the kernel sets it: a
program has to assign a list of its own (`AdoptEnviron`) before the calls do more than
fail.  Allocations may fail, of the list, which is then lost, and of a variable.

### Registry.tla

The groups and keys of `rgadm`.  A group lies in an array of its parent's and an array
in a chunk; adding a sister reallocates the array, which moves or stays, and the chunk
left behind keeps what was in it.  A pointer is a chunk and an index.  An allocation may
fail, once: the array is then lost and its count is not.  Following an array that was
lost, and walking on behind the last name of a path (`strpbrk` has returned null and the
code adds one to it), is `Wild`.  Programs look their groups up again before they add to
them, unless `KeepsPointers`.  Deletion and the dump are left out: deleting frees a group
that lies within an array, and nothing calls it.

### Gl.tla

Each call of the software GL is a record: family, number and type of components, by value
or by reference.  `Body` says what its body does: call another one (`Forwards`), add a
command (`gl_add_command`), or nothing, in which case what follows
`__builtin_unreachable` is undefined and the model stops (`glRunsOn`).  Components are
fractions, of which the types' limits are scaled down (`GlBits`); `CharIsSigned` says
what CHAR_MAX is.  `glGetError` only reads.  The list gets room for the commands it has
before it counts one more, and the command itself is not stored.

### Images.tla

What the kernel's and the library's reader make of an ELF file: the checks of the
headers, the sections byte by byte, the symbols, the relocations.  Both read copies of
one file, the kernel first.  Bytes have `UnitBits` bits.  The kernel copies all sections
and then relocates the buffer they were copied from; the library does what each section
says in the order of the sections.  The addend of an entry is the word the code reads,
which on this machine is the upper half of the field in the file.  A file is cut off
anywhere (`headers`, and offsets behind its end).  Where storage comes from and how it is
mapped is in Loader; here there is enough.

### AddressSpace.tla and Loader.tla

`AddressSpace` holds the operators: first fit of real storage (a set of chunks and
an alignment rounded down, as `real_storage::alloc` places them; the descriptor
table is the first chunk), segment and page tables, `map_range`, `virtual_to_real`.
`Loader` is the kernel thread that loads the boot program (`boot::limine`) and then
the command processor (`exec_user`), one action per call, and the SVCs by which the
programs that run already take storage, resize it, look at devices and start
threads.  An image is a list of sections; what matters of one is its type, address,
size, alignment, and whether it lies in the file.

`short` collects the jobs for which an allocation has failed without anybody
noticing; `strays` the pages that a RESIZE leaves mapped after their storage has
been given back, or that come from the descriptor table when its size is asked for.
Relocations patch the file's buffer, after the sections were copied out of it, and
have no effect here (they are in Images).  `Terminals` says whether a node answers to `TERM001`: the only
terminal the code makes is `TERM000`, so that on the machine as it is the boot
program is read and never started; the run has both cases.

Left out: symbols and the contents of sections, which are in Images, `phys2virt` and
`destroy` (no callers).  The page size of 2 cannot show the underflow of
`storage_underflow`.

### Jda.tla

The command processor's interpreter.  `tokens`, `stack` and `objects` are the
context's; `phase` and `pos` the place in `jda_lexer_to_rpn` and `jda_parse`; `rpn`
the stacks of the conversion; `exec` and `frames` the script buffer and the loops
that read it, one within the other.  One action handles one token.  Each builtin is
the set of its effects on the stack (`Effects`): what it takes, gives and returns.
Numbers are integers, and what sines and files give is any of `Results`.

A line that the lexer or the converter refuses leaves its tokens in the context and
the next line is appended to them: the model keeps them, with a mark on those whose
text was freed.  Following a freed text, a null pointer or a script buffer that is
gone stops the model.  Names are compared by `strcmp`, which takes names of one length
and one sum of characters for the same: `Alike` says which ones are (in the run `X` and
`Y`, which stand for names such as `AD` and `BC`).  Left out: allocations that fail, the terminal, what is printed, the count of
failures, and parentheses that only group (`CallsGetTheirArguments` is about lines
whose parentheses are all those of calls: `f(1,(2))` gets its count wrong).

## Runs

| Run | Instance | Shows |
|---|---|---|
| `scheduler_timer` | 3 jobs, 5 tasks, 6 threads, timer only | `RunsCurrent`, `ReadyToRun`, `SavesOwnContext`, `EveryThreadRuns` |
| `scheduler_events` | 2 jobs, 3 tasks, 4 threads, all events | `TypeOK`, `CursorsInRange`, `ScanEnds` |
| `scheduler_kill_save` | 2 jobs, 4 tasks, 4 threads | violation, see below |
| `storage_aligned` | 7 units, 8 descriptors, sizes 1 and 2, alignments 0 and 2, 3 chunks | the bookkeeping, and alignment |
| `storage_grows` | 10 units, 3 descriptors growing by 2, no alignment, 3 chunks | the sizes and the refinement while the table grows, up to the failure to grow |
| `css_requests` | 1 user and the drivers, 1 device that may be slow, vanish and ask for attention once, attention loop of 2 | the pool, the queue and the answers; every request is answered |
| `css_late` | 1 user, 1 slow device | violation, see below |
| `locks` | 3 flows and 10 locks | locks have one holder, handlers do not spin, the kernel's calls end |
| `helpers` | one of: 2 lists of up to 3 elements of 2 cells, 17 cells, growth by 2; words of 4 bits, 4 keys, 4 rounds, every chunk; every two strings of up to 3 and 2 of 4 characters; every conversion alone and three items together in buffers of 2, 5 and 20; 6 names of variables; a registry of up to 4 groups and 2 keys; every call of GL in every type, 2 commands; ELF files of up to 3 of 12 sections, whole and cut off | what a list counts it holds, and its cells survive growth, removal and the other list; block ciphers decrypt; strings that are equal or occur are found and are copied whole; what is printed is read back and reaches the console; variables stay; keys are found; components arrive; both readers load the same program |
| `files` | 2 programs with 2 FILEs, 2 handles, 3 slots, a disk of 7 labels, 3 paths | handles and indices, names and paths |
| `boot` | one of: 2 volumes of 2 datasets, 2 faults of the driver's reads and one of the loader's; 38 cells in pages of 2, 3 boot programs, 3 command processors, 3 calls | the kernel lies in storage in order; a read returns the dataset; a fault costs a cylinder at most; programs are where they were linked, and apart |
| `jda` | all lines of up to 3 of 9 tokens, sums of four numbers, calls in calls, every builtin, two names that compare equal, 2 scripts of plain lines | conversion, calls, order of evaluation; every line ends |

*Bounds.*  Three jobs are the smallest number with one asleep, one being built
and one running; a job with two tasks and a task with two threads make every
cursor wrap, and three of a kind in one list make a removal shift elements on
both sides of a cursor (SYSMAIN with KERNEL, SPOOLER and an EXEC_AT in
`scheduler_events`).  The storage instance is scaled: a descriptor is one unit
and the table grows by two (32 in the code).  Three chunks give every pattern of
used and free around a freed block, including the chain in which the loop of
`merge` runs twice.  Eight descriptors are what three chunks can need (`BlocksPerChunk`),
so `storage_aligned` never grows the table; `storage_grows` does.
In `css_requests` a user's request lies under a driver's in pool and queue, which
is every nesting of two; with two users (set `Users`, keep `InOrder`) the safety
properties hold as well, on 2.9 million states.  `InOrder` restricts the clients
to deleting the latest request first.  An attention loop of two rounds has a first, a
repeated and a last round.  One device is enough for a late answer to be
mistaken for another request's.

In `helpers` a capacity of 4 is two growths, three elements the least number with one
before and one behind a removed one, and 17 cells let two lists lie in both orders
with and without a gap; one value is enough, as values are only copied, and `Unset`
is an element nobody has assigned.  In `locks` the flows are as many as can differ: one
that is preempted, one that masks itself, one that is masked; every call either may
make is tried at every point at which the others can be.  The block ciphers are
checked on every word of their scaled width, with keys shorter than a word, as long,
and not dividing one; a carry, a shift out of the word and each S-box occur.  Strings of
three characters over four give equal sums of different strings, false starts of a
needle, and bounds on both sides of each length.  Numbers run over the digits of each
base and one carry; the buffers end before, in and behind three items, and the line is
shorter than the longest text.  Four groups make an array move while another one's
pointers are known, names of equal sums hide each other, and each allocation fails once.
In GL each type is passed its least, its greatest and nothing.  The ELF files have a
section of every kind that is read, some behind the end of the file, at address 0 or empty,
in every order, and relocations of every type, into the section before and the one
behind.  In `files` two programs share one list, two
FILEs make `dup` and the full table happen, and the labels hold a name with blanks,
two names that become one, two with equal sums, an empty one, and one of 28 characters
before the one of 24 that it is cut to.  In `boot` the
volumes end a dataset in the middle and at the end of a track and of a cylinder, and
continue the chain on a second track.  A section has one page, one page
and a byte, or none of the file's; storage is short enough that every allocation
fails in some behaviour, and the descriptor table has a size that programs ask for.
In `jda` residues of refused lines are bounded by `MaxTokens` and objects by
`MaxObjects`, which bound when another line is typed, not what a line does.  No script calls
EXEC, so loops over scripts nest only as each line, when it is done, runs the buffer once
more, finds no line in it and frees it; `MaxDepth` is not reached.

*Deadlock* is not checked where the system may stop: in `scheduler_events` after a
kpanic, in `storage_grows` after a fault, in `helpers`, `files`, `boot` and `jda`
once what follows is undefined or a kpanic, in `boot` also when nothing is mounted, and
in all of them when a bound is reached.  In `locks` everybody waiting on everybody is what
`KernelCallsEnd` excludes.

*Fairness.*  Scheduler (`FairSpec`): the kernel thread runs on when it has the CPU, the
timer fires (each external interruption arms it again,
`handlers.cxx:214`), and a handler's steps are taken, as nothing preempts it.
No fairness is assumed of user threads, SVCs or program checks.
In CssRequests: an activation of `request_perform` runs on, the SPOOLER gets the
CPU again and again although drivers use it in between (strong fairness, the
round robin that `EveryThreadRuns` checks), a client that has sent asks again for
the answer, and a device not in `Slow` comes to the end of its program.  Of a slow
one nothing is assumed.  In Jda: the interpreter takes its steps between two lines;
nobody has to type.  In Locks: the timer fires, and a flow gets far enough in some of
its turns to take a step (strong fairness, as each turn may find the lock set).

*Mutants.*  Each property of a passing run is violated when one definition is
replaced by a defective one, defined beside it and marked "Mutant of".

## Further instances

Configurations beside the runs, each of which TLC refutes on purpose: what a comment
or a name promises and the code does not do.  `tlc -config X.cfg M` reproduces the
behaviour; where a configuration names several properties, keep one of them, or use
`-continue`.

| Configuration | Property | Against |
|---|---|---|
| `MCSchedulerNextTask.cfg` | `GoesToNextTask` | "Go to the next task instead" (`handlers.cxx:201`): `schedule` exchanges the external old PSW whichever handler called it, so after a program check or an await the CPU resumes the PSW it came from with another thread's registers |
| `MCSchedulerYield.cfg` | `YieldReturns` | "Allow scheduling and un-sleep" (`timeshr.cxx:21`): SVC_SCHED_YIELD reaches kpanic |
| `MCRealStorageUnderflow.cfg` | `BlocksFit` | "Block can't be bigger than the region" (`real.cxx:284`): the test for room and the placement round in different directions; with an alignment above two the left size wraps around |
| `MCCssRequestsOverlap.cfg` | `OwnRequest` | "Delete the specified request" (`css.cxx:51`): a deletion moves the later requests, to which others hold pointers |
| `MCListsMoves.cfg` | `DataIntegrity` | "Verify data integrity" (`real.cxx:62`): the first byte of a chunk that moves up is lost; the self-test fills in bytes with which it cannot see that |
| `MCLocksBoot.cfg` | `NobodySpinsMasked` | "This is required because mutexes deadlock because the SVC can't switch tasks" (`entry.cxx:251`): masking the spooler is not enough once a problem-state thread runs while the kernel thread still boots: its SVC spins for ever on a lock the preempted thread holds |
| `MCHelpersPointers.cfg` | `DecryptsWhatItEncrypts` | "Generate the Blowfish P-array and S-box from the given key" (`crypto.cxx:296`): they are also generated from what was in storage; two sides with one key do not understand each other |
| `MCHelpersPromises.cfg` | `RsaDecrypts` | "Decrypt an RSA-encoded message" (`crypto.cxx:442`) |
| `MCHelpersPromises.cfg` | `BoundIsKept` | "Maximum allowed characters" (`string.inl:328`): strncpy writes its end behind them |
| `MCHelpersPromises.cfg` | `TellsNamesApart` | a user is looked up by name (`user.cxx:67`): `storage_string::compare` counts from 0 in a loop that ends at 0, and compares first characters only |
| `MCHelpersPromises.cfg` | `PathsSurvive` | the stroke, which separates the names of a path, becomes SUB on its way through `asc2ebc` and `ebc2asc` |
| `MCHelpersPromises.cfg` | `KernelPrintsNumbers` | kprintf's numbers: the loop `numbuf[j - k]` (`printf.cxx:193`) starts one behind the digits and ends one before the last of them |
| `MCHelpersPromises.cfg` | `StaysInBuffer` | "Truncate index ... Null terminate" (`printf.cxx:216`): a text as long as the rest of the buffer, and the space before a word, put the end behind it |
| `MCHelpersPromises.cfg` | `LibraryStaysInBuffer` | "Obtain the length and truncate" (`printf.cxx:123`); the library computes the length (`stdio.cxx:326`) and concatenates up to the size of the whole buffer |
| `MCHelpersPromises.cfg` | `FractionsSurvive` | "Convert a string into a float" (`stdlib.cxx:70`): 1/16 is printed as 0.625, the zero behind its point being lost in `libio_llftoa` |
| `MCHelpersPromises.cfg` | `ReadsHexadecimal` | `base = 16` (`stdlib.cxx:38`): the digits are added up in base 10 |
| `MCHelpersPromises.cfg` | `SetsWhatIsNew` | "Zero means to not change the value if it already exists" (`stdlib.cxx:124`): one that does not exist is an assertion that fails |
| `MCHelpersPromises.cfg` | `OverwriteUpdates` | "update an already existing environment variable" (`stdlib.cxx:125`): the new value goes behind the old one, which getenv finds first |
| `MCHelpersPointers.cfg` | `KeysAreFound` | a group is created in the group a caller was given (`rgadm.cxx:86`), whose array has moved since: what is added to it is lost |
| `MCHelpersPointers.cfg` | `WayIsNotLost` | "Registry %s not found" (`rgadm.cxx:174`): the path of a group, which is not a key's, is read on behind null |
| `MCHelpersPromises.cfg` | `SignedBytesArrive` | a signed byte is a part of the most a byte can be (`gl.cxx:391`): CHAR_MAX is 255 where char is unsigned |
| `MCHelpersPromises.cfg` | `EndNeedsBegin` | "glEnd() executed before a glBegin()" (`gl.cxx:583`): `flags & (ACTIVE == 0)` is never true |
| `MCHelpersPromises.cfg` | `ListHasRoom` | "Current list on the context" (`gl.cxx:58`): room is made before the command is counted (`gl.cxx:69`) |
| `MCHelpersPromises.cfg` | `RelocationsTakeEffect` | "After loading everything, proceed to perform relocations" (`elf.cxx:499`): the sections have been copied by then |
| `MCHelpersPromises.cfg` | `SymbolsInPlace` | "Get correct address" (`elf.cxx:308`): a base is added that the sections are not loaded at (`elf.cxx:279`) |
| `MCHelpersPromises.cfg` | `NewlinesAreBlank` | "Blank out newlines" (`printf.cxx:236`): nothing is blanked out, a line feed becomes SUB in the table (`locale.cxx:5`) and a carriage return stays |
| `MCFilesStreams.cfg` | `AllAreFound` | "Register all of the datasets of the disk onto the VFS" (`zdsfs.cxx:372`): a node keeps 24 characters of a name, and no path leads to a longer one |
| `MCFilesStreams.cfg` | `FindsItsOwn` | "If none of the children matches then the file wasn't found" (`vdisk.cxx:148`): the path of one dataset leads to another whose name has the same sum |
| `MCFilesStreams.cfg` | `GivesUpOnFailure` | "Couldn't open file" (`fcntl.cxx:47`): the first handle has index 0, which the library takes for none |
| `MCBootExec.cfg` | `StartsWhereAsked` | "Execute a new task at" (`abi_bits.h:74`): the thread starts at the real address, with translation on |
| `MCJdaScript.cfg` | `ScriptIsAllocated` | "run any execution buffer AFTER we finish processing the callee" (`jda.cxx:849`): the first line of a script, when it is done, frees the buffer that the script is still read from |
| `MCJdaAssign.cfg` | `LastAssignmentWins` | "Override value of the object" (`jda.cxx:803`): the object and its copy share one name, and the second assignment frees it |

## Findings

1. `scheduler_kill_save`: a program check removes the faulting task before
   `schedule` looks up the old thread, so the dead thread's state is saved into
   the context of an innocent one.
2. `css_late`: the result of `wait_io` and the condition codes 1 and 2 of SSCH
   are ignored, so that the end of an abandoned channel program is taken for the
   end of the next one.

The further instances above show thirty-two more.  Met while modelling, without an instance:

* With `Aligns = {0, 2}` and a small table `SizesAddUp` fails (the block list is cut
  off when the second `create` of an alloc finds the table full), and so does
  `BlocksFit` when a table grows into the very block being cut with nothing on its
  left.  With the table's size in `Sizes`, `SameSize` hands out the table.  A block
  that stays in use can take in a free neighbour during somebody else's free
  (`merge`): nothing overlaps and the storage comes back when that block is freed,
  which is why `UsedIsHeld` says "big enough".
* `boot::limine` opens `TERM001`; the driver counts from 0 (`x3270.cxx:6`).  It also
  loads the configuration file itself as the program.
* `main` closes the handle of the disk that ZDSFS goes on reading through
  (`kmain.cxx:293`).
* `tape_node` has no driver data (`zdsfs.cxx:421`): SVC_VFS_ADD_NODE under `/RDISK`
  would follow a null pointer.  `new_file` would overwrite the first label.
* A string given to a call that fails is freed by the call and again with the tokens;
  FREEMAIN frees what it points to twice; POPM counts a negative number down; a
  script that runs itself never ends.

## Proofs

What a run shows on an instance, a theorem shows for every value of the constants.
Eight modules hold theorems; nothing in them is assumed but the types of the constants,
the layout of volumes and what boot's names are not the same as, in the `ASSUME`s of the
modules they extend, and the hypotheses named here.

| Theorem | States | For |
|---|---|---|
| `SchedulerProofs!TypeCorrect`, `CursorsStayInRange` | `[]TypeOK`, `[]CursorsInRange` | every table, every set of interruptions |
| `RunsTheCurrentThread`, `ThreadsAreReady`, `SavesAreOwn` | `[]RunsCurrent`, `[]ReadyToRun`, `SavesOwnContext` | every table; `TimerOnly` |
| `CssProofs!TypeCorrect`, `RequestsAreOwn`, `QueueIsWhatIsUnanswered`, `AnswersStand`, `SuccessIsTrue` | `[]TypeOK`, `[]OwnRequest`, `[]QueueIsUnanswered`, `AnswerStands`, `[]SuccessUntilLate` | every set of users and devices, slow or not, and every patience; `Orderly` |
| `FilesProofs!SlotsAreLive` | `[]LiveSlots` | every disk, number of programs, FILEs, handles and slots |
| `DatasetsStayFound` | `[]DatasetsFound` | the same, for all names of datasets, of any length, and all lengths and sums of tokens for which `NamesAssumption` holds |
| `RealStorageProofs!FreeStorageIsWhole` | `[]Coalesced` | every region, table, size and alignment |
| `RealStorageProofs!TypeCorrect`, `SizesAlwaysAddUp`, `UsedIsAlwaysHeld`, `RegionStaysWhole` | `[]TypeOK`, `[]SizesAddUp`, `[]UsedIsHeld`, `[]RegionIsWhole` | every region and table, any number of chunks; `Plain` |
| `PromiseIsKept`, `Allocator!PromiseKeepsApart`, `ClientsApart` | `KeepsPromise`, `[]Apart`, and by the one from the other that the chunks of clients are disjoint and outside the table | the same |
| `AlignedProofs!AlignedTypeCorrect`, `AlignedSizesAddUp`, `AlignedUsedIsHeld`, `AlignedRegionIsWhole`, `AlignedPromiseIsKept` | `[]TypeOK`, `[]SizesAddUp`, `[]UsedIsHeld`, `[]RegionIsWhole`, `KeepsPromise` | every region, with alignments; `Aligned` |
| `ChunksAreAligned`, `AllocNeverFaults` | `AllocAligned`, and that alloc never meets a null block | the same |
| `ListsProofs!ListTypes`, `ListsStayWhole` | the types, `[]ListsAreWhole` | any number of lists, every region, element size, alignment and step of growth |
| `IplProofs!VolumeIsRead`, `FaultCostsCylinder` | `[]ReadsWhatIsThere`, `[]OneFaultOneCylinder` | every volume that is written as `WrittenVolume` says, any number of faults |
| `KernelIsRead`, `KernelReadsVolume` | `[]KernelInOrder`, and of the started kernel the two of the volume | the same, with the kernel in front; every number of records, tracks and cylinders the loader is built for |

*The hypotheses* say which clients a theorem is about.  Each excludes what a finding
or a further instance shows to break the property, and each is met by the instance of
the run that checks it.

* `TimerOnly`, no cause of interruption but `"ext"`: after a program check or an await
  the CPU goes on with a PSW that is not the current thread's (`MCSchedulerNextTask.cfg`)
  and saves go to the wrong thread (finding 1).
* `Orderly`, requests are deleted in the reverse order of their creation, and storage
  that held no request does not say DONE: else a deletion moves a request from under
  another client's pointer (`MCCssRequestsOverlap.cfg`), or a new request is taken for
  answered (`Fresh` above).
* `Plain`, no alignment is asked for and never the very size of the table: else the
  second `create` of an alloc may find the table full and lose the blocks behind, and
  `SameSize` gives the table away (both under Findings).  `storage_grows` satisfies it.
* `Aligned` allows alignments, as typed allocations ask for them (`safe_align`,
  `storage.hxx:153`; the size of a type is a multiple of its alignment): there is a unit
  of which region, descriptors and all sizes are multiples, and every alignment divides
  it or is twice it.  Clients that mix objects with byte strings of any length are
  outside it, unless the objects are aligned to two at most.  And the table has been made
  with two descriptors per chunk and two more, and is never asked for by its size.  The
  400 descriptors of the region that `init` makes (`real.cxx:42`, `real.cxx:168`) are
  enough for 199 chunks at once.  Beyond it alloc fails as described under Findings: an
  alignment of four with sizes of one unit places a chunk in front of its block
  (`MCRealStorageUnderflow.cfg`), a full table cuts the list.  `storage_aligned`
  satisfies it, with a unit of one.

### The scheduler

`CursorsInRange` is not inductive: `timeshare::next` picks a *thread* only if its
cursor is inside the list, and a cursor stays inside only if lists are lists.  The
inductive invariant is `SchedInv`, both of them with the types.  Creation only extends
lists (`AppendOne`, `GrowthKeepsCursors`); a kill shortens one list and resets its
cursor if it has fallen off (`ProgramCheckInv`, from `WithoutType`); the scan moves a
cursor only in a list it has seen not to be empty (`AdvanceInRange`, `ScanStepInv`).

`TimerInv` strengthens this for `TimerOnly`: a task is in one job's list only, and lists
hold nothing that is not created (`TasksInv`, `ThreadsInv`); before the timer is set
nothing runs but the kernel thread (`BootInv`); the job being made is asleep, with one
task and that with one thread at most (`BuildInv`); during a scan `old_thread` is the
thread whose state the handler has stored, and each other thread that can be dispatched
has its own in its context (`RunInv`).  So a save writes the state of the thread it
writes to, and `exec_user` may be interrupted between any two of its calls: what it has
half made is in a sleeping job, out of reach of the scan.

### Channel requests

The invariant `CssInv` says what "orderly" makes of the pool: a stack.  `PoolInv`: each
element below its size has an owner and the owner points at it, and a driver's request,
which has the CPU, is on top; so a removal moves nothing.  `FlagInv`: DONE is nowhere
before a request was sent.  `QueueInv`: the queue is injective, holds just the
unanswered, and the request being performed is its last element, which is what
`queue.remove(count - 1)` at the end relies on.  `LateInv`: until a wait has ended too
early, a subchannel runs only the program of the request being performed, and whatever
status it holds is about that program; so the comparison of the CPA decides rightly.

### Handles

`FilesInv`: one slot at most is in use (each open takes over the one that is, and closed
slots are not reused), the handle in it is allocated, and what programs hold in their
FILEs are numbers of slots.  Every call of the library is one of the SVCs as far as the
list goes, so that `PlacedInv` (open) and `ClosedInv` (close) are the two that matter.

### The tree of nodes

`TreeInv` has two halves.  Until the disk is mounted no program runs and the tree is the
one of boot: its nodes have the names boot gives, none of which is the same as `RDISK` to
`storage::compare`, which is why the mount point that `zdsfs::init` creates is the first
child of the root with its sum (`MountIs`).  `NamesAssumption` says so of the constants
`Length` and `Weight`; the names of boot have two, three, four, six and seven characters,
`RDISK` has five.  From then on the tree is one in which the datasets are found (`Found`):
there is the mount point, and for each dataset with a name a child of it is found that is a
dataset's node, with the name of that dataset or of one before it.  This stays because a tree only grows (`Grows`): children come behind the
others, and the first with a sum stays the first (`ChildStays`).  Nothing is asked of what
programs create.  `DatasetsFound` follows because the path of a dataset has exactly two
components (`DatasetComponents`, for which the names must be `Sanitized`: a separator left
in one would make a third) and a child that is found has the sum of the name that was
looked for.  A name that fits is kept whole, so its node has that sum; what
is cut has 24 characters (`TruncatedIs`), and no node has more (`NoneSoLong`), so that a longer name finds nothing.

The paths, the creations of boot and the datasets are folded (`FoldLeft`).  The library
defines that by a recursive function on the subsets of the indices, chosen by `CHOOSE`.
`FoldExists` proves, by induction as a fact about a set of numbers (`UpTo`), that there
is such a function, and `FoldSteps` that it gives the same as a function of the number of
elements taken, one by one; the proofs go on from that function.

### Real storage

`WholeInv` needs no hypothesis: the list's first block is in use and no two neighbours
are free.  First fit cuts a free block into parts of which one is used; a lost tail
leaves a prefix; and the one place where a free neighbour appears, `Merge`, ends with
neither side of the freed block free, because it was so before.

`StorageInv` is the bookkeeping, of three parts: where blocks begin (`Laid`: they fill the
region, so that sizes never wrap), the descriptors (`Table`) and the clients (`Given`).
The code finds addresses by adding up sizes, in a loop; `Start` is therefore a recursive
function, of which the proofs need no more than its value at the front and its step
(`FoundWhereLaid`, by `FirstFailure`: the positions at which it is right have no first
gap, because a set of numbers has a least one).  `AllocSound` follows alloc through the
first fit, the growth of the table into the block behind it, and the cut; merging is
`Fused`.  The step lemmas also say what a step does to `held` and to the size of the
table, and that is the refinement: `Allocate` is a step of `Allocator` that takes a chunk
where there was none or lets the reserved front grow into free storage, `Free` gives one
back, `Reallocate` is one or the other (`AllocPromised`, `FreePromised`, `StepPromised`).

With alignments (`AlignedInv`) two more facts carry the proof.  Blocks begin and end on
multiples of the unit (`OnUnits`), so an address is aligned or half an alignment off
(`HalfAtMost`): what rounding takes from the end of a block is what the test for room
has counted from its beginning, and the chunk lies in its block (`Placed`).  And a region
whose free storage is whole has at most two blocks per chunk and two more
(`BlocksPerChunk`, which counts every other block; it needs `WholeInv`), so both cuts of
an alloc find a descriptor (`RoomForTwo`) and the table need not grow.  `CutLeft` and
`CutRight` follow the two cuts, `AllocServes` puts them together; merging only takes
block boundaries away (`Among`).

### Lists

A list is whole if the cells of its chunk hold what it should, which no step keeps by
itself: an upward move copies one cell too far and leaves out the first.  The inductive
invariant `ListsInv` therefore says which cells are right: all but the first one of the
first element (`Holds`, of the cells with `i # 0 \/ q # 0`), that an element there is
no storage for has no value (`Hollow`: the capacity of a list whose growth failed counts
more than its chunk has), and that chunks are apart (`Clear`, by the allocator's
promise).  Two things bear the proof.  A copy upwards writes, behind the chunk it
fills, one cell that nothing counts on, as it is the first of another chunk or free; and
the cell it leaves out is the first of the list that moves (`MovedElsewhere`,
`MovedAlong`).  `ElementsSurvive` says that of every list, `HasWhatItCounts` only of those
no allocation of which has failed: there size, capacity and chunk agree (`Counted`).
Each operation touches one list:
`AfterInv` reduces a step to what it leaves of that list (`After`), and one lemma per
operation shows it (`InsertFitsAfter` to `ShrinkAfter`).  What a move does to the cells
of the list that moves and of the others is `MovedAlong` and `MovedElsewhere`; removal,
which shifts the cells behind, is `Deleted`.

### Volumes

`VolumeInv` follows the driver.  What a read has not got of its dataset before the place
it looks at (`Unread`) is nothing as long as no read has failed for a fault, and of one
cylinder after one fault (`Frontier`): a failure steps over places that are empty or of
one cylinder (`GapOfOne`, `GapOfTrack`, `GapOfCylinder`, which is where `LaidOut` is
needed).  Records are read in their order because the driver only goes forward
(`Passed`, `Ordered`).

That makes `OneFaultOneCylinder`, but for `ReadsWhatIsThere` the search must also end, and
end at the right record.  `WholeInv` says that it is on its way to one, when nothing has
failed: there is a record, of the kind that is looked for, with none in between, which
the attempts that are left will reach (`Target`).  What the mount has is the labels up to
there, and what a read has is of its dataset only.  That a sequence of places is the one
`InOrder` defines by counting is `InOrderIs`.

`WalkInv` is about the loader: block `j` of `disk_buffer` is the `j`-th place of its walk if
that was read, and the registers are at the next one.  The walk is monotone
(`NumberInOrder`), so the kernel's `k`-th record in the order of the file system is the
`k`-th of the walk (`KernelIs`).  This holds although the branch for success is never
taken (`ReadBlockWalks`): were it taken, `%r3` would not be the head any more.

### Model-checked only

* Liveness, out of the prover's reach: `EveryThreadRuns`, `ScanEnds`,
  `EverySentIsAnswered`, `LineEnds`, `KernelCallsEnd`.
* Real storage for alignments outside `Aligned`, where they hold on some instances and
  fail on others.
* `MutualExclusion` and `NobodySpinsMasked` of Locks: its only constant is a Boolean,
  the run has the whole state space of the model.
* `ProgramInPlace` and `Isolated` of Loader, which rest on the sizes of the instance:
  that a segment lies in one page table and that a short section may share a page.
* The modules of the helpers (`Crypto`, `Strings`, `Formats`, `Environ`, `Registry`,
  `Gl`, `Images`) and `Jda`: what they compute is defined by recursion and folds over
  texts, tables and files, and their properties are about the result.
* The `TypeOK` of VirtualDisk, Files, Jda and Loader, which hold on the instances
  of the runs; they document the variables and are not among the runs' properties.

## Not modelled

The status of every component is in `PROJECT.json`.  Of the modelled ones:
`task::remove`, which nothing calls; `get_stats` and `get_memsize`, which change
nothing; more than one region (init makes one).  The modules of the data take what is
done under a lock for one step; Locks is about the locks alone.

Not modelled at all: drivers and headers that the s390 machine does not start (PCI,
PS/2, UART, TCP/IP, FAT, extX); the device tree; the other machines,
which are stubs; the mathematics of the C library and scanf; the utilities but for the
registry, which are sequential users of the C library; and the headers of GL, which come
from elsewhere.  Those headers, and tables like them, are
a large part of the repository's lines and have no behaviour to model.
