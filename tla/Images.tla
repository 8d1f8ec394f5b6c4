------------------------------- MODULE Images --------------------------------
(***************************************************************************)
(* The two readers of ELF files: the kernel's (kernel/elf.cxx), which      *)
(* starts the first programs, and the library's (libio/elf.cxx), with      *)
(* which the command processor starts the others.  Here is what each makes *)
(* of a file; where the kernel finds storage and maps it is in Loader, and *)
(* here there is enough.                                                   *)
(***************************************************************************)
EXTENDS Integers, Sequences

CONSTANTS
    FileSet,    \* the files
    UnitBits,   \* the bits of a byte, scaled down
    PageUnits,  \* the bytes of a page
    LoadBase    \* rdr.base, 0x80000

\* Linked by sys/pgm.ld: what is loaded begins a page, and the file has what it says.
ASSUME ImagesAssumption ==
    /\ UnitBits \in {2, 4, 8} /\ PageUnits \in Nat \ {0} /\ LoadBase \in Nat \ {0}
    /\ \A f \in FileSet : \A k \in DOMAIN f.sections :
          LET s == f.sections[k]
          IN  /\ s.alloc => s.addr % PageUnits = 0
              /\ s.type = "PROGBITS" /\ s.offset < Len(f.bytes) => s.offset + s.size <= Len(f.bytes)
              /\ s.type \in {"REL", "RELA", "SYMTAB"} => s.entsize > 0

VARIABLES
    elfFile,   \* the file
    elfBytes,  \* the copy of it each loader reads
    elfMemory, \* the bytes at the program's addresses
    elfSymbols,\* the symbols of the job
    elfStep,   \* what each loader does next
    elfNext,   \* the section it does it to
    elfResult  \* what load returned

elfVars == <<elfFile, elfBytes, elfMemory, elfSymbols, elfStep, elfNext, elfResult>>

Loaders == {"kernel", "library"}
NoString == -1
Unit == 2 ^ UnitBits

-----------------------------------------------------------------------------
(* The file.  Positions are those in the buffer.                           *)

Inside(pos) == pos >= 0 /\ pos < Len(elfFile.bytes)

Missing == [type |-> "missing"]

\* The header of a section, if it begins in the file.
get_shdr(k) ==
    IF k \in DOMAIN elfFile.sections /\ k <= elfFile.headers THEN elfFile.sections[k] ELSE Missing

\* Where the string of an offset is: in the table, or in that of the sections' names.
get_string(off, k) ==
    LET strtab == IF get_shdr(k) # Missing THEN get_shdr(k) ELSE get_shdr(elfFile.names)
    IN  IF strtab # Missing /\ Inside(strtab.offset + off) THEN strtab.offset + off ELSE NoString

\* A big-endian field.  What is behind the file is taken for 0, and changes there are lost.
Field(bytes, pos, n) ==
    LET byte(i) == IF i \in DOMAIN bytes THEN bytes[i] ELSE 0
        upto[k \in 0 .. n] == IF k = 0 THEN 0 ELSE upto[k - 1] * Unit + byte(pos + k)
    IN  upto[n]
WithField(bytes, pos, n, v) ==
    [i \in DOMAIN bytes |->
        IF i - 1 \in pos .. pos + n - 1 THEN (v \div Unit ^ (pos + n - i)) % Unit ELSE bytes[i]]

Units == [S390_8 |-> 1, S390_16 |-> 2, S390_32 |-> 4]

\* reloc_patch: the field has the addend added to it; of twelve bits they are replaced.
\* Other types are printed.
reloc_patch(bytes, pos, addend, type) ==
    IF type \in DOMAIN Units
    THEN LET n == Units[type]
         IN  WithField(bytes, pos, n, (Field(bytes, pos, n) + addend) % Unit ^ n)
    ELSE IF type = "S390_12"
    THEN LET old == Field(bytes, pos, 2)
             twelve == 2 ^ ((3 * UnitBits) \div 2)
         IN  WithField(bytes, pos, 2, (old - (old % twelve)) + (addend % twelve))
    ELSE bytes

\* do_reloc_add on the section the table names.
do_reloc_add(bytes, s, rela) ==
    LET target == get_shdr(s.info)
    IN  IF target = Missing \/ ~Inside(target.offset) THEN bytes
        ELSE reloc_patch(bytes, target.offset + rela.offset, rela.addend, rela.type)

\* A relocation without addend is a kpanic, or an endless loop.
do_reloc_stops(s) ==
    LET target == get_shdr(s.info) IN target # Missing /\ Inside(target.offset)

\* The entries of a table that begin in the file: the kernel takes one that is cut off.
Entries(s, whole) ==
    {j \in DOMAIN s.entries :
        /\ Inside(s.offset + (j - 1) * s.entsize)
        /\ IF whole THEN j <= s.size \div s.entsize ELSE (j - 1) * s.entsize < s.size}

Relocated(bytes, s, whole) ==
    LET upto[j \in 0 .. Len(s.entries)] ==
            IF j = 0 THEN bytes
            ELSE IF j \in Entries(s, whole) THEN do_reloc_add(upto[j - 1], s, s.entries[j])
            ELSE upto[j - 1]
    IN  upto[Len(s.entries)]

-----------------------------------------------------------------------------
(* What a section does to the memory.                                      *)

SectionMoved(memory, s, bytes) ==
    [a \in DOMAIN memory |->
        IF a \in s.addr .. s.addr + s.size - 1 THEN bytes[s.offset + a - s.addr + 1] ELSE memory[a]]
SectionCleared(memory, s) ==
    [a \in DOMAIN memory |-> IF a \in s.addr .. s.addr + s.size - 1 THEN 0 ELSE memory[a]]

\* Mutant of load_section: sections not present on the file are not cleared.
LoadsWhatIsPresent(memory, s, bytes) ==
    IF s.size > 0 /\ s.alloc /\ s.type = "PROGBITS" /\ Inside(s.offset) THEN SectionMoved(memory, s, bytes)
    ELSE memory

\* The kernel's load_section: a chunk that is mapped where the section should be.
load_section(memory, s, bytes) ==
    IF s.size = 0 \/ ~s.alloc THEN memory
    ELSE IF s.type = "PROGBITS" /\ Inside(s.offset) THEN SectionMoved(memory, s, bytes)
    ELSE IF s.type = "NOBITS" THEN SectionCleared(memory, s)
    ELSE memory

\* The library's: to whatever the address is pointing to, unless it is null.
elf64_load_section(memory, s, bytes) ==
    IF s.size = 0 \/ ~s.alloc \/ s.addr = 0 THEN memory
    ELSE CASE s.type = "PROGBITS" /\ Inside(s.offset) -> SectionMoved(memory, s, bytes)
           [] s.type = "NOBITS" -> SectionCleared(memory, s)
           [] OTHER -> memory

\* The functions and objects of a symbol table, each with the name its string has.
SymbolsOf(s) ==
    LET taken(j) == j \in Entries(s, FALSE) /\ s.entries[j].type \in {"FUNC", "OBJECT"}
        symbol(j) ==
            LET sym == s.entries[j]
            IN  [name |-> get_string(sym.name, s.link), of |-> sym,
                 address |-> IF sym.absolute THEN sym.value ELSE sym.value + LoadBase]
    IN  [j \in {j \in DOMAIN s.entries : taken(j)} |-> symbol(j)]

-----------------------------------------------------------------------------
(* The loaders.                                                            *)

Goes(l, step) == elfStep' = [elfStep EXCEPT ![l] = step]
Returns(l, result) ==
    /\ Goes(l, "done")
    /\ elfResult' = [elfResult EXCEPT ![l] = result]
\* A kpanic or an endless loop.
Stops(l) == Goes(l, "stopped") /\ UNCHANGED elfResult

\* check_valid, and the program headers: one whose flags, not whose type, are INTERP stops the
\* library; the kernel's assertion is for builds that are debugged, and it goes on.
Check(l) ==
    /\ elfStep[l] = "check"
    /\ LET ends == {i \in DOMAIN elfFile.programs :
                       \/ elfFile.programs[i] = "outside"
                       \/ l = "library" /\ elfFile.programs[i] = "INTERP"}
           first == CHOOSE i \in ends : \A j \in ends : i <= j
       IN  IF ~elfFile.valid THEN Returns(l, "invalid")
           ELSE IF ends = {} THEN Goes(l, "sections") /\ UNCHANGED elfResult
           ELSE IF elfFile.programs[first] = "outside" THEN Returns(l, "invalid")
           ELSE Stops(l)
    /\ UNCHANGED <<elfFile, elfBytes, elfMemory, elfSymbols, elfNext>>

Advances(l) == elfNext' = [elfNext EXCEPT ![l] = @ + 1]
Reading(l, step) == elfStep[l] = step /\ elfNext[l] <= Len(elfFile.sections)

\* A header outside the file ends the load.
Outside(l) ==
    /\ \E step \in {"sections", "relocations"} : Reading(l, step)
    /\ get_shdr(elfNext[l]) = Missing
    /\ Returns(l, "invalid")
    /\ UNCHANGED <<elfFile, elfBytes, elfMemory, elfSymbols, elfNext>>

KernelSection ==
    /\ Reading("kernel", "sections") /\ get_shdr(elfNext.kernel) # Missing
    /\ LET s == get_shdr(elfNext.kernel)
       IN  /\ elfMemory' = [elfMemory EXCEPT !.kernel = load_section(@, s, elfBytes.kernel)]
           /\ elfSymbols' = IF s.type = "SYMTAB" /\ Inside(s.offset) /\ s.size > 0
                            THEN Append(elfSymbols, SymbolsOf(s)) ELSE elfSymbols
    /\ Advances("kernel")
    /\ UNCHANGED <<elfFile, elfBytes, elfStep, elfResult>>

KernelLoaded ==
    /\ elfStep.kernel = "sections" /\ elfNext.kernel > Len(elfFile.sections)
    /\ Goes("kernel", "relocations")
    /\ elfNext' = [elfNext EXCEPT !.kernel = 1]
    /\ UNCHANGED <<elfFile, elfBytes, elfMemory, elfSymbols, elfResult>>

\* The relocations change the file, whichever pass they are done in.
Relocates(l, s, whole) ==
    /\ s.type = "RELA"
    /\ elfBytes' = [elfBytes EXCEPT ![l] = Relocated(@, s, whole)]
    /\ Advances(l)
    /\ UNCHANGED <<elfFile, elfMemory, elfSymbols, elfStep, elfResult>>

StopsRelocating(l, s, whole) ==
    /\ s.type = "REL" /\ Entries(s, whole) # {} /\ do_reloc_stops(s)
    /\ Stops(l)
    /\ UNCHANGED <<elfFile, elfBytes, elfMemory, elfSymbols, elfNext>>

HasNone(s, whole) ==
    \/ s.type \notin {"REL", "RELA"}
    \/ s.type = "REL" /\ ~(Entries(s, whole) # {} /\ do_reloc_stops(s))

load_rel_section ==
    /\ Reading("kernel", "relocations") /\ get_shdr(elfNext.kernel) # Missing
    /\ LET s == get_shdr(elfNext.kernel)
       IN  \/ Relocates("kernel", s, FALSE)
           \/ StopsRelocating("kernel", s, FALSE)
           \/ /\ HasNone(s, FALSE) /\ Advances("kernel")
              /\ UNCHANGED <<elfFile, elfBytes, elfMemory, elfSymbols, elfStep, elfResult>>

LibrarySection ==
    /\ Reading("library", "sections") /\ get_shdr(elfNext.library) # Missing
    /\ LET s == get_shdr(elfNext.library)
       IN  \/ Relocates("library", s, TRUE)
           \/ StopsRelocating("library", s, TRUE)
           \/ /\ HasNone(s, TRUE)
              /\ elfMemory' = [elfMemory EXCEPT !.library = elf64_load_section(@, s, elfBytes.library)]
              /\ Advances("library")
              /\ UNCHANGED <<elfFile, elfBytes, elfSymbols, elfStep, elfResult>>

Finish(l) ==
    /\ elfStep[l] = (IF l = "kernel" THEN "relocations" ELSE "sections")
    /\ elfNext[l] > Len(elfFile.sections)
    /\ Returns(l, "loaded")
    /\ UNCHANGED <<elfFile, elfBytes, elfMemory, elfSymbols, elfNext>>

\* The addresses there are, and what was there before.
Addresses == UNION {UNION {f.sections[k].addr .. f.sections[k].addr + f.sections[k].size : k \in DOMAIN f.sections}
                        : f \in FileSet}
Old == -2

ImagesInit ==
    /\ elfFile \in FileSet
    /\ elfBytes = [l \in Loaders |-> elfFile.bytes]
    /\ elfMemory = [l \in Loaders |-> [a \in Addresses |-> Old]]
    /\ elfSymbols = <<>>
    /\ elfStep = [l \in Loaders |-> "check"]
    /\ elfNext = [l \in Loaders |-> 1]
    /\ elfResult = [l \in Loaders |-> "none"]

\* The command processor runs when the kernel has loaded it: the loaders share nothing, and
\* the kernel's turn is first.
Kernel == Check("kernel") \/ Outside("kernel") \/ KernelSection \/ KernelLoaded \/ load_rel_section \/ Finish("kernel")
Library == Check("library") \/ Outside("library") \/ LibrarySection \/ Finish("library")

ImagesNext ==
    \/ Kernel
    \/ elfStep.kernel \in {"done", "stopped"} /\ Library

ImagesSpec == ImagesInit /\ [][ImagesNext]_elfVars

-----------------------------------------------------------------------------
(* Properties.                                                             *)

Changes(s) == s.type = "RELA"
Loads(s) == s.alloc /\ s.type \in {"PROGBITS", "NOBITS"}

\* A file that both loaders load is the same program from either: the same bytes are at the
\* same addresses, unless a table of relocations comes before a section, which the library
\* then copies with its relocations, or a section is at 0 (elf.cxx:450, libio/elf.cxx:396).
LoadersAgree ==
    (\A l \in Loaders : elfResult[l] = "loaded") =>
        \/ \E j, k \in DOMAIN elfFile.sections :
               j < k /\ Changes(elfFile.sections[j]) /\ Loads(elfFile.sections[k])
        \/ \E k \in DOMAIN elfFile.sections : Loads(elfFile.sections[k]) /\ elfFile.sections[k].addr = 0
        \/ elfMemory.kernel = elfMemory.library

\* "After loading everything, proceed to perform relocations" (elf.cxx:499): when the kernel
\* is done a relocated section is in memory as it is in the file it has relocated.
RelocationsTakeEffect ==
    elfResult.kernel = "loaded" =>
        \A k \in DOMAIN elfFile.sections :
            LET s == elfFile.sections[k]
            IN  s.type = "PROGBITS" /\ Loads(s) /\ Inside(s.offset) =>
                    \A i \in 0 .. s.size - 1 :
                        elfMemory.kernel[s.addr + i] = elfBytes.kernel[s.offset + i + 1]

\* "Get correct address" (elf.cxx:308): a symbol of the job is at an address of the program.
SymbolsInPlace ==
    \A i \in DOMAIN elfSymbols : \A j \in DOMAIN elfSymbols[i] :
        elfSymbols[i][j].address \in Addresses
=============================================================================
