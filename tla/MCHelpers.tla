------------------------------ MODULE MCHelpers ------------------------------
(***************************************************************************)
(* What the kernel and the C library are built from, one part at a time:   *)
(* the lists that grow, the ciphers, the strings, formatted output, the    *)
(* environment, the registry, the software GL and the readers of ELF       *)
(* files.  They share no state: a behaviour is one of the part that `part' *)
(* names, and the others stay as they began.                               *)
(***************************************************************************)
EXTENDS Lists, Crypto, Formats, Environ, Registry, Gl, Images

VARIABLE part

Parts == {"lists", "crypto", "strings", "formats", "environ", "registry", "gl", "images"}

pureVars == <<cryptoVars, stringVars, formatVars, envVars, registryVars, glVars, elfVars>>
allVars == <<part, vars, pureVars>>

\* The parts with many initial states, when a behaviour is not theirs.
CryptoAsleep ==
    cipher = None /\ key = None /\ data = None /\ tables = None /\ out = None /\ back = None /\ stage = "none"

StringsAsleep == made = "nothing" /\ asked = None /\ answer = None /\ cells = None /\ spilt = FALSE

FormatsAsleep ==
    /\ printer = "none" /\ printing = "none"
    /\ bufSize = 0 /\ format = None /\ at = 0 /\ text = None /\ length = 0 /\ reach = 0 /\ console = None

ImagesAsleep ==
    /\ elfFile = None /\ elfBytes = None /\ elfMemory = None /\ elfSymbols = <<>>
    /\ elfStep = None /\ elfNext = None /\ elfResult = [l \in Loaders |-> "none"]

HelpersInit ==
    /\ part \in Parts /\ Init /\ EnvironInit /\ RegistryInit /\ GlInit
    /\ IF part = "crypto" THEN CryptoInit ELSE CryptoAsleep
    /\ IF part = "strings" THEN StringsInit ELSE StringsAsleep
    /\ IF part = "formats" THEN FormatsInit ELSE FormatsAsleep
    /\ IF part = "images" THEN ImagesInit ELSE ImagesAsleep

PureNext ==
    \/ part = "crypto" /\ CryptoNext /\ UNCHANGED <<stringVars, formatVars, envVars, registryVars, glVars, elfVars>>
    \/ part = "strings" /\ StringsNext /\ UNCHANGED <<cryptoVars, formatVars, envVars, registryVars, glVars, elfVars>>
    \/ part = "formats" /\ FormatsNext /\ UNCHANGED <<cryptoVars, stringVars, envVars, registryVars, glVars, elfVars>>
    \/ part = "environ" /\ EnvironNext /\ UNCHANGED <<cryptoVars, stringVars, formatVars, registryVars, glVars, elfVars>>
    \/ part = "registry" /\ RegistryNext /\ UNCHANGED <<cryptoVars, stringVars, formatVars, envVars, glVars, elfVars>>
    \/ part = "gl" /\ GlNext /\ UNCHANGED <<cryptoVars, stringVars, formatVars, envVars, registryVars, elfVars>>
    \/ part = "images" /\ ImagesNext /\ UNCHANGED <<cryptoVars, stringVars, formatVars, envVars, registryVars, glVars>>

HelpersNext ==
    /\ UNCHANGED part
    /\ \/ part = "lists" /\ Next /\ UNCHANGED pureVars
       \/ PureNext /\ UNCHANGED vars

HelpersSpec == HelpersInit /\ [][HelpersNext]_allVars

\* No list is different from the other.
Symmetry == Permutations(Names)

-----------------------------------------------------------------------------
(* Values of the constants.                                                *)

MCShifts == [left |-> 1, right |-> 2, index |-> 1]
MCKeys == {<<0>>, <<1>>, <<0, 1>>, <<1, 1, 0>>}
MCXteaKeys == {[i \in 0 .. 3 |-> (5 * i + 2) % 16], [i \in 0 .. 3 |-> 15 - i]}

Item(whats, args) == {[what |-> w, arg |-> v] : w \in whats, v \in args}

\* Alone: every conversion over the digits of its base, and every character; together: some
\* that end at, before and behind the end of the buffer, and the end of a line.
Alone ==
    Item({"c"}, 1 .. 127) \cup Item({"i", "l"}, -17 .. 17) \cup Item({"f", "lf", "llf"}, -33 .. 33)
        \cup Item({"u", "zu", "x", "X", "o", "b", "p", "lx", "llx", "lo"}, {0, 1, 7, 8, 10, 15, 16, 40})
Together ==
    Item({"i"}, {-12}) \cup Item({"s"}, {<<>>, <<97, 33, 48>>, <<47, 13, 10>>}) \cup Item({"c", "unknown"}, {33})
        \cup Item({"word"}, {1}) \cup Item({"percent"}, {0})
MCFormats == [1 .. 1 -> Alone] \cup [1 .. 2 -> Together] \cup [1 .. 3 -> Together]
MCWords == <<<<97, 98, 99>>>>

MCEnvNames == {<<65>>, <<66>>, <<65, 66>>, <<66, 65>>, <<>>, <<65, 61>>}
MCEnvValues == {<<49>>, <<50>>}

MCRegistryNames == {<<65>>, <<65, 66>>, <<66, 65>>}

MCGlBits == [b |-> 2, s |-> 3, i |-> 4]
MCGlSamples == {<<"least", "most", "none", "most">>, <<"most", "none", "least", "none">>}

\* Sections of every kind that is read, in every order; files that end before their headers do.
Shdr(t, loaded, a, off, len, of, linked, each, rows) ==
    [type |-> t, alloc |-> loaded, addr |-> a, offset |-> off, size |-> len, info |-> of,
     link |-> linked, entsize |-> each, entries |-> rows]
Rel(t, off, add) == [type |-> t, offset |-> off, addend |-> add]
Sym(t, name, abs, v) == [type |-> t, name |-> name, absolute |-> abs, value |-> v]
Sects == {
  Shdr("PROGBITS", TRUE, 4, 0, 4, 1, 1, 1, <<>>),
  Shdr("PROGBITS", FALSE, 8, 0, 2, 1, 1, 1, <<>>),
  Shdr("PROGBITS", TRUE, 8, 4, 3, 1, 1, 1, <<>>),
  Shdr("PROGBITS", TRUE, 0, 4, 2, 1, 1, 1, <<>>),
  Shdr("PROGBITS", TRUE, 8, 20, 2, 1, 1, 1, <<>>),
  Shdr("NOBITS", TRUE, 12, 8, 3, 1, 1, 1, <<>>),
  Shdr("NOBITS", TRUE, 12, 8, 0, 1, 1, 1, <<>>),
  Shdr("RELA", FALSE, 0, 8, 5, 1, 1, 2, <<Rel("S390_8",0,3),Rel("S390_12",2,-1),Rel("S390_16",1,7)>>),
  Shdr("RELA", FALSE, 0, 7, 5, 3, 1, 2, <<Rel("S390_32",0,3),Rel("S390_JMP_SLOT",0,1), Rel("S390_8",0,3)>>),
  Shdr("REL", FALSE, 0, 8, 1, 2, 1, 2, <<Rel("S390_8",0,3)>>),
  Shdr("SYMTAB", FALSE, 0, 8, 3, 1, 1, 1, <<Sym("FUNC",1,FALSE,4),Sym("OBJECT",9,TRUE,5),Sym("NOTYPE",1,FALSE,4)>>),
  Shdr("SYMTAB", FALSE, 0, 8, 3, 1, 4, 1, <<Sym("FUNC",1,FALSE,4),Sym("OBJECT",9,TRUE,5),Sym("NOTYPE",1,FALSE,4)>>)
}
Contents == <<1,2,3,0,1,2,3,0,1,2>>
File(v, h, p, ss) ==
    [valid |-> v, headers |-> h, names |-> 1, programs |-> p, bytes |-> Contents,
     sections |-> ss]
Some(n) == {q \in [1 .. n -> Sects] : \A i, j \in 1 .. n : i # j => q[i] # q[j]}
MCFileSet ==
    {File(TRUE, 3, <<"LOAD">>, ss) : ss \in Some(3)} \cup {File(FALSE, 1, <<>>, ss) : ss \in Some(1)}
        \cup {File(TRUE, h, p, ss) : h \in {1, 2}, p \in {<<"LOAD", "INTERP">>, <<"outside", "INTERP">>}, ss \in Some(2)}
        \cup {File(TRUE, h, <<>>, ss) : h \in {1}, ss \in Some(2)}
=============================================================================
