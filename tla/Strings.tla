------------------------------- MODULE Strings -------------------------------
(***************************************************************************)
(* Strings and characters, as the kernel (kernel/storage.hxx, locale.hxx,  *)
(* locale.cxx) and the C library (string.inl, strings.inl, string.cxx,     *)
(* strings.cxx, ctype.cxx, wctype.cxx, libgen.cxx) have them.  A program   *)
(* makes one call: a question about two strings, a copy into a buffer, or  *)
(* a translation of a text.                                                *)
(*                                                                         *)
(* A string is a sequence of character codes without NUL; Char(s, i) is    *)
(* what is in storage at its i-th place.  A pointer into a string is a     *)
(* place in it, and NoPlace the null pointer.                              *)
(***************************************************************************)
EXTENDS Integers, Sequences, FiniteSets, SequencesExt, FiniteSetsExt

CONSTANTS
    Alphabet,    \* codes of the characters that strings are made of
    MaxLength,   \* bound on the length of strings
    Buffer       \* cells of the buffer that copies go to

ASSUME StringsAssumption ==
    /\ Alphabet \subseteq 1 .. 127
    /\ {MaxLength, Buffer} \subseteq Nat

VARIABLES
    made,    \* the call that was made
    asked,   \* the strings and the number it is about
    answer,  \* what the questions returned
    cells,   \* the storage that a copy writes to
    spilt    \* it has written behind that storage

stringVars == <<made, asked, answer, cells, spilt>>

NUL == 0
NoPlace == 0
Nothing == -1

Char(s, i) == IF i > Len(s) THEN NUL ELSE s[i]

\* The first place of s from which on the condition holds; NoPlace if there is none.
FirstPlace(s, P(_)) ==
    LET there == {i \in DOMAIN s : P(i)} IN IF there = {} THEN NoPlace ELSE Min(there)

-----------------------------------------------------------------------------
(* Characters.                                                             *)

islower(c) == c \in 97 .. 122
isupper(c) == c \in 65 .. 90
isdigit(c) == c \in 48 .. 57
isalpha(c) == islower(c) \/ isupper(c)
isalnum(c) == isalpha(c) \/ isdigit(c)
isspace(c) == c = 32 \/ c \in 9 .. 13
ispunct(c) == c \in {44, 46, 58, 59}
toupper(c) == IF islower(c) THEN c - 32 ELSE c
tolower(c) == IF isupper(c) THEN c + 32 ELSE c

\* The library makes the character small before it looks for a capital.
isxdigit(c) == isdigit(tolower(c)) \/ tolower(c) \in 65 .. 70

\* What the library says of a character, and, over again, of a wide one.
Classes(c) == [alnum |-> isalnum(c), upper |-> toupper(c), lower |-> tolower(c),
               space |-> isspace(c), punct |-> ispunct(c), xdigit |-> isxdigit(c)]
WideClasses(c) == Classes(c)

\* The kernel's locale makes a hexadecimal digit a capital first.
LocaleClasses(c) == [Classes(c) EXCEPT !.xdigit = isdigit(toupper(c)) \/ toupper(c) \in 65 .. 70]

\* asc2ebc and ebc2asc, the former as far as ASCII goes.
asc2ebc ==
    <<0, 1, 2, 3, 26, 9, 26, 127, 26, 26, 26, 11, 12, 13, 14, 15, 16, 17, 18, 19, 60,
      61, 50, 38, 24, 25, 63, 39, 28, 29, 30, 31, 64, 79, 127, 123, 91, 108, 80, 125, 77, 93,
      92, 78, 107, 96, 75, 97, 240, 241, 242, 243, 244, 245, 246, 247, 248, 249, 122, 94, 76, 126, 110,
      111, 124, 193, 194, 195, 196, 197, 198, 199, 200, 201, 209, 210, 211, 212, 213, 214, 215, 216, 217, 226,
      227, 228, 229, 230, 231, 232, 233, 74, 224, 90, 95, 109, 121, 129, 130, 131, 132, 133, 134, 135, 136,
      137, 145, 146, 147, 148, 149, 150, 151, 152, 153, 162, 163, 164, 165, 166, 167, 168, 169, 192, 106, 208,
      161, 7>>

ebc2asc ==
    <<0, 1, 2, 3, 26, 9, 26, 127, 26, 26, 26, 11, 12, 13, 14, 15, 16, 17, 18, 19, 26,
      26, 8, 26, 24, 25, 26, 26, 28, 29, 30, 31, 26, 26, 26, 26, 26, 10, 23, 27, 26, 26,
      26, 26, 26, 5, 6, 7, 26, 26, 22, 26, 26, 26, 26, 4, 26, 26, 26, 26, 20, 21, 26,
      26, 32, 26, 26, 26, 26, 26, 26, 26, 26, 26, 91, 46, 60, 40, 43, 33, 38, 26, 26, 26,
      26, 26, 26, 26, 26, 26, 93, 36, 42, 41, 59, 94, 45, 26, 26, 26, 26, 26, 26, 26, 26,
      26, 124, 44, 37, 95, 62, 63, 26, 26, 26, 26, 26, 26, 26, 26, 26, 96, 58, 35, 64, 39,
      61, 34, 26, 97, 98, 99, 100, 101, 102, 103, 104, 105, 26, 26, 26, 26, 26, 26, 26, 106, 107,
      108, 109, 110, 111, 112, 113, 114, 26, 26, 26, 26, 26, 26, 26, 126, 115, 116, 117, 118, 119, 120,
      121, 122, 26, 26, 26, 26, 26, 26, 26, 26, 26, 26, 26, 26, 26, 26, 26, 26, 26, 26, 26,
      26, 26, 26, 123, 65, 66, 67, 68, 69, 70, 71, 72, 73, 26, 26, 26, 26, 26, 26, 125, 74,
      75, 76, 77, 78, 79, 80, 81, 82, 26, 26, 26, 26, 26, 26, 92, 26, 83, 84, 85, 86, 87,
      88, 89, 90, 26, 26, 26, 26, 26, 26, 48, 49, 50, 51, 52, 53, 54, 55, 56, 57, 26, 26,
      26, 26, 26, 26>>

\* locale::convert from ASCII, and to it.
ToEbcdic(c) == asc2ebc[c + 1]
ToAscii(c) == ebc2asc[c + 1]

Convert(s) == [i \in DOMAIN s |-> ToEbcdic(s[i])]
ConvertBack(s) == [i \in DOMAIN s |-> ToAscii(s[i])]

-----------------------------------------------------------------------------
(* Questions.                                                              *)

strlen(s) == Len(s)

\* The bound is looked at after a character has been counted.
strnlen(s, n) == IF s = <<>> THEN 0 ELSE IF n = 0 THEN 1 ELSE Min({n, Len(s)})

\* What a comparison adds up over k characters.
Differences(s, t, k) == FoldLeft(LAMBDA d, i : d + Char(s, i) - Char(t, i), 0, [i \in 1 .. k |-> i])

memcmp(s, t, n) == Differences(s, t, n)

\* How far a comparison comes: the shorter one ends it.
Common(s, t, n) == Min({n, Len(s), Len(t)})

\* Mutant of strncmp: it asks whether there was room left, not whether the ends differ.
strncmpLeft(s, t, n) ==
    LET k == Common(s, t, n)
    IN  IF n - k > 0 THEN -1 ELSE Differences(s, t, k)

strncmp(s, t, n) ==
    LET k == Common(s, t, n)
    IN  IF Char(s, k + 1) # Char(t, k + 1) /\ n - k > 0 THEN -1 ELSE Differences(s, t, k)

strcmp(s, t) ==
    LET k == Common(s, t, Len(s))
    IN  IF Char(s, k + 1) # Char(t, k + 1) THEN -1 ELSE Differences(s, t, k)

\* storage_string::compare counts up from 0 in a loop that ends at 0.
storage_compare(s, t) == IF Char(s, 1) # Char(t, 1) THEN -1 ELSE 0

strcasecmp(s, t) ==
    IF Len(s) = Len(t) /\ \A i \in DOMAIN s : toupper(s[i]) = toupper(t[i]) THEN 0 ELSE 1

\* Whatever is behind the n characters must not be there.
strncasecmp(s, t, n) ==
    LET k == Common(s, t, n)
    IN  IF Len(s) = k /\ Len(t) = k /\ \A i \in 1 .. k : toupper(s[i]) = toupper(t[i]) THEN 0 ELSE 1

strchr(s, c) == FirstPlace(s, LAMBDA i : s[i] = c)
storage_find_char(s, c) == strchr(s, c)
index(s, c) == strchr(s, c)

strrchr(s, c) ==
    LET there == {i \in DOMAIN s : s[i] = c} IN IF there = {} THEN NoPlace ELSE Max(there)
rindex(s, c) == strrchr(s, c)

strspn(s, accept) ==
    LET end == FirstPlace(s, LAMBDA i : s[i] \notin ToSet(accept))
    IN  IF end = NoPlace THEN Len(s) ELSE end - 1
storage_span(s, accept) == strspn(s, accept)

\* It counts the characters that match, and ends at the first of them.
strcspn(s, reject) == IF ToSet(s) \cap ToSet(reject) = {} THEN 0 ELSE 1

strpbrk(s, accept) == FirstPlace(s, LAMBDA i : s[i] \in ToSet(accept))
storage_break_p(s, accept) == strpbrk(s, accept)

\* An empty needle is nowhere.
strstr(s, t) ==
    FirstPlace(s, LAMBDA i : s[i] = Char(t, 1) /\ strncmp(SubSeq(s, i, Len(s)), t, Len(t)) = 0)

\* basename also cuts at a dot.
basename(s) ==
    LET cuts == {i \in DOMAIN s : s[i] \in {92, 47, 46}}
    IN  IF cuts = {} THEN s ELSE SubSeq(s, Max(cuts) + 1, Len(s))

\* dirname copies from the place at which it has just put an end.
dirname(s) == IF strchr(s, 47) = NoPlace THEN <<46>> ELSE <<>>

\* ffs counts from 0, and 0 has none.
ffs(n) == IF n = 0 THEN 0 ELSE CHOOSE k \in 0 .. 31 : n % 2^k = 0 /\ (n \div 2^k) % 2 = 1

\* Errors by number; three numbers of errno.h are nobody's, and two share a message.
strerror(err) ==
    LET e == IF err < 0 THEN -err ELSE err
    IN  IF e \notin 1 .. 127 \ {24, 96, 125} THEN "No error"
        ELSE IF e = 49 THEN 48 ELSE e

-----------------------------------------------------------------------------
(* Copies.                                                                 *)

\* The text written over the cells, from a place on.
Over(store, at, text) ==
    [i \in DOMAIN store |-> IF i \in at .. at + Len(text) - 1 THEN text[i - at + 1] ELSE store[i]]

\* The string at the beginning of the cells.
StringIn(store) ==
    LET end == FirstPlace(store, LAMBDA i : store[i] = NUL)
    IN  IF end = NoPlace THEN store ELSE SubSeq(store, 1, end - 1)

\* s up to n characters, with its end.
Bounded(s, n) == Append(SubSeq(s, 1, Min({n, Len(s)})), NUL)

Copies == {"strcpy", "strncpy", "strcat", "strncat", "strdup", "strndup"}

\* Mutant of Allocated: no room for the end.
AllocatedExactly(f, s, n) ==
    CASE f = "strdup" -> Len(s) [] f = "strndup" -> Min({Len(s), n}) [] OTHER -> Buffer

\* strdup and strndup allocate what they write to; the others are given a buffer.
Allocated(f, s, n) ==
    CASE f = "strdup" -> Len(s) + 1 [] f = "strndup" -> Min({Len(s), n}) + 1 [] OTHER -> Buffer

\* The storage before the copy: the buffer holds t, and other characters behind it.
Before(f, s, t, n) ==
    LET fresh == [i \in 1 .. Allocated(f, s, n) |-> Nothing]
    IN  IF f \in {"strdup", "strndup"} THEN fresh ELSE Over(fresh, 1, Append(t, NUL))

\* Where a copy begins and what it writes; the bound is one less than what is written.
Place(f, t) == IF f \in {"strcat", "strncat"} THEN Len(t) + 1 ELSE 1
Text(f, s, n) == IF f \in {"strncpy", "strncat", "strndup"} THEN Bounded(s, n) ELSE Append(s, NUL)

-----------------------------------------------------------------------------
(* Calls.                                                                  *)

Strs(n) == UNION {[1 .. k -> Alphabet] : k \in 0 .. n}

StringsInit ==
    /\ asked \in [s : Strs(MaxLength), t : Strs(MaxLength - 1), n : 0 .. MaxLength]
    /\ made = "nothing"
    /\ answer = <<>>
    /\ cells = <<>>
    /\ spilt = FALSE

\* All questions about two strings at once.
Ask ==
    /\ made = "nothing"
    /\ made' = "questions"
    /\ LET s == asked.s
           t == asked.t
           n == asked.n
           c == Char(t, 1)
       IN  answer' =
               [length |-> strlen(s), bounded_length |-> strnlen(s, n),
                compare |-> strcmp(s, t), bounded |-> strncmp(s, t, n), names |-> storage_compare(s, t),
                bytes |-> memcmp(s, t, Common(s, t, n)),
                cases |-> strcasecmp(s, t), bounded_cases |-> strncasecmp(s, t, n),
                first |-> {strchr(s, c), index(s, c), storage_find_char(s, c)},
                last |-> {strrchr(s, c), rindex(s, c)},
                span |-> {strspn(s, t), storage_span(s, t)}, outside |-> strcspn(s, t),
                any |-> {strpbrk(s, t), storage_break_p(s, t)}, find |-> strstr(s, t),
                base |-> basename(s), dir |-> dirname(s), bit |-> ffs(n), error |-> strerror(-n),
                classes |-> [i \in DOMAIN s |-> {Classes(s[i]), WideClasses(s[i]), LocaleClasses(s[i])}],
                text |-> ConvertBack(Convert(s))]
    /\ UNCHANGED <<asked, cells, spilt>>

\* The copy of s, to t where there is a t.
Copy(f) ==
    /\ made = "nothing"
    /\ made' = f
    /\ LET before == Before(f, asked.s, asked.t, asked.n)
           text == Text(f, asked.s, asked.n)
           at == Place(f, asked.t)
       IN  /\ cells' = Over(before, at, text)
           /\ spilt' = (at + Len(text) - 1 > Len(before))
    /\ UNCHANGED <<asked, answer>>

StringsNext == Ask \/ \E f \in Copies : Copy(f)

StringsSpec == StringsInit /\ [][StringsNext]_stringVars

-----------------------------------------------------------------------------
(* Properties.                                                             *)

Answered == made = "questions"

\* Sums of differences can take different strings for equal, and do.  They never take
\* equal ones for different, bounded or not, whatever the case of letters; a string of
\* another length is never equal; and a string that occurs is found, at the first place
\* that has its first character and its sum, no later than where it occurs.
NeverMisses ==
    Answered =>
        LET s == asked.s
            t == asked.t
            upper(x) == [i \in DOMAIN x |-> toupper(x[i])]
            occurs == {i \in DOMAIN s : t # <<>> /\ IsPrefix(t, SubSeq(s, i, Len(s)))}
        IN  /\ s = t => answer.compare = 0 /\ answer.names = 0
            /\ Bounded(s, asked.n) = Bounded(t, asked.n) => answer.bounded = 0
            /\ upper(s) = upper(t) => answer.cases = 0 /\ answer.bounded_cases # Nothing
            /\ Len(s) # Len(t) => answer.compare # 0
            /\ occurs # {} => answer.find \in 1 .. Min(occurs)

\* A duplicate has room for what is written to it, with its end, for every bound below,
\* at and above the length; and each copy is the string up to the bound, behind what was
\* in the buffer if it is to be appended.
CopiesAreWhole ==
    made \in Copies =>
        /\ made \in {"strdup", "strndup"} => ~spilt
        /\ ~spilt => StringIn(cells) =
               (IF made \in {"strcat", "strncat"} THEN asked.t ELSE <<>>)
                   \o (IF made \in {"strncpy", "strncat", "strndup"}
                       THEN SubSeq(asked.s, 1, Min({asked.n, Len(asked.s)})) ELSE asked.s)

\* Both: what string.cxx answers and what it makes is what it was asked for.
StringsAsAsked == NeverMisses /\ CopiesAreWhole

\* "Maximum allowed characters" (string.inl): a bounded copy stays within its bound.
BoundIsKept ==
    made = "strncpy" /\ asked.t = <<>> => \A i \in DOMAIN cells : i > Max({asked.n, 1}) => cells[i] = Nothing

\* Users are found by name (user.cxx:67): another name is another name.
TellsNamesApart == Answered /\ asked.s # asked.t => answer.names # 0

\* Paths are texts like others.
PathsSurvive == Answered => answer.text = asked.s
=============================================================================
