------------------------------- MODULE Formats -------------------------------
(***************************************************************************)
(* Formatted output: the kernel's vsnprintf and its way to the operator's  *)
(* console (kernel/printf.cxx), and the library's vsnprintf with the       *)
(* conversions of numbers to text and back (libio/stdio.cxx, stdlib.cxx).  *)
(* A step is one turn of the loop over the format.                         *)
(*                                                                         *)
(* A format is a sequence of items: a conversion with its argument, or a   *)
(* character.  Characters are codes.  A fraction is a number of            *)
(* sixteenths.  A string that is an argument has no words of the kernel's  *)
(* dictionary in it.                                                       *)
(***************************************************************************)
EXTENDS Strings

CONSTANTS
    FormatSet,  \* the formats that are printed
    RoomSet,    \* n: sizes of the buffer
    Dictionary,      \* common_dict: texts by their number
    LineLength, \* characters of a line of the console, 80
    Garbage     \* what a place nobody has written to may hold

ASSUME FormatsAssumption ==
    RoomSet \subseteq Nat \ {0} /\ Garbage \subseteq Nat /\ LineLength \in Nat \ {0, 1}

VARIABLES
    printer,   \* whose vsnprintf it is, "kernel" or "library"
    bufSize,   \* n
    format,    \* the items
    at,        \* the next of them
    text,      \* the string in the buffer so far
    length,    \* i
    reach,     \* the last cell of the buffer that was written
    console,   \* what the operator is shown
    printing   \* "loop", "end", "done"

formatVars == <<printer, bufSize, format, at, text, length, reach, console, printing>>

Space == 32
Hyphen == 45
Zero == 48
Point == 46

\* The conversions of numbers and their bases.  A long without a letter is in base 16.
BaseOf == [i |-> 10, u |-> 10, zu |-> 10, p |-> 16, x |-> 16, X |-> 16, lx |-> 16, llx |-> 16,
           l |-> 16, o |-> 8, lo |-> 8, b |-> 2]
KernelNumbers == {"i", "u", "p", "x"}

\* The last digits come first.  Those above 9 are capital letters.
RECURSIVE DigitsOf(_, _)
DigitsOf(v, base) ==
    LET d == v % base
        c == IF d >= 10 THEN d - 10 + 65 ELSE d + Zero
    IN  IF v = 0 THEN <<>> ELSE <<c>> \o DigitsOf(v \div base, base)

AbsoluteOf(v) == IF v < 0 THEN -v ELSE v
SignOf(v) == IF v < 0 THEN <<Hyphen>> ELSE <<>>

Upto(n, s) == SubSeq(s, 1, Min({n, Len(s)}))

-----------------------------------------------------------------------------
(* The kernel.                                                             *)

\* numbuf[j - k] for k from 0: a place that was not written, then all digits but the last.
KernelNumber(v, base, junk, left) ==
    IF v = 0 THEN <<Zero>>
    ELSE LET digits == DigitsOf(AbsoluteOf(v), base)
         IN  Upto(left, SignOf(v) \o <<junk>> \o Reverse(Tail(digits)))

\* A word, with a space before it unless there happens to be one already.
KernelWord(k, junk, left) ==
    LET word == Dictionary[k]
    IN  (IF junk = Space THEN <<>> ELSE <<Space>>) \o Upto(left, word)

\* What an item puts into the buffer.  Before an unknown letter nothing is put, and the
\* letter is the next item.
KernelPuts(item, junk, left) ==
    CASE item.what \in KernelNumbers -> KernelNumber(item.arg, BaseOf[item.what], junk, left)
      [] item.what = "s" -> Upto(left, item.arg)
      [] item.what \in {"c", "char"} -> <<item.arg>>
      [] item.what = "word" -> KernelWord(item.arg, junk, left)
      [] OTHER -> <<>>

\* After each turn the end is written.
KernelTurn ==
    /\ printer = "kernel" /\ printing = "loop"
    /\ at <= Len(format) /\ length < bufSize - 1
    /\ \E junk \in IF format[at].what = "word" THEN {NUL} ELSE Garbage :
           text' = text \o KernelPuts(format[at], junk, bufSize - length)
    /\ length' = Len(text')
    /\ reach' = Max({reach, length' + 1})
    /\ at' = at + 1
    /\ UNCHANGED <<printer, bufSize, format, console, printing>>

KernelEnd ==
    /\ printer = "kernel" /\ printing = "loop"
    /\ at > Len(format) \/ length >= bufSize - 1
    /\ text' = Upto(bufSize - 1, text)
    /\ printing' = "end"
    /\ UNCHANGED <<printer, bufSize, format, at, length, reach, console>>

\* Mutant of LineOf: the stroke is not counted.
LineOfMessage(s) == <<97>> \o Convert(Upto(Min({Len(s), LineLength - 1}) - 1, s))

\* A line of the console: a stroke, and what there is room for.
LineOf(s) == <<97>> \o Convert(Upto(Min({Len(s) + 1, LineLength - 1}) - 1, s))

\* dputs without a terminal.
dputs ==
    /\ printer = "kernel" /\ printing = "end"
    /\ console' = LineOf(text)
    /\ printing' = "done"
    /\ UNCHANGED <<printer, bufSize, format, at, text, length, reach>>

-----------------------------------------------------------------------------
(* The library.                                                            *)

\* Mutant of libio_ulltoa: the digits as they come.
UlltoaBackwards(v, base) ==
    IF v = 0 THEN <<Zero>> ELSE SignOf(v) \o DigitsOf(AbsoluteOf(v), base)

libio_ulltoa(v, base) ==
    IF v = 0 THEN <<Zero>> ELSE SignOf(v) \o Reverse(DigitsOf(AbsoluteOf(v), base))

\* The fraction is multiplied until it is whole: zeros at its front are lost.
libio_llftoa(v) ==
    LET whole == AbsoluteOf(v) \div 16
        part == AbsoluteOf(v) % 16
        places == CHOOSE m \in 0 .. 4 : (part * 10^m) % 16 = 0 /\ \A k \in 0 .. m - 1 : (part * 10^k) % 16 # 0
        number(n) == libio_ulltoa(n, 10)
    IN  IF v = 0 THEN <<Zero, Point, Zero>>
        ELSE SignOf(v) \o number(whole) \o <<Point>> \o number((part * 10^places) \div 16)

LibraryPuts(item) ==
    CASE item.what = "X" -> [k \in DOMAIN libio_ulltoa(item.arg, 16) |-> toupper(libio_ulltoa(item.arg, 16)[k])]
      [] item.what \in DOMAIN BaseOf -> libio_ulltoa(item.arg, BaseOf[item.what])
      [] item.what \in {"f", "lf", "llf"} -> libio_llftoa(item.arg)
      [] item.what = "s" -> Upto(bufSize, item.arg)
      [] item.what \in {"c", "char"} -> <<item.arg>>
      [] item.what = "percent" -> <<37>>
      [] OTHER -> <<>>

\* i is the length at the beginning of the turn, and counts single characters only.
LibraryTurn ==
    /\ printer = "library" /\ printing = "loop"
    /\ at <= Len(format) /\ length < bufSize - 1
    /\ text' = text \o LibraryPuts(format[at])
    /\ length' = Len(text) + (IF format[at].what \in {"c", "char", "percent"} THEN 1 ELSE 0)
    /\ reach' = Max({reach, Len(text') + 1})
    /\ at' = at + 1
    /\ UNCHANGED <<printer, bufSize, format, console, printing>>

LibraryEnd ==
    /\ printer = "library" /\ printing = "loop"
    /\ at > Len(format) \/ length >= bufSize - 1
    /\ printing' = "done"
    /\ UNCHANGED <<printer, bufSize, format, at, text, length, reach, console>>

\* Digits are added up in base 10, whatever the base is; the letters are no digits.
RunOf(s) ==
    LET others == {k \in DOMAIN s : ~isdigit(s[k])} IN IF others = {} THEN s ELSE SubSeq(s, 1, Min(others) - 1)
ValueOf(digits) == FoldLeft(LAMBDA n, c : 10 * n + c - Zero, 0, digits)

\* What is behind blanks, and behind a sign.
Unblanked(s) == SubSeq(s, strspn(s, <<Space, 9>>) + 1, Len(s))
Unsigned(s) == IF Char(s, 1) = Hyphen THEN Tail(s) ELSE s

atoi(s) ==
    LET t == Unsigned(Unblanked(s))
        u == IF Char(t, 1) = Zero THEN Tail(t) ELSE t
        hex == Char(t, 1) = Zero /\ Char(u, 1) = 120
        n == ValueOf(RunOf(IF hex THEN Tail(u) ELSE u))
    IN  IF Char(Unblanked(s), 1) = Hyphen THEN -n ELSE n

\* A fraction, as a number and the power of ten it is divided by.
atof(s) ==
    LET t == Unsigned(Unblanked(s))
        whole == RunOf(t)
        rest == SubSeq(t, Len(whole) + 1, Len(t))
        part == IF Char(rest, 1) = Point THEN RunOf(Tail(rest)) ELSE <<>>
        n == ValueOf(whole \o part)
    IN  [n |-> IF Char(Unblanked(s), 1) = Hyphen THEN -n ELSE n, scale |-> 10^Len(part)]

-----------------------------------------------------------------------------

\* What each knows; an item "unknown" is a percent sign before another letter.
KernelItems == KernelNumbers \cup {"s", "c", "char", "word", "unknown"}
LibraryItems == DOMAIN BaseOf \cup {"f", "lf", "llf", "s", "c", "char", "percent", "unknown"}

FormatsInit ==
    /\ printer \in {"kernel", "library"}
    /\ bufSize \in RoomSet
    /\ format \in {f \in FormatSet : \A k \in DOMAIN f :
                      f[k].what \in (IF printer = "kernel" THEN KernelItems ELSE LibraryItems)}
    /\ at = 1 /\ text = <<>> /\ length = 0 /\ reach = 1
    /\ console = <<>>
    /\ printing = "loop"

FormatsNext == KernelTurn \/ KernelEnd \/ dputs \/ LibraryTurn \/ LibraryEnd

FormatsSpec == FormatsInit /\ [][FormatsNext]_formatVars

-----------------------------------------------------------------------------
(* Properties.                                                             *)

\* The number whose digits, the first of them first, a text has in a base.
NumberIn(s, base) ==
    LET value(c) == IF c >= 65 THEN c - 65 + 10 ELSE c - Zero
        n == FoldLeft(LAMBDA k, c : base * k + value(c), 0, Unsigned(s))
    IN  IF Char(s, 1) = Hyphen THEN -n ELSE n

\* A text is the pieces one after the other, each a piece for its item.
Pieces(s, items, Fits(_, _)) ==
    \E cuts \in [0 .. Len(items) -> 0 .. Len(s)] :
        /\ cuts[0] = 0 /\ cuts[Len(items)] = Len(s)
        /\ \A k \in DOMAIN items :
               cuts[k - 1] <= cuts[k] /\ Fits(items[k], SubSeq(s, cuts[k - 1] + 1, cuts[k]))

Printed == printer = "library" /\ printing = "done" /\ at > Len(format)

\* What the library prints with room to spare is one piece for each item: numbers in their
\* base without zeros in front, strings as they are.  A number that was printed alone is
\* read back by atoi, and a fraction by atof unless it has a zero behind its point.
PrintsWhatItIsGiven ==
    /\ Printed /\ reach <= bufSize =>
           Pieces(text, format, LAMBDA item, s :
               CASE item.what \in DOMAIN BaseOf ->
                        /\ NumberIn(s, BaseOf[item.what]) = item.arg
                        /\ Len(s) > 0 /\ (Char(Unsigned(s), 1) = Zero => s = <<Zero>>)
                 [] item.what = "s" -> s = item.arg
                 [] item.what \in {"c", "char"} -> s = <<item.arg>>
                 [] item.what = "percent" -> s = <<37>>
                 [] item.what \in {"f", "lf", "llf"} -> Point \in ToSet(s)
                 [] OTHER -> s = <<>>)
    /\ Printed /\ Len(format) = 1 =>
           LET item == format[1]
           IN  /\ item.what \in {"i", "u", "zu"} => atoi(text) = item.arg
               /\ item.what \in {"f", "lf", "llf"} /\ (item.arg % 16 = 0 \/ AbsoluteOf(item.arg) % 16 >= 2) =>
                      atof(text).n * 16 = item.arg * atof(text).scale

\* What a character is on its way to EBCDIC and back: the tables have SUB for some, the line
\* feed and the stroke among them, and a quotation mark for BEL.
Shown(c) == IF c \in {4, 5, 6, 8, 9, 10, 47} THEN 26 ELSE IF c = 7 THEN 34 ELSE c

\* A message of the kernel that has no numbers in it reaches the operator, up to what the
\* buffer and the line have room for: words with the spaces that part them, and each
\* character in its place, a line feed and a stroke as SUB and all others that can be
\* printed, and the carriage return, as they are.
MessagesArrive ==
    printer = "kernel" /\ printing = "done" /\ (\A k \in DOMAIN format : format[k].what \notin KernelNumbers) =>
        LET whole == FlattenSeq([k \in DOMAIN format |->
                         CASE format[k].what = "s" -> format[k].arg
                           [] format[k].what \in {"c", "char"} -> <<format[k].arg>>
                           [] format[k].what = "word" -> <<Space>> \o Dictionary[format[k].arg]
                           [] OTHER -> <<>>])
            cut == Upto(Min({bufSize - 1, LineLength - 2}), whole)
        IN  ConvertBack(Tail(console)) = [i \in DOMAIN cut |-> Shown(cut[i])]

\* "Blank out newlines" (printf.cxx:236).
NewlinesAreBlank ==
    printer = "kernel" /\ printing = "done" =>
        \A i \in 2 .. Len(console) : text[i - 1] \in {10, 13} => console[i] = ToEbcdic(Space)

\* The kernel prints the numbers it is given.
KernelPrintsNumbers ==
    printer = "kernel" /\ printing = "done" /\ Len(format) = 1 /\ format[1].what \in KernelNumbers /\ reach < bufSize =>
        NumberIn(text, BaseOf[format[1].what]) = format[1].arg

\* "Truncate index ... Null terminate" (printf.cxx:216): nothing is written behind the buffer.
StaysInBuffer == printer = "kernel" => reach <= bufSize

\* "Convert a string into a float" (stdlib.cxx:70): every fraction is read back.
FractionsSurvive ==
    Printed /\ Len(format) = 1 /\ format[1].what = "f" =>
        atof(text).n * 16 = format[1].arg * atof(text).scale

\* "Obtain the length and truncate" (printf.cxx:123; the library computes the same length and
\* does not use it).
LibraryStaysInBuffer == printer = "library" => reach <= bufSize

\* base = 16 (stdlib.cxx:38): a hexadecimal number is read as one.
ReadsHexadecimal ==
    Printed /\ Len(format) = 1 /\ format[1].what = "x" /\ reach <= bufSize =>
        atoi(<<Zero, 120>> \o text) = format[1].arg
=============================================================================
