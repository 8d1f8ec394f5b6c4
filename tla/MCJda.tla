------------------------------- MODULE MCJda ----------------------------------
(* Instances of Jda for TLC.                                                 *)
EXTENDS Jda

Builtins == <<"PUSH", "EXEC", "SIN", "POPM", "GETMAIN", "POP", "DUP", "INPUT", "STRING", "NUMBER",
              "OPENFILE", "PARPGM", "RESIZEMAIN", "FREEMAIN", "CPI">>
Xs == Id("X")
Ys == Id("Y")
Eq == Sign("=")
Comma == Sign(",")
Open == Sign("(")
Close == Sign(")")

\* X and Y stand for names such as AD and BC.
SameSum(a, b) == a = b \/ {a, b} = {"X", "Y"}

\* Every line of up to three tokens.
Short == UNION {[1 .. n -> {Xs, Eq, Comma, Open, Close, Num(1), Str("s"), Sign("*"), Sign("bad")}]
                  : n \in 1 .. 3}

\* Assignments of four numbers.
Ops == {Sign("+"), Sign("-"), Sign("*"), Sign("/")}
Sums == {<<Xs, Eq, Num(a), o1, Num(2), o2, Num(b), o3, Num(1)>> :
            a \in {7}, b \in {0, 3}, o1 \in Ops, o2 \in Ops, o3 \in {Sign("-"), Sign("*")}}

\* Calls, one within the other.
Names == {Id("PUSH"), Id("SIN"), Id("EXEC")}
Calls == {<<f, Open, Num(1), Comma, g, Open, a, Close, Close>> :
            f \in Names, g \in Names, a \in {Num(2), Str("s"), Xs}}
         \cup {<<f, Open, g, Open, Num(1), Comma, a, Close, Comma, Num(0), Close>> :
                f \in Names, g \in Names, a \in {Num(2), Str("s")}}
         \cup {<<Ys, Eq, f, Open, a, Close>> : f \in Names, a \in {Num(0), Str("s")}}
         \cup {<<Id(b), Open, a, Comma, Num(1), Close>> : b \in ToSet(Builtins), a \in {Num(0), Str("s")}}
         \cup {<<Id(b), Open, Close>> : b \in ToSet(Builtins)}
         \cup {<<Id("SIN"), Open, Num(1), Comma, Num(1), Close, Id("GETMAIN"), Id(b)>> : b \in ToSet(Builtins)}

AllLines == Short \cup Sums \cup Calls

\* Assignments of a number to one name.
Assignments == {<<Xs, Eq, Num(n)>> : n \in 1 .. 3}

SomeScripts == {<< <<Sign("*"), Num(1)>> >>,
                << <<Xs, Eq, Num(5)>>, <<Sign("*"), Sign("bad")>>, <<Xs, Eq, Sign("bad")>>, <<Xs>> >>}
=============================================================================
