-------------------------------- MODULE Jda -----------------------------------
(***************************************************************************)
(* The command processor (sys/jda): a line is read into tokens, the tokens *)
(* are put in reverse Polish order, calls and operators are evaluated on   *)
(* them with a stack of objects between, and then assignments are done.    *)
(* EXEC gives a script, whose lines are run the same way once the line     *)
(* that called it is done.                                                 *)
(*                                                                         *)
(* A line is a sequence of lexical tokens.  Numbers are integers, the      *)
(* fraction of a quotient dropped; what a mathematical function yields, a  *)
(* file holds or a user types is any of a set.  A use of memory that was   *)
(* freed and a jump to a null pointer stop the model.                      *)
(***************************************************************************)
EXTENDS Integers, Sequences, FiniteSets, SequencesExt

CONSTANTS
    Registered,  \* names of the builtins, in the order they are registered
    Lines,       \* the lines a user may type
    Scripts,     \* the files EXEC may read, each a sequence of lines
    Alike(_, _), \* names strcmp takes for equal: of one length, with the same sum of characters
    Results,     \* the numbers a mathematical function may yield
    Inputs,      \* the texts INPUT may read
    FOPEN_MAX,   \* the file descriptors
    MaxTokens,   \* bound on the tokens left from a line that failed, when the next is typed
    MaxObjects,  \* bound on the objects when a line is typed
    MaxDepth     \* scripts within scripts that the program's stack has room for

ASSUME JdaAssumption ==
    /\ Registered \in Seq(STRING)
    /\ \A j, k \in DOMAIN Registered : Alike(Registered[j], Registered[k]) <=> j = k
    /\ Results \subseteq Int
    /\ FOPEN_MAX \in Nat \ {0} /\ MaxTokens \in Nat /\ MaxObjects \in Nat /\ MaxDepth \in Nat

VARIABLES
    phase,    \* "line", "rpn", "values", "assign" or "done"
    pos,      \* the token the evaluation is at
    tokens,   \* ctx.tokens
    rpn,      \* outputs, operators and arg_counts of the conversion
    stack,    \* ctx.stacks
    objects,  \* ctx.objects
    exec,     \* ctx.exec_buf
    frames,   \* the scripts being run: the lines left of each, and whether its buffer is freed
    read,     \* the tokens the conversion began with (a history)
    stopped   \* memory was misused

vars == <<phase, pos, tokens, rpn, stack, objects, exec, frames, read, stopped>>

-----------------------------------------------------------------------------
(* Tokens and objects.                                                     *)

Token(type, num, text) == [type |-> type, num |-> num, text |-> text, args |-> 0, freed |-> FALSE]
Num(n) == Token("NUMBER", n, "")
Str(s) == Token("STRING", 0, s)
Id(s) == Token("IDENT", 0, s)
Sign(s) == Token(s, 0, "")

HasData(t) == t.type \in {"IDENT", "STRING", "FUNCTION"}
Operators == {"+", "-", "*", "/", "%", "^"}

Value(t) == [type |-> t.type, num |-> t.num, text |-> t.text]
NumValue(n) == Value(Num(n))
StrValue(s) == Value(Str(s))
Rawptr == [type |-> "RAWPTR", num |-> 0, text |-> ""]

\* A name that was reallocated under an object compares equal to anything or nothing.
Freed == "(freed)"

\* jda_get_object: the places a lookup may find.
Found(name) ==
    LET named == {k \in DOMAIN objects : Alike(objects[k].name, name)}
        torn == {k \in DOMAIN objects : objects[k].name = Freed}
        first == IF named = {} THEN 0 ELSE Min(named)
    IN  {first} \cup {k \in torn : first = 0 \/ k < first}

\* jda_tokens_delete frees the data of tokens, and leaves them to whoever called it.
Deleted(ts) == [k \in DOMAIN ts |-> IF HasData(ts[k]) THEN [ts[k] EXCEPT !.freed = TRUE] ELSE ts[k]]
DeletesTwice(ts) == \E k \in DOMAIN ts : ts[k].freed

Empty == [out |-> <<>>, ops |-> <<>>, counts |-> <<>>, error |-> "none"]
NoExec == [set |-> FALSE, by |-> 0, script |-> <<>>]

Init ==
    /\ phase = "line" /\ pos = 1
    /\ tokens = <<>> /\ rpn = Empty /\ stack = <<>> /\ read = <<>>
    /\ objects = [k \in DOMAIN Registered |->
                    [name |-> Registered[k],
                     value |-> [type |-> "ROUTINE", num |-> 0, text |-> Registered[k]]]]
    /\ exec = NoExec /\ frames = <<>>
    /\ stopped = FALSE

-----------------------------------------------------------------------------
(* jda_lex_line.                                                           *)

IsBad(lexeme) == lexeme.type = "bad"

\* An identifier before a parenthesis becomes a function; tokens left from before count.
Lexed(before, line) ==
    LET add(ts, lexeme) ==
            IF lexeme.type = "(" /\ ts # <<>> /\ ts[Len(ts)].type = "IDENT"
            THEN Append([ts EXCEPT ![Len(ts)].type = "FUNCTION"], lexeme)
            ELSE Append(ts, lexeme)
    IN  FoldLeft(add, before, line)

\* The loop over a script ends: whatever buffer the context holds is freed.
\* Mutant of EndScript: the loop does not leave.
FreesOnly == UNCHANGED frames /\ exec' = IF frames = <<>> THEN exec ELSE NoExec
EndScript ==
    LET top == Len(frames)
        marked == IF exec.set /\ exec.by \in 1 .. top THEN [frames EXCEPT ![exec.by].freed = TRUE]
                  ELSE frames
    IN  IF top = 0 THEN UNCHANGED <<frames, exec>>
        ELSE frames' = SubSeq(marked, 1, top - 1) /\ exec' = NoExec

\* A line is read; left is what is to run after it.  A line refused ends the script it is of.
Lex(line, left) ==
    LET bad == SelectInSeq(line, IsBad)
        before == Lexed(tokens, IF bad = 0 THEN line ELSE SubSeq(line, 1, bad - 1))
    IN  /\ IF line # <<>> /\ Head(line).type = "*"
           THEN /\ frames' = left
                /\ UNCHANGED <<phase, tokens, read, exec, stopped>>
           ELSE IF bad = 0
           THEN /\ tokens' = before /\ read' = before
                /\ phase' = "rpn" /\ frames' = left
                /\ UNCHANGED <<exec, stopped>>
           ELSE /\ tokens' = Deleted(before)
                /\ stopped' = DeletesTwice(before)
                /\ EndScript
                /\ UNCHANGED <<phase, read>>
        /\ UNCHANGED <<pos, rpn, stack, objects>>

\* jda_term: a line that is not empty.
TypeLine ==
    /\ phase = "line" /\ frames = <<>>
    /\ Len(objects) < MaxObjects
    /\ \E line \in Lines :
        /\ line # <<>> /\ Len(tokens) <= MaxTokens
        /\ Lex(line, <<>>)

\* The scripts once the line on top is read.
AfterLine == [frames EXCEPT ![Len(frames)].lines = Tail(@)]

\* The next line of a script, or its end; its buffer may be freed already.
ScriptLine ==
    LET top == Len(frames)
    IN  /\ phase = "line" /\ top > 0
        /\ \/ /\ frames[top].freed
              /\ stopped' = TRUE
              /\ UNCHANGED <<phase, pos, tokens, rpn, stack, objects, exec, frames, read>>
           \/ /\ frames[top].lines # <<>>
              /\ Lex(Head(frames[top].lines), AfterLine)
           \/ /\ frames[top].lines = <<>>
              /\ EndScript
              /\ UNCHANGED <<phase, pos, tokens, rpn, stack, objects, read, stopped>>

-----------------------------------------------------------------------------
(* jda_lexer_to_rpn.                                                       *)

\* The first operand within a parenthesis is an argument.
Counted(counts) ==
    IF counts # <<>> /\ counts[Len(counts)] = 0 THEN [counts EXCEPT ![Len(counts)] = 1] ELSE counts

\* Operators go to the output until a left parenthesis is on top.
Unstacked(acc) ==
    LET k == SelectLastInSeq(acc.ops, LAMBDA t : t.type = "(")
    IN  [acc EXCEPT !.out = @ \o Reverse(SubSeq(acc.ops, k + 1, Len(acc.ops))),
                    !.ops = SubSeq(@, 1, k),
                    !.error = IF k = 0 THEN "refused" ELSE @]

\* The parenthesis is discarded, and the function before it takes the count on top.
Called(acc) ==
    LET ops == Front(acc.ops)
    IN  IF acc.error # "none" THEN acc
        ELSE IF ops = <<>> \/ Last(ops).type # "FUNCTION" THEN [acc EXCEPT !.ops = ops]
        ELSE [acc EXCEPT !.ops = Front(ops), !.counts = Front(@),
                         !.out = Append(@, [Last(ops) EXCEPT !.args = Last(acc.counts)])]

\* Mutant of Shift: the comma of an argument list is not counted.
ShiftNoCount(acc, t) ==
    CASE acc.error # "none" -> acc
      [] t.type \in {"NUMBER", "IDENT", "=", "STRING"} ->
            [acc EXCEPT !.counts = Counted(@), !.out = Append(@, t)]
      [] t.type \in {".", ":"} -> [acc EXCEPT !.out = Append(@, t)]
      [] t.type = "FUNCTION" -> [acc EXCEPT !.counts = Counted(@), !.ops = Append(@, t)]
      [] t.type = "," -> IF acc.ops = <<>> THEN [acc EXCEPT !.error = "refused"] ELSE Unstacked(acc)
      [] t.type = "(" -> [acc EXCEPT !.counts = Append(@, 0), !.ops = Append(@, t)]
      [] t.type = ")" -> IF acc.ops = <<>> THEN [acc EXCEPT !.error = "undefined"]
                         ELSE Called(Unstacked(acc))
      [] OTHER -> [acc EXCEPT !.ops = Append(@, t)]
Shift(acc, t) ==
    CASE acc.error # "none" -> acc
      [] t.type \in {"NUMBER", "IDENT", "=", "STRING"} ->
            [acc EXCEPT !.counts = Counted(@), !.out = Append(@, t)]
      [] t.type \in {".", ":"} -> [acc EXCEPT !.out = Append(@, t)]
      [] t.type = "FUNCTION" -> [acc EXCEPT !.counts = Counted(@), !.ops = Append(@, t)]
      [] t.type = "," ->
            IF acc.ops = <<>> \/ acc.counts = <<>> THEN [acc EXCEPT !.error = "refused"]
            ELSE Unstacked([acc EXCEPT !.counts[Len(acc.counts)] = @ + 1])
      [] t.type = "(" -> [acc EXCEPT !.counts = Append(@, 0), !.ops = Append(@, t)]
      [] t.type = ")" -> IF acc.ops = <<>> THEN [acc EXCEPT !.error = "undefined"]
                         ELSE Called(Unstacked(acc))
      [] OTHER -> [acc EXCEPT !.ops = Append(@, t)]

\* What is left of the operators goes to the output, unless a parenthesis is among it.
\* Mutant of Emptied: it goes there first in, first out.
InOrder(acc) == [acc EXCEPT !.out = @ \o acc.ops]
\* Mutant of Emptied: a parenthesis is dropped.
Lenient(acc) == [acc EXCEPT !.out = @ \o Reverse(acc.ops)]
Emptied(acc) ==
    LET k == SelectLastInSeq(acc.ops, LAMBDA t : t.type = "(")
    IN  [acc EXCEPT !.out = @ \o Reverse(SubSeq(acc.ops, k + 1, Len(acc.ops))),
                    !.error = IF k = 0 THEN "none" ELSE "refused"]

ConvertToken ==
    /\ phase = "rpn" /\ pos <= Len(tokens) /\ rpn.error = "none"
    /\ rpn' = Shift(rpn, tokens[pos]) /\ pos' = pos + 1
    /\ stopped' = (rpn'.error = "undefined")
    /\ UNCHANGED <<phase, tokens, stack, objects, exec, frames, read>>

\* The output takes the place of the tokens, of a line that is refused too.
EndConversion ==
    LET acc == IF rpn.error = "none" THEN Emptied(rpn) ELSE rpn
    IN  /\ phase = "rpn" /\ (pos > Len(tokens) \/ rpn.error # "none")
        /\ tokens' = acc.out /\ rpn' = Empty /\ pos' = 1
        /\ IF acc.error = "none" /\ acc.out # <<>>
           THEN phase' = "values" /\ UNCHANGED <<exec, frames, read>>
           ELSE phase' = "line" /\ EndScript /\ read' = <<>>
        /\ UNCHANGED <<stack, objects, stopped>>

-----------------------------------------------------------------------------
(* The builtins: what a call makes of the stack, whose top is its end.     *)

Effect(s, ret) == [stack |-> s, ret |-> ret, exec |-> exec, stop |-> FALSE]
Undefined == [Effect(<<>>, 0) EXCEPT !.stop = TRUE]

\* jda_object_to_integer, jda_object_to_number: a text is any number, a pointer is 0.
Numbers(v) == IF v.type = "NUMBER" THEN {v.num} ELSE IF v.type = "STRING" THEN Results ELSE {0}

\* A builtin that gives a value, one that takes the top before, and may fail with 0, and
\* one that takes a descriptor, and fails with -1.
Gives(s, values) == {Effect(Append(s, v), 1) : v \in values}
Takes(s, values, mayFail) ==
    IF s = <<>> THEN {Effect(s, 0)}
    ELSE Gives(Front(s), values) \cup (IF mayFail THEN {Effect(Front(s), 0)} ELSE {})
TakesFile(s, execs) ==
    IF s = <<>> THEN {Effect(s, -1)}
    ELSE {Effect(Front(s), -1)} \cup
         {[Effect(Front(s), 0) EXCEPT !.exec = e] :
            e \in {f \in execs : Numbers(Last(s)) \cap 0 .. FOPEN_MAX - 1 # {}}}

Silent == {"TEST", "STACKDUMP", "INFO", "CLEAR", "DUMP", "LOGOUT", "PUSH", "PRINT", "HELP",
           "LIST", "MKCAT", "GET_USER", "GET_USERNAME"}
Mathematical == {"SQRT", "FACTORIAL", "SIN", "COS", "TAN", "SINH", "COSH", "TANH", "REAL", "IMGY"}

Mathematics(s) == Takes(s, {NumValue(n) : n \in Results}, FALSE)
Constants(s) == Gives(s, {NumValue(n) : n \in Results})

Getmain(s) == Takes(s, {Rawptr}, TRUE)
Resizemain(s) ==
    IF Len(s) < 2 THEN {Effect(<<>>, 0)}
    ELSE Takes(Front(s), IF s[Len(s) - 1] = Rawptr THEN {Rawptr} ELSE {}, TRUE)
\* The object frees what it points to, and then it is freed once more.
Freemain(s) == IF s # <<>> /\ Last(s) = Rawptr THEN {Undefined} ELSE Takes(s, {}, TRUE)

Pop(s) == Takes(s, {}, TRUE)
\* A negative count runs down until it overflows.
Popm(s) ==
    IF s = <<>> THEN {Effect(s, 0)}
    ELSE {IF n < 0 THEN Undefined ELSE Effect(SubSeq(s, 1, Len(s) - 1 - n), 0) : n \in Numbers(Last(s))}
Dup(s) == IF s = <<>> THEN {Effect(s, 0)} ELSE Gives(s, {Last(s)})
Input(s) == {Effect(s, 0)} \cup Gives(s, {StrValue(text) : text \in Inputs})

String(s) ==
    IF s = <<>> THEN Gives(s, {StrValue("")})
    ELSE {Effect(Append(Front(s), IF Last(s).type = "STRING" THEN Last(s) ELSE StrValue("digits")), 0)}
Number(s) ==
    IF s = <<>> THEN Gives(s, {NumValue(0)})
    ELSE Takes(s, {NumValue(n) : n \in Numbers(Last(s))}, FALSE)

OpenFile(s) == Takes(s, {NumValue(fd) : fd \in 0 .. FOPEN_MAX - 1}, TRUE)
Exec(s) == TakesFile(s, {[set |-> TRUE, by |-> 0, script |-> f] : f \in Scripts})
Program(s) == TakesFile(s, {exec})

\* The routine a name was registered with.
Effects(name, s) ==
    CASE name \in Silent -> {Effect(s, 0)}
      [] name \in Mathematical -> Mathematics(s)
      [] name \in {"CEULER", "CPI"} -> Constants(s)
      [] name = "GETMAIN" -> Getmain(s)
      [] name = "RESIZEMAIN" -> Resizemain(s)
      [] name = "FREEMAIN" -> Freemain(s)
      [] name = "POP" -> Pop(s)
      [] name = "POPM" -> Popm(s)
      [] name = "DUP" -> Dup(s)
      [] name = "INPUT" -> Input(s)
      [] name = "STRING" -> String(s)
      [] name = "NUMBER" -> Number(s)
      [] name = "EXEC" -> Exec(s)
      [] name \in {"OPENFILE", "NEWFILE"} -> OpenFile(s)
      [] name \in {"PARPGM", "SEQPGM"} -> Program(s)

-----------------------------------------------------------------------------
(* jda_parse: first the names, the calls and the operators.                *)

Fail == phase' = "done" /\ UNCHANGED pos
Goto(p) == pos' = p /\ UNCHANGED phase
Stop == stopped' = TRUE /\ UNCHANGED <<phase, pos, tokens, stack, exec>>

\* jda_object_to_token: a pointer has no token.
HasToken(v) == v.type \in {"NUMBER", "STRING"}
Tokened(v, t) ==
    IF HasToken(v) THEN [t EXCEPT !.type = v.type, !.num = v.num, !.text = v.text] ELSE t

\* A name is replaced by its value, unless it is assigned to.  A routine is called on the
\* stack as it is, and then its text is copied from a null pointer.
Substitute(t) ==
    IF pos < Len(tokens) /\ tokens[pos + 1].type = "="
    THEN Goto(pos + 2) /\ UNCHANGED <<tokens, stack, exec, stopped>>
    ELSE IF t.freed THEN Stop
    ELSE \E k \in Found(t.text) :
         IF k = 0 THEN Fail /\ UNCHANGED <<tokens, stack, exec, stopped>>
         ELSE LET v == objects[k].value
              IN  IF v.type = "ROUTINE"
                  THEN /\ \E e \in Effects(v.text, stack) :
                            stack' = e.stack /\ exec' = e.exec /\ stopped' \in {e.stop, TRUE}
                       /\ tokens' = [tokens EXCEPT ![pos].type = "FUNCTION", ![pos].text = Freed]
                       /\ Goto(pos + 1)
                  ELSE /\ tokens' = [tokens EXCEPT ![pos] = Tokened(v, @)]
                       /\ UNCHANGED <<stack, exec, stopped>>
                       /\ IF HasToken(v) THEN Goto(pos + 1) ELSE Fail

\* The arguments of a call are the n tokens before it: they become objects up to the first
\* that cannot, and the data of those that are texts is freed.
Given(n) ==
    LET wrong == {j \in pos - n .. pos - 1 : tokens[j].type \notin {"NUMBER", "STRING"}}
    IN  pos - n .. (IF wrong = {} THEN pos ELSE Min(wrong)) - 1

\* The tokens after a call: its arguments are gone, its place has what is on top.
Returned(n, s) ==
    LET result == IF s = <<>> THEN tokens[pos] ELSE Tokened(Last(s), tokens[pos])
    IN  Append(SubSeq(tokens, 1, pos - n - 1), result) \o SubSeq(tokens, pos + 1, Len(tokens))

Invoke(v, n) ==
    LET marked == [j \in DOMAIN tokens |->
                    IF j \in Given(n) /\ HasData(tokens[j]) THEN [tokens[j] EXCEPT !.freed = TRUE]
                    ELSE tokens[j]]
        pushed == stack \o [j \in 1 .. n |-> Value(tokens[pos - n + j - 1])]
    IN  IF Cardinality(Given(n)) < n
        THEN /\ Fail /\ tokens' = marked
             /\ stack' = SubSeq(pushed, 1, Len(stack) + Cardinality(Given(n)))
             /\ UNCHANGED <<exec, stopped>>
        ELSE \E e \in Effects(v.text, pushed) :
             LET popped == IF e.stack = <<>> \/ e.ret < 0 THEN e.stack ELSE Front(e.stack)
             IN  /\ stack' = popped /\ exec' = e.exec /\ stopped' = e.stop
                 /\ IF e.ret < 0
                    THEN Fail /\ tokens' = marked
                    ELSE /\ tokens' = Returned(n, e.stack)
                         /\ IF e.stack # <<>> /\ ~HasToken(Last(e.stack))
                            THEN phase' = "done" /\ pos' = pos - n
                            ELSE Goto(pos - n + 1)

\* A call, once its arguments are on the stack: of what has no code, through a null pointer.
Call(t) ==
    IF t.freed THEN Stop
    ELSE \E k \in Found(t.text) :
         IF k = 0 \/ t.args >= pos THEN Fail /\ UNCHANGED <<tokens, stack, exec, stopped>>
         ELSE IF \/ \E j \in Given(t.args) : tokens[j].freed
                 \/ objects[k].value.type # "ROUTINE" /\ Cardinality(Given(t.args)) = t.args
         THEN Stop
         ELSE Invoke(objects[k].value, t.args)

Computed(op, l, r) ==
    CASE op = "+" -> l + r
      [] op = "-" -> l - r
      [] op = "*" -> l * r
      [] op = "/" -> IF l = 0 \/ r = 0 THEN 0 ELSE l \div r
      [] op = "%" -> IF l = 0 \/ r <= 0 THEN 0 ELSE l % r
      [] op = "^" -> IF r < 0 THEN 0 ELSE l ^ r

\* An operator takes the place of its operands, and is a number then.
Operate(t) ==
    /\ UNCHANGED <<stack, exec, stopped>>
    /\ IF pos <= 2 \/ \E j \in {pos - 2, pos - 1} : tokens[j].type # "NUMBER"
       THEN Fail /\ UNCHANGED tokens
       ELSE LET n == Computed(t.type, tokens[pos - 2].num, tokens[pos - 1].num)
            IN  /\ tokens' = Append(SubSeq(tokens, 1, pos - 3), Num(n))
                                \o SubSeq(tokens, pos + 1, Len(tokens))
                /\ Goto(pos - 2)

Evaluate ==
    /\ phase = "values"
    /\ UNCHANGED <<rpn, objects, frames, read>>
    /\ IF pos > Len(tokens)
       THEN phase' = "assign" /\ pos' = 1 /\ UNCHANGED <<tokens, stack, exec, stopped>>
       ELSE LET t == tokens[pos]
            IN  CASE t.type = "IDENT" -> Substitute(t)
                  [] t.type = "FUNCTION" -> Call(t)
                  [] t.type \in Operators -> Operate(t)
                  [] OTHER -> Goto(pos + 1) /\ UNCHANGED <<tokens, stack, exec, stopped>>

-----------------------------------------------------------------------------
(* jda_parse: the assignments, and the end of the line.                    *)

\* What is found under the name has its value overridden, and shares the name of the new
\* object, which is then reallocated; the new object is added after it.
\* Mutant of Assigned: the object that was there is left alone.
AddedOnly(name, v, k, moved) == Append(objects, [name |-> name, value |-> v])
Assigned(name, v, k, moved) ==
    LET shared == [name |-> IF moved THEN Freed ELSE name, value |-> v]
    IN  Append(IF k = 0 THEN objects ELSE [objects EXCEPT ![k] = shared],
               [name |-> name, value |-> v])

\* The value is what is on top of the stack, or else the token behind.
Assign ==
    LET isTarget == pos > 1 /\ tokens[pos - 1].type = "IDENT"
        name == tokens[pos - 1].text
        next == IF pos < Len(tokens) THEN tokens[pos + 1] ELSE Sign("none")
        value == IF stack = <<>> THEN Value(next) ELSE Last(stack)
    IN  IF ~isTarget \/ (stack = <<>> /\ next.type \notin {"NUMBER", "STRING"})
        THEN Fail /\ UNCHANGED <<tokens, stack, objects, stopped>>
        ELSE IF tokens[pos - 1].freed \/ (stack = <<>> /\ next.freed)
        THEN stopped' = TRUE /\ UNCHANGED <<phase, pos, tokens, stack, objects>>
        ELSE /\ \E k \in Found(name), moved \in BOOLEAN : objects' = Assigned(name, value, k, moved)
             /\ stack' = IF stack = <<>> THEN stack ELSE Front(stack)
             /\ tokens' = IF stack = <<>> THEN RemoveAt(tokens, pos + 1) ELSE tokens
             /\ Goto(pos + 1) /\ UNCHANGED stopped

Store ==
    /\ phase = "assign"
    /\ UNCHANGED <<rpn, exec, frames, read>>
    /\ IF pos > Len(tokens)
       THEN Fail /\ UNCHANGED <<tokens, stack, objects, stopped>>
       ELSE IF tokens[pos].type = "="
       THEN Assign
       ELSE Goto(pos + 1) /\ UNCHANGED <<tokens, stack, objects, stopped>>

\* The stack and the tokens are freed, and a buffer that is set is run: a loop over one that
\* is being read already finds no end of line in it, and frees it.
Finish ==
    /\ phase = "done" /\ phase' = "line"
    /\ tokens' = <<>> /\ stack' = <<>> /\ pos' = 1 /\ read' = <<>>
    /\ stopped' = (DeletesTwice(tokens) \/ (exec.set /\ Len(frames) >= MaxDepth))
    /\ IF exec.set /\ exec.by = 0
       THEN /\ frames' = Append(frames, [lines |-> exec.script, freed |-> FALSE])
            /\ exec' = [exec EXCEPT !.by = Len(frames) + 1]
       ELSE /\ frames' = IF exec.set THEN [frames EXCEPT ![exec.by].freed = TRUE] ELSE frames
            /\ exec' = NoExec
    /\ UNCHANGED <<rpn, objects>>

-----------------------------------------------------------------------------
Run == ScriptLine \/ ConvertToken \/ EndConversion \/ Evaluate \/ Store \/ Finish

Next == ~stopped /\ (TypeLine \/ Run)

\* The command processor runs on until it waits for a line.
Fairness == WF_vars(~stopped /\ Run)

Spec == Init /\ [][Next]_vars /\ Fairness

-----------------------------------------------------------------------------
(* Properties.                                                             *)

Kinds == {"IDENT", "NUMBER", "STRING", "FUNCTION"}

TypeOK ==
    /\ phase \in {"line", "rpn", "values", "assign", "done"}
    /\ pos \in 1 .. Len(tokens) + 2
    /\ \A k \in DOMAIN tokens : tokens[k].type # "RAWPTR" /\ tokens[k].args \in Nat
    /\ \A k \in DOMAIN stack : stack[k].type \in {"NUMBER", "STRING", "RAWPTR"}
    /\ \A k \in DOMAIN objects : objects[k].value.type \in {"NUMBER", "STRING", "RAWPTR", "ROUTINE"}
    /\ Len(frames) <= MaxDepth + 1 /\ exec.by \in 0 .. Len(frames)
    /\ stopped \in BOOLEAN

\* How often each element is in a sequence.
BagOf(s) == [x \in ToSet(s) |-> Cardinality({k \in DOMAIN s : s[k] = x})]
Types(ts) == [k \in DOMAIN ts |-> ts[k].type]

\* Reordering a line (jda_lexer_to_rpn) neither loses a token of it nor makes one up, and
\* drops the parentheses and the commas.
KeepsTokens ==
    [][phase = "rpn" /\ phase' = "values" =>
        BagOf(Types(tokens')) =
            BagOf(SelectSeq(Types(read), LAMBDA type : type \notin {"(", ")", ","}))]_vars

\* How deep the parentheses of a line are after its k-th token.
Depth(ts, k) == Cardinality({j \in 1 .. k : ts[j].type = "("}) - Cardinality({j \in 1 .. k : ts[j].type = ")"})

\* A line all of whose parentheses are those of calls, and whose arguments each begin with
\* an operand.
OnlyCalls(ts) ==
    \A k \in DOMAIN ts :
        /\ ts[k].type = "(" => k > 1 /\ ts[k - 1].type = "FUNCTION"
        /\ ts[k].type = "FUNCTION" => k < Len(ts) /\ ts[k + 1].type = "("
        /\ ts[k].type \in {"(", ","} =>
             /\ k < Len(ts)
             /\ ts[k + 1].type \in Kinds \/ (ts[k].type = "(" /\ ts[k + 1].type = ")")

\* The arguments between the parentheses of the call whose name is at k.
ArgumentsOf(ts, k) ==
    LET inside == Depth(ts, k + 1)
        close == Min({j \in k + 2 .. Len(ts) : Depth(ts, j) < inside})
    IN  IF close = k + 2 THEN 0
        ELSE 1 + Cardinality({j \in k + 2 .. close : ts[j].type = "," /\ Depth(ts, j) = inside})

\* However calls nest, each call in the converted line has the count of the arguments
\* between its own parentheses, which is what jda_parse takes off the line for it.
CallsGetTheirArguments ==
    [][phase = "rpn" /\ phase' = "values" /\ OnlyCalls(read) =>
        LET made == SelectSeq(tokens', LAMBDA t : t.type = "FUNCTION")
            typed == SelectSeq([k \in DOMAIN read |-> k], LAMBDA k : read[k].type = "FUNCTION")
        IN  BagOf([j \in DOMAIN made |-> <<made[j].text, made[j].args>>]) =
            BagOf([j \in DOMAIN typed |->
                     <<read[typed[j]].text, ArgumentsOf(read, typed[j])>>])]_vars

\* An assignment of numbers joined by operators, and what it comes to from right to left.
IsSum(ts) ==
    /\ Len(ts) >= 3 /\ ts[1].type = "IDENT" /\ ts[2].type = "=" /\ Len(ts) % 2 = 1
    /\ \A k \in 3 .. Len(ts) : IF k % 2 = 1 THEN ts[k].type = "NUMBER" ELSE ts[k].type \in Operators
RightToLeft(ts) ==
    LET terms == SubSeq(ts, 3, Len(ts))
        step(k, acc) == IF k % 2 = 0 THEN Computed(terms[k].type, terms[k - 1].num, acc) ELSE acc
    IN  FoldRight(step, [k \in 1 .. Len(terms) - 1 |-> k], terms[Len(terms)].num)

\* A line that assigns numbers joined by operators gives its name their value from right
\* to left, all operators binding alike (jda_lexer_to_rpn does not compare them).
EvaluatesRightToLeft ==
    [][phase = "done" /\ IsSum(read) /\ pos > Len(tokens) =>
        Last(objects) = [name |-> read[1].text, value |-> NumValue(RightToLeft(read))]]_vars

\* Whatever is typed, the line and the scripts it runs end, and the next line is read.
LineEnds == (phase # "line") ~> ((phase = "line" /\ frames = <<>>) \/ stopped)

\* A script is read from a buffer that is allocated, as "run any execution buffer AFTER we
\* finish processing the callee" (sys/jda/jda.cxx:849) is to see to.
ScriptIsAllocated == frames # <<>> /\ frames[Len(frames)].lines # <<>> => ~frames[Len(frames)].freed

\* A lookup finds what was assigned last ("Override value of the object", jda.cxx:803).
LastAssignmentWins ==
    phase = "line" =>
        \A name \in {objects[k].name : k \in DOMAIN objects} \ {Freed} :
            LET latest == Max({k \in DOMAIN objects : objects[k].name = name})
            IN  \A k \in Found(name) : objects[k].value = objects[latest].value
=============================================================================
