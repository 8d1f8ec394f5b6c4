--------------------------------- MODULE Gl ----------------------------------
(***************************************************************************)
(* The software GL (sys/libgl/GL/gl.cxx): lists of commands between        *)
(* glBegin and glEnd.  Each call is one of a family that differs in the    *)
(* number of its components, in their type and in how they are passed; it  *)
(* is followed body by body until one adds a command, or is one of the     *)
(* many that print that they are not implemented and have no end: what     *)
(* the program does then is behind it (__builtin_unreachable).             *)
(***************************************************************************)
EXTENDS Integers, Sequences

CONSTANTS
    CharIsSigned,  \* whether char is (limits.h:23): not on this machine
    GlBits,        \* the width of each type of integers, scaled down
    GlSamples,     \* the components programs pass: sequences of four of "least", "none", "most"
    MaxCommands    \* bound on the commands of the list

ASSUME GlAssumption ==
    /\ CharIsSigned \in BOOLEAN /\ MaxCommands \in Nat
    /\ \A t \in {"b", "s", "i"} : GlBits[t] \in Nat \ {0, 1}
    /\ GlSamples \subseteq [1 .. 4 -> {"least", "none", "most"}]

VARIABLES
    curr_list,  \* the list's number of commands, room, mode and whether it is active
    g_errcode,  \* the last error
    glAsked,    \* the call the program made last
    glBody,     \* the call whose body runs
    glHanded,   \* the command the call has made, and of what kind
    glCounted,  \* the calls that should have made one
    glRunsOn    \* a body had no end

glVars == <<curr_list, g_errcode, glAsked, glBody, glHanded, glCounted, glRunsOn>>

NoCall == [f |-> "none"]
NoCommand == <<"none", <<>>>>

-----------------------------------------------------------------------------
(* Types and components.  A component is a fraction.                       *)

Integral == {"b", "s", "i", "ub", "us", "ui"}
Reals == {"f", "d"}
UnsignedOf == [ub |-> "b", us |-> "s", ui |-> "i"]

Most(t) ==
    IF t \in Reals THEN 1
    ELSE IF t \in DOMAIN UnsignedOf THEN 2 ^ GlBits[UnsignedOf[t]] - 1
    ELSE 2 ^ (GlBits[t] - 1) - 1
Least(t) == IF t \in DOMAIN UnsignedOf THEN 0 ELSE -Most(t) - (IF t \in Reals THEN 0 ELSE 1)

Sample(t, which) ==
    <<CASE which = "least" -> Least(t) [] which = "none" -> 0 [] which = "most" -> Most(t), 1>>
One == <<1, 1>>

\* CHAR_MAX and its like.
Divisor(t) == IF t = "b" /\ ~CharIsSigned THEN Most("ub") ELSE Most(t)

\* Mutant of Scaled: short and unsigned short through one macro.
ScaledByOne(args, t) ==
    [i \in DOMAIN args |-> <<args[i][1], args[i][2] * Divisor(IF t = "us" THEN "s" ELSE t)>>]

\* Integers are parts of the largest of their type, reals are what they are.
Scaled(args, t) == [i \in DOMAIN args |-> <<args[i][1], args[i][2] * Divisor(t)>>]

-----------------------------------------------------------------------------
(* What a body does: it adds a command, calls another, or has no end.      *)

Adds == [f |-> "adds"]
Unimplemented == [f |-> "unimplemented"]

ByValue(c) == [c EXCEPT !.v = FALSE]
AsDouble(c) == [c EXCEPT !.t = "d", !.v = FALSE]

glColor3(c) ==
    IF c.v THEN ByValue(c)
    ELSE IF c.t = "d" THEN [c EXCEPT !.n = 4, !.args = Append(@, One)]
    ELSE AsDouble([c EXCEPT !.args = Scaled(@, c.t)])

glColor4(c) ==
    IF c.v THEN ByValue(c)
    ELSE IF c.t = "d" THEN Adds
    ELSE AsDouble([c EXCEPT !.args = Scaled(@, c.t)])

\* Colours of the palette: vectors do not take the way of their values.
glIndex(c) == IF c.t = "d" /\ ~c.v THEN Unimplemented ELSE AsDouble(c)

glNormal(c) ==
    IF c.v THEN ByValue(c) ELSE IF c.t = "d" THEN Unimplemented ELSE AsDouble(c)

\* Most vectors have bodies of their own.
glRasterPos(c) == IF c.v /\ c.n = 4 /\ c.t \in {"i", "s"} THEN ByValue(c) ELSE Unimplemented

\* Of the first corner's vector the third component is passed as the second.
glRect(c) == IF c.v THEN ByValue(c) ELSE Unimplemented

glTexCoord4(c) ==
    IF c.v THEN ByValue(c) ELSE IF c.t = "d" THEN Adds ELSE Unimplemented
glTexCoord(c) == IF c.n = 4 THEN glTexCoord4(c) ELSE Unimplemented

glVertex(c) == IF c.v THEN ByValue(c) ELSE Unimplemented

Body(c) ==
    CASE c.f = "glColor" /\ c.n = 3 -> glColor3(c)
      [] c.f = "glColor" /\ c.n = 4 -> glColor4(c)
      [] c.f = "glIndex" -> glIndex(c)
      [] c.f = "glNormal" -> glNormal(c)
      [] c.f = "glRasterPos" -> glRasterPos(c)
      [] c.f = "glRect" -> glRect(c)
      [] c.f = "glTexCoord" -> glTexCoord(c)
      [] c.f = "glVertex" -> glVertex(c)
      [] OTHER -> Unimplemented

\* The calls there are.
Family(f, ns, types) ==
    [f : {f}, n : ns, t : types, v : BOOLEAN, args : {<<>>}]

WithArguments(calls) ==
    {[c EXCEPT !.args = [i \in 1 .. c.n |-> Sample(c.t, s[i])]] : c \in calls, s \in GlSamples}

Attributes ==
    WithArguments(Family("glColor", {3, 4}, Integral \cup Reals)
                      \cup Family("glTexCoord", {1, 2, 3, 4}, {"s", "i", "f", "d"}))
Geometry ==
    Family("glIndex", {1}, {"s", "i", "f", "d"})
        \cup Family("glNormal", {3}, {"b", "s", "i", "f", "d"})
        \cup Family("glRasterPos", {2, 3, 4}, {"s", "i", "f", "d"})
        \cup Family("glRect", {2}, {"s", "i", "f", "d"})
        \cup Family("glVertex", {2, 3, 4}, {"s", "i", "f", "d"})

Plain(f) == [f |-> f, n |-> 0, t |-> "d", v |-> FALSE, args |-> <<>>]

\* Rasterization and whole framebuffers.
Drawing ==
    {Plain(f) : f \in {
        "glCullFace", "glFrontFace", "glHint", "glLineWidth", "glPointSize", "glPolygonMode",
        "glScissor", "glTexParameterf", "glTexParameterfv", "glTexParameteri", "glTexParameteriv",
        "glTexImage1D", "glTexImage2D", "glDrawBuffer", "glClear", "glClearColor",
        "glClearStencil", "glClearDepth", "glStencilMask", "glColorMask", "glDepthMask",
        "glDisable", "glEnable", "glFinish", "glFlush", "glBlendFunc", "glLogicOp",
        "glStencilFunc", "glStencilOp", "glDepthFunc"}}

\* Reading, transformations and lists.
Queries ==
    {Plain(f) : f \in {
        "glPixelStoref", "glPixelStorei", "glReadBuffer", "glReadPixels", "glGetBooleanv",
        "glGetDoublev", "glGetFloatv", "glGetIntegerv", "glGetString", "glGetTexImage",
        "glGetTexParameterfv", "glGetTexParameteriv", "glGetTexLevelParameterfv",
        "glGetTexLevelParameteriv", "glIsEnabled", "glDepthRange", "glViewport", "glNewList",
        "glEndList", "glCallList", "glCallLists", "glDeleteLists", "glGenLists", "glListBase"}}
Marks == {Plain(f) : f \in {"glBitmap", "glEdgeFlag", "glEdgeFlagv"}}

-----------------------------------------------------------------------------

GL_INVALID_ENUM == 1280
GL_INVALID_OPERATION == 1282
Modes == 0 .. 9   \* GL_POINTS to GL_POLYGON

GlInit ==
    /\ curr_list = [n_cmds |-> 0, room |-> 0, mode |-> 0, active |-> FALSE]
    /\ g_errcode = -1
    /\ glAsked = NoCall /\ glBody = NoCall /\ glHanded = NoCommand /\ glCounted = 0
    /\ glRunsOn = FALSE

Ready == glBody = NoCall /\ ~glRunsOn

\* The calls that are implemented: whose bodies lead to one that adds.
IsAttribute(c) == c.f = "glColor" \/ (c.f = "glTexCoord" /\ c.n = 4 /\ c.t = "d")

GlCall ==
    /\ Ready /\ glCounted < MaxCommands
    /\ \E c \in Attributes \cup Geometry \cup Drawing \cup Queries \cup Marks :
          /\ glAsked' = c /\ glBody' = c
          /\ glCounted' = IF IsAttribute(c) THEN glCounted + 1 ELSE glCounted
    /\ glHanded' = NoCommand
    /\ UNCHANGED <<curr_list, g_errcode, glRunsOn>>

Forwards ==
    /\ glBody # NoCall /\ ~glRunsOn
    /\ Body(glBody) \notin {Adds, Unimplemented}
    /\ glBody' = Body(glBody)
    /\ UNCHANGED <<curr_list, g_errcode, glAsked, glHanded, glCounted, glRunsOn>>

\* The list gets room for the commands it has, which is nothing for the first, or there is
\* no storage and it has none, and counts one more.  The command is not put there.
gl_add_command ==
    /\ glBody # NoCall /\ ~glRunsOn
    /\ Body(glBody) = Adds
    /\ \E room \in {0, curr_list.n_cmds} :
          curr_list' = [curr_list EXCEPT !.room = room, !.n_cmds = @ + 1]
    /\ glHanded' = <<glBody.f, glBody.args>>
    /\ glBody' = NoCall
    /\ UNCHANGED <<g_errcode, glAsked, glCounted, glRunsOn>>

RunsOn ==
    /\ glBody # NoCall /\ ~glRunsOn
    /\ Body(glBody) = Unimplemented
    /\ glRunsOn' = TRUE
    /\ UNCHANGED <<curr_list, g_errcode, glAsked, glBody, glHanded, glCounted>>

glBegin ==
    /\ Ready
    /\ \E mode \in {0, 9, 10} :
          IF curr_list.active THEN g_errcode' = GL_INVALID_OPERATION /\ UNCHANGED curr_list
          ELSE IF mode \notin Modes THEN g_errcode' = GL_INVALID_ENUM /\ UNCHANGED curr_list
          ELSE /\ curr_list' = [curr_list EXCEPT !.mode = mode, !.active = TRUE]
               /\ UNCHANGED g_errcode
    /\ glAsked' = Plain("glBegin") /\ glHanded' = NoCommand
    /\ UNCHANGED <<glBody, glCounted, glRunsOn>>

\* flags & (ACTIVE == 0) is never true: the list is drawn, and that is not implemented.
glEnd ==
    /\ Ready
    /\ curr_list' = [curr_list EXCEPT !.active = FALSE]
    /\ glAsked' = Plain("glEnd") /\ glHanded' = NoCommand /\ glRunsOn' = TRUE
    /\ UNCHANGED <<g_errcode, glBody, glCounted>>

GlNext == GlCall \/ Forwards \/ gl_add_command \/ RunsOn \/ glBegin \/ glEnd

GlSpec == GlInit /\ [][GlNext]_glVars

-----------------------------------------------------------------------------
(* Properties.                                                             *)

\* What a component says, of whatever type: its part of the most there is.
Value(c, i) == IF i > c.n THEN One ELSE <<c.args[i][1], Most(c.t)>>

\* However a program passes a colour or a coordinate, it makes one command, with each
\* component as that part of the most of its type, and an alpha that is not passed is full
\* (gl.cxx:389-569, 989-1009).  Signed bytes do when char is signed.
AttributesArrive ==
    Ready =>
        /\ curr_list.n_cmds = glCounted
        /\ glHanded # NoCommand /\ (glAsked.t = "b" => CharIsSigned) =>
              glHanded = <<glAsked.f, [i \in 1 .. 4 |-> Value(glAsked, i)]>>

\* Signed bytes too: 127 is full.  It is less than half when char is unsigned.
SignedBytesArrive ==
    Ready /\ glHanded # NoCommand => glHanded[2] = [i \in 1 .. 4 |-> Value(glAsked, i)]

\* "glEnd() executed before a glBegin()" (gl.cxx:583) is an error.
EndNeedsBegin ==
    [][glAsked'.f = "glEnd" /\ ~curr_list.active => g_errcode' = GL_INVALID_OPERATION]_glVars

\* "Current list on the context" (gl.cxx:58): the list has room for what it counts.
ListHasRoom == curr_list.n_cmds <= curr_list.room
=============================================================================
