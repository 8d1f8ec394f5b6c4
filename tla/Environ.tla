------------------------------- MODULE Environ -------------------------------
(***************************************************************************)
(* The environment of a program (libio/stdlib.cxx).  environ is null until *)
(* the program assigns it; setenv, getenv and unsetenv are its operations. *)
(***************************************************************************)
EXTENDS Strings

CONSTANTS
    EnvNames,   \* names, one of which is empty or has an equals sign
    EnvValues,
    NoEnviron,     \* the null pointer
    MaxEnviron  \* bound on the number of variables

ASSUME EnvironAssumption == MaxEnviron \in Nat

VARIABLES
    environ,   \* the variables in order, or the null pointer
    errno,
    found,     \* what the last getenv returned
    everSet,   \* the names and values of calls that have succeeded
    lost,      \* an allocation of the list has failed
    spinning   \* an assertion has failed

envVars == <<environ, errno, found, everSet, lost, spinning>>

Equals == 61

\* Names that every call refuses.
Refused(name) == strlen(name) = 0 \/ strchr(name, Equals) # NoPlace

\* As many characters are compared as the variable's name has.
SameName(name, variable) ==
    strncmp(name, variable.name \o <<Equals>> \o variable.value, Len(variable.name)) = 0

Matching(name) == {i \in DOMAIN environ : SameName(name, environ[i])}

\* What does not exist is not told from what may not be.
FailsInvalid ==
    errno' = "EINVAL" /\ UNCHANGED <<environ, everSet, lost, spinning>>

\* Mutant of PutAtEnd: the end is where the last variable is.
PutOverLast(variable) ==
    environ' = Append(SubSeq(environ, 1, Len(environ) - 1), variable)
PutAtEnd(variable) == environ' = Append(environ, variable)

\* setenv, the allocation of the list or of the variable failing or not.  An existing
\* variable is looked for, but the new one goes behind it; without overwrite a new one is
\* an assertion that fails.
setenv(name, value, overwrite) ==
    /\ UNCHANGED found
    /\ \/ (Refused(name) \/ environ = NoEnviron) /\ FailsInvalid
       \/ /\ ~Refused(name) /\ environ # NoEnviron
          /\ \/ ~overwrite /\ Matching(name) # {} /\ UNCHANGED <<environ, errno, everSet, lost, spinning>>
             \/ ~overwrite /\ Matching(name) = {} /\ spinning' = TRUE /\ UNCHANGED <<environ, errno, everSet, lost>>
             \/ /\ overwrite /\ Len(environ) < MaxEnviron
                /\ PutAtEnd([name |-> name, value |-> value])
                /\ everSet' = everSet \cup {<<name, value>>}
                /\ UNCHANGED <<errno, lost, spinning>>
             \/ overwrite /\ environ' = NoEnviron /\ lost' = TRUE /\ errno' = "EINVAL" /\ UNCHANGED <<everSet, spinning>>
             \/ overwrite /\ errno' = "EINVAL" /\ UNCHANGED <<environ, everSet, lost, spinning>>

\* The first variable of the name.
ValueOfName(name) ==
    IF Matching(name) = {} THEN NoEnviron ELSE environ[Min(Matching(name))].value

getenv(name) ==
    \/ (Refused(name) \/ environ = NoEnviron) /\ FailsInvalid /\ found' = NoEnviron
    \/ /\ ~Refused(name) /\ environ # NoEnviron
       /\ found' = ValueOfName(name)
       /\ UNCHANGED <<environ, errno, everSet, lost, spinning>>

unsetenv(name) ==
    /\ Refused(name) /\ FailsInvalid
    /\ UNCHANGED found

\* A program makes a list of its own: nothing else does.
AdoptEnviron ==
    /\ environ = NoEnviron /\ ~lost
    /\ environ' = <<>>
    /\ UNCHANGED <<errno, found, everSet, lost, spinning>>

EnvironInit ==
    environ = NoEnviron /\ errno = "none" /\ found = NoEnviron /\ everSet = {} /\ lost = FALSE /\ spinning = FALSE

EnvironNext ==
    /\ ~spinning
    /\ \/ AdoptEnviron
       \/ \E name \in EnvNames :
              \/ getenv(name)
              \/ unsetenv(name)
              \/ \E value \in EnvValues, overwrite \in BOOLEAN : setenv(name, value, overwrite)

EnvironSpec == EnvironInit /\ [][EnvironNext]_envVars

-----------------------------------------------------------------------------
(* Properties.                                                             *)

\* A variable that has been set is found, under its own name, with a value that some call
\* has given to a name that counts as the same, until the list itself is lost: neither
\* later calls nor failures of theirs hide it.
VariablesStay ==
    environ # NoEnviron =>
        \A e \in everSet :
            \E d \in everSet : ValueOfName(e[1]) = d[2] /\ SameName(e[1], [name |-> d[1], value |-> d[2]])

\* "non-zero means to update an already existing environment variable" (stdlib.cxx:125).
OverwriteUpdates ==
    [][\A name \in EnvNames, value \in EnvValues :
           setenv(name, value, TRUE) /\ everSet' # everSet => ValueOfName(name)' = value]_envVars

\* "Zero means to not change the value if it already exists" (stdlib.cxx:124): one that does
\* not exist is no reason to stop.
SetsWhatIsNew == ~spinning
=============================================================================
