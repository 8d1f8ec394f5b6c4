------------------------------ MODULE MCFiles --------------------------------
(* Instances of Files for TLC.                                               *)
EXTENDS Files

\* Characters and codes of the tokens; those that are not listed are single characters.
Words == [CSUP |-> 4, OUT |-> 3, ERR |-> 3, PRN |-> 3, DBG |-> 3, EXE |-> 3, DSA |-> 3,
          JDA |-> 3, SYSTEM |-> 6, DEVICES |-> 7, RDISK |-> 5, DASD001 |-> 7, TERM000 |-> 7,
          NONE |-> 4, BACKUP_OF_ALL_ACCOUNTS_1 |-> 24, _OLD |-> 4] @@ ("IN" :> 2)
Sums == [A |-> 1, B |-> 2, OUT |-> 56, ERR |-> 41, PRN |-> 48, DBG |-> 13, EXE |-> 34,
         DSA |-> 24, JDA |-> 15, SYSTEM |-> 101, DEVICES |-> 67, RDISK |-> 61, DASD001 |-> 75,
         TERM000 |-> 80, CSUP |-> 59, NONE |-> 48,
         BACKUP_OF_ALL_ACCOUNTS_1 |-> 410, _OLD |-> 79] @@ ("IN" :> 23)
Chars(t) == IF t \in DOMAIN Words THEN Words[t] ELSE 1
Codes(t) == IF t \in DOMAIN Sums THEN Sums[t] ELSE 0

\* The command processor, a name with a blank behind it, two that become one, one of the same
\* letters; a name of 28 characters and then one of the 24 that it is cut to.
Backup == <<"BACKUP_OF_ALL_ACCOUNTS_1">>
DiskOfSeven == << <<"DSA", ".", "EXE", ".", "JDA">>, <<"A", ".", "B", " ">>,
                  <<"A", "/", "B">>, <<" ">>, <<"B", ".", "A">>,
                  Backup \o <<"_OLD">>, Backup >>
OutAndDataset == { <<"/", "CSUP", ".", "OUT">>, <<"/", "RDISK", "/", "A", "$", "B">> }
OnlyOut == { <<"/", "CSUP", ".", "OUT">> }
WithNothing == OutAndDataset \cup { <<"/", "NONE">> }
=============================================================================
