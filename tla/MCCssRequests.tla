--------------------------- MODULE MCCssRequests -----------------------------
(* Instances of CssRequests for TLC.                                        *)
EXTENDS CssRequests

NoDone == {FALSE}
\* What DASD, and the terminal's read, ask for; and everything the kernel's
\* drivers ask for.
ReadAsks == {{}, {"MODIFY", "IGNORE_CC", "WAIT_ATTENTION"}}
DriverAsks == ReadAsks \cup {{"MODIFY"}, {"MODIFY", "IGNORE_CC"}}
=============================================================================
