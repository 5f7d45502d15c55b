--------------------------- MODULE MCProgramUpload ---------------------------
(***************************************************************************)
(* Instances of ProgramUpload for TLC: two uploads, to the names a and b.  *)
(***************************************************************************)
EXTENDS ProgramUpload

CONSTANTS r1, r2, a, b, ab

\* Two good programs of one name, a name that arrives in two pieces, a rate that
\* is no number, one beyond int's range, and a name with a slash.
AllForms == {
    [name |-> <<a>>, fps |-> "5", file |-> 2],
    [name |-> <<a>>, fps |-> "7", file |-> 1],
    [name |-> <<a, b>>, fps |-> "x", file |-> 1],
    [name |-> <<b>>, fps |-> "9999999999", file |-> 1],
    [name |-> <<ab>>, fps |-> "5", file |-> 1]}

GoodForms == {
    [name |-> <<a>>, fps |-> "5", file |-> 1],
    [name |-> <<a>>, fps |-> "7", file |-> 1]}
=============================================================================
