\* Recordings of one second kept for three, clips of one second before and after;
\* time for a file to become too old, and one restart.  The system stops when time
\* and requests are used up.
CONSTANTS
    e1 = e1  e2 = e2  i1 = i1  i2 = i2
    Events = {e1, e2}
    TxIds = {i1, i2}
    SplitTime = 1
    Duration = 1
    Maintain = 3
    MaxTime = 4
    Remover = Remover
    None = None
    NoId = NoId
    Absent = Absent
    MaxBoots = 2
SPECIFICATION LinkSpec
INVARIANTS InputsStay ClipCoversWindow SentAsMade OneIdentity
PROPERTIES IdentityKept EventAnswered
CHECK_DEADLOCK FALSE
