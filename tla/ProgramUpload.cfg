\* Two uploads of every kind with one slot, so that one may be refused as busy;
\* every call may fail and every client may go away.  The process may crash, or
\* all requests be over.
CONSTANTS
    r1 = r1  r2 = r2  a = a  b = b  ab = ab
    NoOne = NoOne
    NoDir = NoDir
    Requests = {r1, r2}
    Names = {a, b, ab}
    Slashed = {ab}
    Rates = {"5", "7", "x", "9999999999"}
    Numeric = {"5", "7"}
    TooBig = {"9999999999"}
    Forms <- AllForms
    UploadUsers = 1
    MayFail = TRUE
SPECIFICATION FairSpec
INVARIANTS TypeOK SlotsBalanced OneUploadKept
PROPERTY SlotComesBack
CHECK_DEADLOCK FALSE
