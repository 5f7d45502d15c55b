\* Two good uploads of one name at once; no call fails.  Both may be over.
CONSTANTS
    r1 = r1  r2 = r2  a = a  b = b  ab = ab
    NoOne = NoOne
    NoDir = NoDir
    Requests = {r1, r2}
    Names = {a}
    Slashed = {}
    Rates = {"5", "7"}
    Numeric = {"5", "7"}
    TooBig = {}
    Forms <- GoodForms
    UploadUsers = 2
    MayFail = FALSE
SPECIFICATION Spec
INVARIANT SavedMeansSaved
CHECK_DEADLOCK FALSE
