\* Two connections of two requests each, in any order, to the live stream and
\* to another target, for which the SDP is kept in one file.  The system may stop:
\* crashed, or with all sessions over.
CONSTANTS
    c1 = c1  c2 = c2
    LiveUrl = "/live"
    Others = {"/other"}
    NoPath = "none"
    Conns = {c1, c2}
    MaxRequests = 2
    Left = {"absent", "empty"}
    MayFail = TRUE
SPECIFICATION ServerFairSpec
INVARIANTS ServerTypeOK DeletedOnce OneHandler CodecInfoKept
PROPERTIES DescribeWhole SessionEnds
CHECK_DEADLOCK FALSE
