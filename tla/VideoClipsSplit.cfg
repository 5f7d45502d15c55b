\* The split-time and maintain of the README's config.json; time for the second
\* recording to begin, one request and one process.
CONSTANTS
    e1 = e1  e2 = e2  i1 = i1  i2 = i2
    Events = {e1}
    TxIds = {i1}
    SplitTime = 40
    Duration = 1
    Maintain = 120
    MaxTime = 41
    Remover = Remover
    None = None
    NoId = NoId
    Absent = Absent
    MaxBoots = 1
SPECIFICATION LinkSpec
INVARIANT ClipCoversWindow
CHECK_DEADLOCK FALSE
