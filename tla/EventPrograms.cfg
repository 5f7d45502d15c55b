\* Program a is started by main() while two requests start or stop programs, once or
\* again, and one upload may come; two threads, two addresses, so that a deleted
\* processor's memory may be used again.  The process may crash or idle.
CONSTANTS
    a = a  b = b  r1 = r1  r2 = r2
    Names = {a, b}
    Installed = {a}
    OnDisk <- Disks
    Requests = {r1, r2}
    Asks <- SomeAsks
    MaxAddress = 2
    MaxThreads = 2
    MaxStops = 1
    MaxFrames = 1
    MaxUploads = 1
    Uploaded = {b}
    UploadRates = {"good"}
    Main = Main
    NoName = NoName
    None = None
SPECIFICATION FairSpec
INVARIANTS OneStopSparesOthers 
PROPERTIES RunOnce FrameIsRun
CHECK_DEADLOCK FALSE
