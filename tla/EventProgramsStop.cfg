\* The same, with a name stopped twice.
CONSTANTS
    a = a  b = b  r1 = r1  r2 = r2
    Names = {a, b}
    Installed = {a}
    OnDisk <- Disks
    Requests = {r1, r2}
    Asks <- SomeAsks
    MaxAddress = 2
    MaxThreads = 2
    MaxStops = 2
    MaxFrames = 1
    MaxUploads = 0
    Uploaded = {b}
    UploadRates = {"good"}
    Main = Main
    NoName = NoName
    None = None
SPECIFICATION Spec
INVARIANT StopSparesOthers
CHECK_DEADLOCK FALSE
