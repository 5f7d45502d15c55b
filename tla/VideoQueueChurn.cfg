\* An event is stopped at any moment and started again by a second thread, or started
\* twice; "enable" may have held 0 when the first thread started, which then gives its
\* subscription up and leaves its queue to the second; a thread may end between two
\* pops, as the live stream's does; the process may exit.  It may crash, and then stops.
CONSTANTS
    d1 = d1  d2 = d2
    live = live  ev = ev
    cLive = cLive  cEv = cEv  cEv2 = cEv2
    NoOne = NoOne
    Remover = Remover
    Distributors = {d1, d2}
    Consumers = {cEv, cEv2}
    Names = {ev}
    NameOf <- ChurnNameOf
    Subscribed = {cEv}
    Disabled = {cEv}
    Stoppable = {ev}
    Streams = {ev}
    DeviceFps = 2
    Fps <- ChurnFps
    MaxFrames = 3
    MayExit = TRUE
SPECIFICATION Spec
INVARIANTS InOrder NothingSkipped ParkedMeansEmpty NoLeakedCopy InputNoticed
PROPERTY ImplementsFeed
SYMMETRY DistributorSymmetry
CHECK_DEADLOCK FALSE
