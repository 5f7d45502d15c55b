\* One event, removed at any moment.
CONSTANTS
    d1 = d1  d2 = d2
    live = live  ev = ev
    cLive = cLive  cEv = cEv  cEv2 = cEv2
    NoOne = NoOne
    Remover = Remover
    Distributors = {d1}
    Consumers = {cEv}
    Names = {ev}
    NameOf <- LoneNameOf
    Subscribed = {cEv}
    Disabled = {}
    Stoppable = {ev}
    Streams = {}
    DeviceFps = 2
    Fps <- LoneFps
    MaxFrames = 2
    MayExit = FALSE
SPECIFICATION FairSpec
PROPERTY RemovedConsumerEnds
CHECK_DEADLOCK FALSE
