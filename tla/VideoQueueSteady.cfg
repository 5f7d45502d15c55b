\* The live stream at the full rate of two frames a second and an event at one,
\* popped by two threads; three frames, so that the frame counter restarts.
CONSTANTS
    d1 = d1  d2 = d2
    live = live  ev = ev
    cLive = cLive  cEv = cEv  cEv2 = cEv2
    NoOne = NoOne
    Remover = Remover
    Distributors = {d1, d2}
    Consumers = {cLive, cEv, cEv2}
    Names = {live, ev}
    NameOf <- SteadyNameOf
    Subscribed = {cLive, cEv}
    Disabled = {}
    Stoppable = {}
    Streams = {}
    DeviceFps = 2
    Fps <- SteadyFps
    MaxFrames = 3
    MayExit = FALSE
SPECIFICATION FairSpec
INVARIANTS TypeOK Conservation OnlyDueFrames Sound
PROPERTY FrameReachesConsumer
