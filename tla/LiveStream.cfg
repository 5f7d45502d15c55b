\* The start-up probe and two sessions, with every call of GStreamer free to
\* fail.  The system may stop: crashed, starved of frames, or with its work done.
CONSTANTS
    s1 = s1  s2 = s2
    Boot = Boot
    Live = Live
    NoOne = NoOne
    NoSdp = NoSdp
    Sessions = {s1, s2}
    Fields <- FieldNames
    Samples <- SampleCaps
    MayFail = TRUE
SPECIFICATION FairSpec
INVARIANTS TypeOK SdpComplete ProbeSubscription NoStarvation
PROPERTIES SdpStable DescribeAnswered
CHECK_DEADLOCK FALSE
