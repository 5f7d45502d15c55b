-------------------------- MODULE LiveStreamProofs --------------------------
(***************************************************************************)
(* Proofs about the SDP of the live stream, for any number of sessions and *)
(* any set of caps fields.                                                 *)
(***************************************************************************)
EXTENDS LiveStream, TLAPS

\* The places where a call of make_sdp() has found no SDP.
Probing == {"link", "run", "ending", "remove", "write"}

\* No pipeline has reported EOS before _codec_info was full, and a probe past
\* its bus loop has had a message.
Reported ==
    /\ \A c \in Feeders : msg[c] = "eos" => codec = Fields
    /\ \A c \in Callers : pc[c] \in {"ending", "remove", "write"} => msg[c] # "none"
    /\ sdp # NoSdp => msg[sdp.by] # "none"

\* The live pipeline never goes where only a probe goes.
LiveApart == pc[Live] \notin {"check", "link", "remove", "write"} /\ subs["sdp"] # Live

\* Sessions begin after the start-up probe; when that has left an SDP they find it.
BootFirst ==
    /\ pc[Boot] # "done" => boot = "probe" /\ got[Boot] = NoSdp
    /\ boot # "listening" => \A s \in Sessions : pc[s] = "idle"
    /\ got[Boot] # NoSdp => sdp # NoSdp /\ \A s \in Sessions : pc[s] \notin Probing

\* A streaming thread lives as long as its pipeline, and the subscriptions of the
\* start-up probe and of the live pipeline, the ones they wait on in pop(), as
\* long as their threads.
Fed ==
    /\ \A c \in Feeders : feed[c] # "off" => pc[c] \in {"run", "ending"}
    /\ pc[Live] \in {"run", "ending"} => boot = "listening" /\ subs["live"] # NoOne
    /\ pc[Boot] \in {"run", "ending"} => subs["sdp"] # NoOne
    /\ \A c \in {Boot, Live} :
        /\ feed[c] = "stalled" => c \in dropped
        /\ feed[c] = "pop" => subs[SubName(c)] = on[c]

LiveInv ==
    TypeOK /\ Reported /\ LiveApart /\ BootFirst /\ Fed /\ SdpComplete /\ ProbeSubscription

-----------------------------------------------------------------------------
(* Which step a step of the system is.                                     *)

LEMMA NextCases ==
    ASSUME Next
    PROVE  \/ SetStream \/ PlayStream
           \/ \E c \in Callers : Describe(c) \/ LaunchFails(c)
           \/ \E c \in Feeders : Check(c) \/ Launch(c) \/ Message(c) \/ Stop(c)
                  \/ Unsubscribe(c) \/ Write(c) \/ NeedData(c) \/ Frame(c) \/ NoSample(c)
                  \/ FrameDropped(c) \/ PipelineError(c)
           \/ \E c \in Feeders, caps \in Samples : Sample(c, caps)
  BY DEF Next, Caller, Streaming

LEMMA LiveInitially == Init => LiveInv
  <1> SUFFICES ASSUME Init PROVE LiveInv
    OBVIOUS
  <1> USE CapsAssumption DEF Init
  <1>1. TypeOK
    BY DEF TypeOK, Feeders, Callers
  <1>2. Reported /\ LiveApart /\ SdpComplete /\ ProbeSubscription
    BY DEF Reported, LiveApart, SdpComplete, ProbeSubscription, Feeders, Callers
  <1>3. BootFirst /\ Fed
    BY DEF BootFirst, Fed, Feeders, Callers
  <1> QED
    BY <1>1, <1>2, <1>3 DEF LiveInv

\* Every step keeps the types.
LEMMA TypeStep ==
    ASSUME TypeOK, LiveApart, [Next]_vars
    PROVE  TypeOK'
  <1> USE CapsAssumption DEF TypeOK, LiveApart, Sdps, Feeders, Callers
  <1>1. ASSUME SetStream PROVE TypeOK'
    BY <1>1 DEF SetStream, Goto
  <1>2. ASSUME PlayStream PROVE TypeOK'
    BY <1>2 DEF PlayStream, Goto, FeedTo, Subscribe, SubName
  <1>3. ASSUME NEW c \in Callers, Describe(c) PROVE TypeOK'
    BY <1>3 DEF Describe, Goto
  <1>4. ASSUME NEW c \in Callers, LaunchFails(c) PROVE TypeOK'
    BY <1>4 DEF LaunchFails, Goto
  <1>5. ASSUME NEW c \in Feeders, Check(c) PROVE TypeOK'
    BY <1>5 DEF Check, Goto, Cached
  <1>6. ASSUME NEW c \in Feeders, Launch(c) PROVE TypeOK'
    BY <1>6 DEF Launch, Goto, FeedTo, Subscribe, SubName
  <1>7. ASSUME NEW c \in Feeders, Message(c) PROVE TypeOK'
    BY <1>7 DEF Message, HasMessage, Goto
  <1>8. ASSUME NEW c \in Feeders, Stop(c) PROVE TypeOK'
    BY <1>8 DEF Stop, Goto, FeedTo
  <1>9. ASSUME NEW c \in Feeders, Unsubscribe(c) PROVE TypeOK'
    BY <1>9 DEF Unsubscribe, Goto, Unsubscribed
  <1>10. ASSUME NEW c \in Feeders, Write(c) PROVE TypeOK'
    BY <1>10 DEF Write, Goto
  <1>11. ASSUME NEW c \in Feeders, NeedData(c) PROVE TypeOK'
    BY <1>11 DEF NeedData, FeedTo, SubName
  <1>12. ASSUME NEW c \in Feeders, Frame(c) PROVE TypeOK'
    BY <1>12 DEF Frame, FeedTo, SubName
  <1>13. ASSUME NEW c \in Feeders, NoSample(c) PROVE TypeOK'
    BY <1>13 DEF NoSample, FeedTo
  <1>14. ASSUME NEW c \in Feeders, FrameDropped(c) PROVE TypeOK'
    BY <1>14 DEF FrameDropped, FeedTo, SubName
  <1>15. ASSUME NEW c \in Feeders, PipelineError(c) PROVE TypeOK'
    BY <1>15 DEF PipelineError
  <1>16. ASSUME NEW c \in Feeders, NEW caps \in Samples, Sample(c, caps) PROVE TypeOK'
    BY <1>16 DEF Sample, FeedTo, Shown, Enough
  <1>17. CASE UNCHANGED vars
    BY <1>17 DEF vars
  <1> HIDE DEF TypeOK, LiveApart, Sdps, Feeders, Callers
  <1> QED
    BY <1>1, <1>2, <1>3, <1>4, <1>5, <1>6, <1>7, <1>8, <1>9,
       <1>10, <1>11, <1>12, <1>13, <1>14, <1>15, <1>16, <1>17, NextCases

\* Only new-sample reports EOS, and it has found nothing missing; _codec_info
\* only grows.
LEMMA ReportedStep ==
    ASSUME TypeOK, Reported, LiveApart, [Next]_vars
    PROVE  Reported'
  <1> USE CapsAssumption DEF TypeOK, Reported, LiveApart, Sdps, Feeders, Callers
  <1>1. ASSUME SetStream PROVE Reported'
    BY <1>1 DEF SetStream, Goto
  <1>2. ASSUME PlayStream PROVE Reported'
    BY <1>2 DEF PlayStream, Goto, FeedTo, Subscribe, SubName
  <1>3. ASSUME NEW c \in Callers, Describe(c) PROVE Reported'
    BY <1>3 DEF Describe, Goto
  <1>4. ASSUME NEW c \in Callers, LaunchFails(c) PROVE Reported'
    BY <1>4 DEF LaunchFails, Goto
  <1>5. ASSUME NEW c \in Feeders, Check(c) PROVE Reported'
    BY <1>5 DEF Check, Goto, Cached
  <1>6. ASSUME NEW c \in Feeders, Launch(c) PROVE Reported'
    BY <1>6 DEF Launch, Goto, FeedTo, Subscribe, SubName
  <1>7. ASSUME NEW c \in Feeders, Message(c) PROVE Reported'
    BY <1>7 DEF Message, HasMessage, Goto
  <1>8. ASSUME NEW c \in Feeders, Stop(c) PROVE Reported'
    BY <1>8 DEF Stop, Goto, FeedTo
  <1>9. ASSUME NEW c \in Feeders, Unsubscribe(c) PROVE Reported'
    BY <1>9 DEF Unsubscribe, Goto, Unsubscribed
  <1>10. ASSUME NEW c \in Feeders, Write(c) PROVE Reported'
    BY <1>10 DEF Write, Goto
  <1>11. ASSUME NEW c \in Feeders, NeedData(c) PROVE Reported'
    BY <1>11 DEF NeedData, FeedTo, SubName
  <1>12. ASSUME NEW c \in Feeders, Frame(c) PROVE Reported'
    BY <1>12 DEF Frame, FeedTo, SubName
  <1>13. ASSUME NEW c \in Feeders, NoSample(c) PROVE Reported'
    BY <1>13 DEF NoSample, FeedTo
  <1>14. ASSUME NEW c \in Feeders, FrameDropped(c) PROVE Reported'
    BY <1>14 DEF FrameDropped, FeedTo, SubName
  <1>15. ASSUME NEW c \in Feeders, PipelineError(c) PROVE Reported'
    BY <1>15 DEF PipelineError
  <1>16. ASSUME NEW c \in Feeders, NEW caps \in Samples, Sample(c, caps) PROVE Reported'
    BY <1>16 DEF Sample, FeedTo, Shown, Enough
  <1>17. CASE UNCHANGED vars
    BY <1>17 DEF vars
  <1> HIDE DEF TypeOK, Reported, LiveApart, Sdps, Feeders, Callers
  <1> QED
    BY <1>1, <1>2, <1>3, <1>4, <1>5, <1>6, <1>7, <1>8, <1>9,
       <1>10, <1>11, <1>12, <1>13, <1>14, <1>15, <1>16, <1>17, NextCases

\* The live pipeline runs, ends and is done.
LEMMA ApartStep ==
    ASSUME TypeOK, LiveApart, [Next]_vars
    PROVE  LiveApart'
  <1> USE CapsAssumption DEF TypeOK, LiveApart, Feeders, Callers
  <1>1. ASSUME SetStream PROVE LiveApart'
    BY <1>1 DEF SetStream, Goto
  <1>2. ASSUME PlayStream PROVE LiveApart'
    BY <1>2 DEF PlayStream, Goto, FeedTo, Subscribe, SubName
  <1>3. ASSUME NEW c \in Callers, Describe(c) PROVE LiveApart'
    BY <1>3 DEF Describe, Goto
  <1>4. ASSUME NEW c \in Callers, LaunchFails(c) PROVE LiveApart'
    BY <1>4 DEF LaunchFails, Goto
  <1>5. ASSUME NEW c \in Feeders, Check(c) PROVE LiveApart'
    BY <1>5 DEF Check, Goto, Cached
  <1>6. ASSUME NEW c \in Feeders, Launch(c) PROVE LiveApart'
    BY <1>6 DEF Launch, Goto, FeedTo, Subscribe, SubName
  <1>7. ASSUME NEW c \in Feeders, Message(c) PROVE LiveApart'
    BY <1>7 DEF Message, HasMessage, Goto
  <1>8. ASSUME NEW c \in Feeders, Stop(c) PROVE LiveApart'
    BY <1>8 DEF Stop, Goto, FeedTo
  <1>9. ASSUME NEW c \in Feeders, Unsubscribe(c) PROVE LiveApart'
    BY <1>9 DEF Unsubscribe, Goto, Unsubscribed
  <1>10. ASSUME NEW c \in Feeders, Write(c) PROVE LiveApart'
    BY <1>10 DEF Write, Goto
  <1>11. ASSUME NEW c \in Feeders, NeedData(c) PROVE LiveApart'
    BY <1>11 DEF NeedData, FeedTo, SubName
  <1>12. ASSUME NEW c \in Feeders, Frame(c) PROVE LiveApart'
    BY <1>12 DEF Frame, FeedTo, SubName
  <1>13. ASSUME NEW c \in Feeders, NoSample(c) PROVE LiveApart'
    BY <1>13 DEF NoSample, FeedTo
  <1>14. ASSUME NEW c \in Feeders, FrameDropped(c) PROVE LiveApart'
    BY <1>14 DEF FrameDropped, FeedTo, SubName
  <1>15. ASSUME NEW c \in Feeders, PipelineError(c) PROVE LiveApart'
    BY <1>15 DEF PipelineError
  <1>16. ASSUME NEW c \in Feeders, NEW caps \in Samples, Sample(c, caps) PROVE LiveApart'
    BY <1>16 DEF Sample, FeedTo, Shown, Enough
  <1>17. CASE UNCHANGED vars
    BY <1>17 DEF vars
  <1> HIDE DEF TypeOK, LiveApart, Feeders, Callers
  <1> QED
    BY <1>1, <1>2, <1>3, <1>4, <1>5, <1>6, <1>7, <1>8, <1>9,
       <1>10, <1>11, <1>12, <1>13, <1>14, <1>15, <1>16, <1>17, NextCases

\* A session that looks for the SDP after a successful start-up probe finds
\* it.
LEMMA BootStep ==
    ASSUME TypeOK, BootFirst, LiveApart, [Next]_vars
    PROVE  BootFirst'
  <1> USE CapsAssumption DEF TypeOK, BootFirst, LiveApart, Probing, Sdps, Feeders, Callers
  <1>1. ASSUME SetStream PROVE BootFirst'
    BY <1>1 DEF SetStream, Goto
  <1>2. ASSUME PlayStream PROVE BootFirst'
    BY <1>2 DEF PlayStream, Goto, FeedTo, Subscribe, SubName
  <1>3. ASSUME NEW c \in Callers, Describe(c) PROVE BootFirst'
    BY <1>3 DEF Describe, Goto
  <1>4. ASSUME NEW c \in Callers, LaunchFails(c) PROVE BootFirst'
    BY <1>4 DEF LaunchFails, Goto
  <1>5. ASSUME NEW c \in Feeders, Check(c) PROVE BootFirst'
    BY <1>5 DEF Check, Goto, Cached
  <1>6. ASSUME NEW c \in Feeders, Launch(c) PROVE BootFirst'
    BY <1>6 DEF Launch, Goto, FeedTo, Subscribe, SubName
  <1>7. ASSUME NEW c \in Feeders, Message(c) PROVE BootFirst'
    BY <1>7 DEF Message, HasMessage, Goto
  <1>8. ASSUME NEW c \in Feeders, Stop(c) PROVE BootFirst'
    BY <1>8 DEF Stop, Goto, FeedTo
  <1>9. ASSUME NEW c \in Feeders, Unsubscribe(c) PROVE BootFirst'
    BY <1>9 DEF Unsubscribe, Goto, Unsubscribed
  <1>10. ASSUME NEW c \in Feeders, Write(c) PROVE BootFirst'
    BY <1>10 DEF Write, Goto
  <1>11. ASSUME NEW c \in Feeders, NeedData(c) PROVE BootFirst'
    BY <1>11 DEF NeedData, FeedTo, SubName
  <1>12. ASSUME NEW c \in Feeders, Frame(c) PROVE BootFirst'
    BY <1>12 DEF Frame, FeedTo, SubName
  <1>13. ASSUME NEW c \in Feeders, NoSample(c) PROVE BootFirst'
    BY <1>13 DEF NoSample, FeedTo
  <1>14. ASSUME NEW c \in Feeders, FrameDropped(c) PROVE BootFirst'
    BY <1>14 DEF FrameDropped, FeedTo, SubName
  <1>15. ASSUME NEW c \in Feeders, PipelineError(c) PROVE BootFirst'
    BY <1>15 DEF PipelineError
  <1>16. ASSUME NEW c \in Feeders, NEW caps \in Samples, Sample(c, caps) PROVE BootFirst'
    BY <1>16 DEF Sample, FeedTo, Shown, Enough
  <1>17. CASE UNCHANGED vars
    BY <1>17 DEF vars
  <1> HIDE DEF TypeOK, BootFirst, LiveApart, Probing, Sdps, Feeders, Callers
  <1> QED
    BY <1>1, <1>2, <1>3, <1>4, <1>5, <1>6, <1>7, <1>8, <1>9,
       <1>10, <1>11, <1>12, <1>13, <1>14, <1>15, <1>16, <1>17, NextCases

\* A probe that has not met an error writes a complete SDP.
LEMMA CompleteStep ==
    ASSUME TypeOK, SdpComplete, Reported, LiveApart, [Next]_vars
    PROVE  SdpComplete'
  <1> USE CapsAssumption DEF TypeOK, SdpComplete, Reported, LiveApart, Sdps, Feeders, Callers
  <1>1. ASSUME SetStream PROVE SdpComplete'
    BY <1>1 DEF SetStream, Goto
  <1>2. ASSUME PlayStream PROVE SdpComplete'
    BY <1>2 DEF PlayStream, Goto, FeedTo, Subscribe, SubName
  <1>3. ASSUME NEW c \in Callers, Describe(c) PROVE SdpComplete'
    BY <1>3 DEF Describe, Goto
  <1>4. ASSUME NEW c \in Callers, LaunchFails(c) PROVE SdpComplete'
    BY <1>4 DEF LaunchFails, Goto
  <1>5. ASSUME NEW c \in Feeders, Check(c) PROVE SdpComplete'
    BY <1>5 DEF Check, Goto, Cached
  <1>6. ASSUME NEW c \in Feeders, Launch(c) PROVE SdpComplete'
    BY <1>6 DEF Launch, Goto, FeedTo, Subscribe, SubName
  <1>7. ASSUME NEW c \in Feeders, Message(c) PROVE SdpComplete'
    BY <1>7 DEF Message, HasMessage, Goto
  <1>8. ASSUME NEW c \in Feeders, Stop(c) PROVE SdpComplete'
    BY <1>8 DEF Stop, Goto, FeedTo
  <1>9. ASSUME NEW c \in Feeders, Unsubscribe(c) PROVE SdpComplete'
    BY <1>9 DEF Unsubscribe, Goto, Unsubscribed
  <1>10. ASSUME NEW c \in Feeders, Write(c) PROVE SdpComplete'
    BY <1>10 DEF Write, Goto
  <1>11. ASSUME NEW c \in Feeders, NeedData(c) PROVE SdpComplete'
    BY <1>11 DEF NeedData, FeedTo, SubName
  <1>12. ASSUME NEW c \in Feeders, Frame(c) PROVE SdpComplete'
    BY <1>12 DEF Frame, FeedTo, SubName
  <1>13. ASSUME NEW c \in Feeders, NoSample(c) PROVE SdpComplete'
    BY <1>13 DEF NoSample, FeedTo
  <1>14. ASSUME NEW c \in Feeders, FrameDropped(c) PROVE SdpComplete'
    BY <1>14 DEF FrameDropped, FeedTo, SubName
  <1>15. ASSUME NEW c \in Feeders, PipelineError(c) PROVE SdpComplete'
    BY <1>15 DEF PipelineError
  <1>16. ASSUME NEW c \in Feeders, NEW caps \in Samples, Sample(c, caps) PROVE SdpComplete'
    BY <1>16 DEF Sample, FeedTo, Shown, Enough
  <1>17. CASE UNCHANGED vars
    BY <1>17 DEF vars
  <1> HIDE DEF TypeOK, SdpComplete, Reported, LiveApart, Sdps, Feeders, Callers
  <1> QED
    BY <1>1, <1>2, <1>3, <1>4, <1>5, <1>6, <1>7, <1>8, <1>9,
       <1>10, <1>11, <1>12, <1>13, <1>14, <1>15, <1>16, <1>17, NextCases

\* A probe removes the subscription before it writes the SDP.
LEMMA SubscriptionStep ==
    ASSUME TypeOK, ProbeSubscription, LiveApart, [Next]_vars
    PROVE  ProbeSubscription'
  <1> USE CapsAssumption DEF TypeOK, ProbeSubscription, LiveApart, Feeders, Callers
  <1>1. ASSUME SetStream PROVE ProbeSubscription'
    BY <1>1 DEF SetStream, Goto
  <1>2. ASSUME PlayStream PROVE ProbeSubscription'
    BY <1>2 DEF PlayStream, Goto, FeedTo, Subscribe, SubName
  <1>3. ASSUME NEW c \in Callers, Describe(c) PROVE ProbeSubscription'
    BY <1>3 DEF Describe, Goto
  <1>4. ASSUME NEW c \in Callers, LaunchFails(c) PROVE ProbeSubscription'
    BY <1>4 DEF LaunchFails, Goto
  <1>5. ASSUME NEW c \in Feeders, Check(c) PROVE ProbeSubscription'
    BY <1>5 DEF Check, Goto, Cached
  <1>6. ASSUME NEW c \in Feeders, Launch(c) PROVE ProbeSubscription'
    BY <1>6 DEF Launch, Goto, FeedTo, Subscribe, SubName
  <1>7. ASSUME NEW c \in Feeders, Message(c) PROVE ProbeSubscription'
    BY <1>7 DEF Message, HasMessage, Goto
  <1>8. ASSUME NEW c \in Feeders, Stop(c) PROVE ProbeSubscription'
    BY <1>8 DEF Stop, Goto, FeedTo
  <1>9. ASSUME NEW c \in Feeders, Unsubscribe(c) PROVE ProbeSubscription'
    BY <1>9 DEF Unsubscribe, Goto, Unsubscribed
  <1>10. ASSUME NEW c \in Feeders, Write(c) PROVE ProbeSubscription'
    BY <1>10 DEF Write, Goto
  <1>11. ASSUME NEW c \in Feeders, NeedData(c) PROVE ProbeSubscription'
    BY <1>11 DEF NeedData, FeedTo, SubName
  <1>12. ASSUME NEW c \in Feeders, Frame(c) PROVE ProbeSubscription'
    BY <1>12 DEF Frame, FeedTo, SubName
  <1>13. ASSUME NEW c \in Feeders, NoSample(c) PROVE ProbeSubscription'
    BY <1>13 DEF NoSample, FeedTo
  <1>14. ASSUME NEW c \in Feeders, FrameDropped(c) PROVE ProbeSubscription'
    BY <1>14 DEF FrameDropped, FeedTo, SubName
  <1>15. ASSUME NEW c \in Feeders, PipelineError(c) PROVE ProbeSubscription'
    BY <1>15 DEF PipelineError
  <1>16. ASSUME NEW c \in Feeders, NEW caps \in Samples, Sample(c, caps) PROVE ProbeSubscription'
    BY <1>16 DEF Sample, FeedTo, Shown, Enough
  <1>17. CASE UNCHANGED vars
    BY <1>17 DEF vars
  <1> HIDE DEF TypeOK, ProbeSubscription, LiveApart, Feeders, Callers
  <1> QED
    BY <1>1, <1>2, <1>3, <1>4, <1>5, <1>6, <1>7, <1>8, <1>9,
       <1>10, <1>11, <1>12, <1>13, <1>14, <1>15, <1>16, <1>17, NextCases

\* No session runs while the start-up probe does, so none takes its subscription
\* away, and a probe that ends waits for its streaming thread.
LEMMA FedStep ==
    ASSUME TypeOK, Fed, LiveApart, BootFirst, [Next]_vars
    PROVE  Fed'
  <1> USE CapsAssumption DEF TypeOK, Fed, LiveApart, BootFirst, SubName, Feeders, Callers
  <1>1. ASSUME SetStream PROVE Fed'
    BY <1>1 DEF SetStream, Goto
  <1>2. ASSUME PlayStream PROVE Fed'
    BY <1>2 DEF PlayStream, Goto, FeedTo, Subscribe, SubName
  <1>3. ASSUME NEW c \in Callers, Describe(c) PROVE Fed'
    BY <1>3 DEF Describe, Goto
  <1>4. ASSUME NEW c \in Callers, LaunchFails(c) PROVE Fed'
    BY <1>4 DEF LaunchFails, Goto
  <1>5. ASSUME NEW c \in Feeders, Check(c) PROVE Fed'
    BY <1>5 DEF Check, Goto, Cached
  <1>6. ASSUME NEW c \in Feeders, Launch(c) PROVE Fed'
    BY <1>6 DEF Launch, Goto, FeedTo, Subscribe, SubName
  <1>7. ASSUME NEW c \in Feeders, Message(c) PROVE Fed'
    BY <1>7 DEF Message, HasMessage, Goto
  <1>8. ASSUME NEW c \in Feeders, Stop(c) PROVE Fed'
    BY <1>8 DEF Stop, Goto, FeedTo
  <1>9. ASSUME NEW c \in Feeders, Unsubscribe(c) PROVE Fed'
    BY <1>9 DEF Unsubscribe, Goto, Unsubscribed
  <1>10. ASSUME NEW c \in Feeders, Write(c) PROVE Fed'
    BY <1>10 DEF Write, Goto
  <1>11. ASSUME NEW c \in Feeders, NeedData(c) PROVE Fed'
    BY <1>11 DEF NeedData, FeedTo, SubName
  <1>12. ASSUME NEW c \in Feeders, Frame(c) PROVE Fed'
    BY <1>12 DEF Frame, FeedTo, SubName
  <1>13. ASSUME NEW c \in Feeders, NoSample(c) PROVE Fed'
    BY <1>13 DEF NoSample, FeedTo
  <1>14. ASSUME NEW c \in Feeders, FrameDropped(c) PROVE Fed'
    BY <1>14 DEF FrameDropped, FeedTo, SubName
  <1>15. ASSUME NEW c \in Feeders, PipelineError(c) PROVE Fed'
    BY <1>15 DEF PipelineError
  <1>16. ASSUME NEW c \in Feeders, NEW caps \in Samples, Sample(c, caps) PROVE Fed'
    BY <1>16 DEF Sample, FeedTo, Shown, Enough
  <1>17. CASE UNCHANGED vars
    BY <1>17 DEF vars
  <1> HIDE DEF TypeOK, Fed, LiveApart, BootFirst, SubName, Feeders, Callers
  <1> QED
    BY <1>1, <1>2, <1>3, <1>4, <1>5, <1>6, <1>7, <1>8, <1>9,
       <1>10, <1>11, <1>12, <1>13, <1>14, <1>15, <1>16, <1>17, NextCases

-----------------------------------------------------------------------------

LEMMA LiveStep == LiveInv /\ [Next]_vars => LiveInv'
  BY TypeStep, ReportedStep, ApartStep, BootStep, CompleteStep, SubscriptionStep,
     FedStep DEF LiveInv

LEMMA LiveAlways == Spec => []LiveInv
  BY LiveInitially, LiveStep, PTL DEF Spec

\* For any number of sessions probing at the same time, the SDP that make_sdp()
\* caches is complete unless the probe that wrote it met an error.
THEOREM SdpIsComplete == Spec => []SdpComplete
  <1>1. LiveInv => SdpComplete
    BY DEF LiveInv
  <1> QED
    BY <1>1, LiveAlways, PTL

\* For any number of sessions, the subscription "sdp" belongs to a probe at work.
THEOREM SubscriptionIsUsed == Spec => []ProbeSubscription
  <1>1. LiveInv => ProbeSubscription
    BY DEF LiveInv
  <1> QED
    BY <1>1, LiveAlways, PTL

\* Type correctness of the live stream, for any number of sessions and caps fields.
THEOREM LiveTypes == Spec => []TypeOK
  <1>1. LiveInv => TypeOK
    BY DEF LiveInv
  <1> QED
    BY <1>1, LiveAlways, PTL

\* For any number of sessions, the streaming threads of the start-up probe and of
\* the live pipeline stall only when they could not push a frame; a session's only
\* then, or when the start-up probe had failed and sessions probe at once.
THEOREM ThreadsAreFed == Spec => []NoStarvation
  <1>1. LiveInv => NoStarvation
    <2> SUFFICES ASSUME LiveInv, NEW c \in Feeders, feed[c] = "stalled"
                 PROVE  c \in dropped \/ BootFailed
      BY DEF NoStarvation
    <2>1. CASE c \in {Boot, Live}
      BY <2>1 DEF LiveInv, Fed
    <2>2. CASE c \in Sessions
      <3>1. pc[c] \in {"run", "ending"}
        BY DEF LiveInv, Fed
      <3>2. pc[Boot] = "done" /\ got[Boot] = NoSdp
        BY <2>2, <3>1 DEF LiveInv, BootFirst, Probing
      <3> QED
        BY <3>2 DEF BootFailed
    <2> QED
      BY <2>1, <2>2 DEF Feeders, Callers
  <1> QED
    BY <1>1, LiveAlways, PTL

\* The safety DescribeAnswered rests on: for any number of sessions, a streaming
\* thread inside pop() waits on the subscription that holds its name, which the
\* distributors feed, so that the next frame wakes it.  Only sessions that probe at
\* once, the start-up probe having failed, can remove it from under one another.
THEOREM WaitersAreSubscribed ==
    Spec => [](\A c \in Feeders : feed[c] = "pop" => subs[SubName(c)] = on[c] \/ BootFailed)
  <1>1. ASSUME LiveInv, NEW c \in Feeders, feed[c] = "pop"
        PROVE  subs[SubName(c)] = on[c] \/ BootFailed
    <2>1. CASE c \in {Boot, Live}
      BY <1>1, <2>1 DEF LiveInv, Fed
    <2>2. CASE c \in Sessions
      <3>1. pc[c] \in {"run", "ending"}
        BY <1>1 DEF LiveInv, Fed
      <3>2. pc[Boot] = "done" /\ got[Boot] = NoSdp
        BY <1>1, <2>2, <3>1 DEF LiveInv, BootFirst, Probing
      <3> QED
        BY <3>2 DEF BootFailed
    <2> QED
      BY <2>1, <2>2 DEF Feeders, Callers
  <1>2. LiveInv => \A c \in Feeders : feed[c] = "pop" => subs[SubName(c)] = on[c] \/ BootFailed
    BY <1>1
  <1> QED
    BY <1>2, LiveAlways, PTL

\* For any number of sessions, the SDP of the start-up probe is never replaced.
THEOREM SdpIsStable == Spec => SdpStable
  <1>1. ASSUME LiveInv, [Next]_vars PROVE [got[Boot] # NoSdp => sdp' = sdp]_vars
    <2> SUFFICES ASSUME Next, got[Boot] # NoSdp PROVE sdp' = sdp
      BY <1>1
    <2>1. \A c \in Feeders : pc[c] # "write"
      BY <1>1 DEF LiveInv, BootFirst, LiveApart, Probing, Feeders, Callers
    <2>2. CASE SetStream \/ PlayStream
      BY <2>2 DEF SetStream, PlayStream
    <2>3. ASSUME NEW c \in Callers, Describe(c) \/ LaunchFails(c) PROVE sdp' = sdp
      BY <2>3 DEF Describe, LaunchFails
    <2>4. ASSUME NEW c \in Feeders, Check(c) \/ Launch(c) \/ Message(c) \/ Stop(c) \/ Unsubscribe(c)
          PROVE  sdp' = sdp
      BY <2>4 DEF Check, Launch, Message, Stop, Unsubscribe
    <2>5. ASSUME NEW c \in Feeders, NeedData(c) \/ Frame(c) \/ NoSample(c) \/ FrameDropped(c)
                                      \/ PipelineError(c)
          PROVE  sdp' = sdp
      BY <2>5 DEF NeedData, Frame, NoSample, FrameDropped, PipelineError
    <2>6. ASSUME NEW c \in Feeders, NEW caps \in Samples, Sample(c, caps) PROVE sdp' = sdp
      BY <2>6 DEF Sample
    <2>7. \A c \in Feeders : ~Write(c)
      BY <2>1 DEF Write
    <2> QED
      BY <2>2, <2>3, <2>4, <2>5, <2>6, <2>7, NextCases
  <1> QED
    BY <1>1, LiveAlways, PTL DEF Spec, SdpStable
=============================================================================
