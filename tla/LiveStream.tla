----------------------------- MODULE LiveStream -----------------------------
(***************************************************************************)
(* MulticastStreamV4L2: the multicast stream of the camera and the SDP     *)
(* that describes it to RTSP clients.                                      *)
(*                                                                         *)
(* make_sdp() runs a probe pipeline over frames of the subscription "sdp"  *)
(* until a sample has shown the codec's parameters, and keeps the text in  *)
(* _sdp_str.  It is called at start-up and by every DESCRIBE, each on a    *)
(* thread of its own, and takes no lock.  play_stream() runs the pipeline  *)
(* that sends the subscription "live".                                     *)
(*                                                                         *)
(* A pipeline has a streaming thread, which asks for data (need-data) and  *)
(* delivers samples (new-sample), beside the thread that waits for its     *)
(* messages.  The queue is used here by what its consumers rely on: see    *)
(* VideoQueue for its own threads.  Timestamps and texts are left out.     *)
(***************************************************************************)
EXTENDS Naturals

CONSTANTS
    Boot,           \* the thread of VideoInitializer::start()
    Sessions,       \* RTSP sessions, each sending one DESCRIBE
    Live,           \* the streaming thread of the multicast pipeline
    Fields,         \* the caps fields new_sample looks for
    Samples,        \* the caps a sample may have
    MayFail,        \* whether calls of GStreamer may fail
    NoOne, NoSdp

Callers == {Boot} \cup Sessions
Feeders == Callers \cup {Live}

ASSUME CapsAssumption ==
    /\ Boot \notin Sessions /\ Live \notin Callers /\ NoOne \notin Callers \cup {Live}
    /\ {"a-framerate", "profile-level-id"} \subseteq Fields
    /\ Samples \subseteq SUBSET Fields /\ MayFail \in BOOLEAN
    /\ \A c \in Callers, known \in SUBSET Fields : NoSdp # [by |-> c, codec |-> known]

VARIABLES
    boot,           \* how far VideoInitializer::start() has got
    pc,             \* where each call of make_sdp(), and the live pipeline, is
    sdp,            \* _sdp_str
    codec,          \* the members of _codec_info that are set
    got,            \* what each call has handed to its caller; NoSdp: it returned -1
    subs,           \* who holds the subscriptions "sdp" and "live" in VideoQueue
    feed, on,       \* the streaming threads, and the subscription each waits on
    msg,            \* the message on the bus of each pipeline
    dropped,        \* history: pipelines whose callback could not push a frame
    crashed         \* a buffer has been released twice

vars == <<boot, pc, sdp, codec, got, subs, feed, on, msg, dropped, crashed>>

SubName(c) == IF c = Live THEN "live" ELSE "sdp"

Goto(c, l) == pc' = [pc EXCEPT ![c] = l]
FeedTo(c, l) == feed' = [feed EXCEPT ![c] = l]

Init ==
    /\ boot = "probe"
    /\ pc = [c \in Feeders |-> IF c = Boot THEN "check" ELSE "idle"]
    /\ sdp = NoSdp /\ codec = {} /\ got = [c \in Callers |-> NoSdp]
    /\ subs = [n \in {"sdp", "live"} |-> NoOne]
    /\ feed = [c \in Feeders |-> "off"] /\ on = [c \in Feeders |-> NoOne]
    /\ msg = [c \in Feeders |-> "none"]
    /\ dropped = {} /\ crashed = FALSE

-----------------------------------------------------------------------------
(* VideoInitializer::start() after its first call of make_sdp().           *)

SetStream ==
    /\ boot = "probe" /\ pc[Boot] = "done"
    /\ Goto(Live, "paused") \/ (MayFail /\ Goto(Live, "broken"))
    /\ boot' = "play"
    /\ UNCHANGED <<sdp, codec, got, subs, feed, on, msg, dropped, crashed>>

\* The subscription, and the thread that starts the pipeline, if there is one.
FaultyNoSubscription(c) == subs
Subscribe(c) ==
    [subs EXCEPT ![SubName(c)] = IF @ = NoOne THEN c ELSE @]

PlayStream ==
    /\ boot = "play"
    /\ subs' = Subscribe(Live)
    /\ IF pc[Live] = "paused" THEN Goto(Live, "run") /\ FeedTo(Live, "idle")
                              ELSE UNCHANGED <<pc, feed>>
    /\ boot' = "listening"
    /\ UNCHANGED <<sdp, codec, got, on, msg, dropped, crashed>>

-----------------------------------------------------------------------------
(* make_sdp().                                                             *)

\* A DESCRIBE arrives: the listener accepts sessions at the end of start().
Describe(c) ==
    /\ c \in Sessions /\ boot = "listening" /\ pc[c] = "idle"
    /\ Goto(c, "check")
    /\ UNCHANGED <<boot, sdp, codec, got, subs, feed, on, msg, dropped, crashed>>

FaultyNoCache == FALSE
Cached == sdp # NoSdp

Check(c) ==
    /\ pc[c] = "check"
    /\ IF Cached THEN Goto(c, "done") /\ got' = [got EXCEPT ![c] = sdp]
                 ELSE Goto(c, "link") /\ UNCHANGED got
    /\ UNCHANGED <<boot, sdp, codec, subs, feed, on, msg, dropped, crashed>>

\* The elements are linked; the subscription precedes the first need-data.  It
\* is refused, and the refusal not noticed, while another probe has it.
Launch(c) ==
    /\ pc[c] = "link"
    /\ subs' = Subscribe(c)
    /\ Goto(c, "run") /\ FeedTo(c, "idle")
    /\ UNCHANGED <<boot, sdp, codec, got, on, msg, dropped, crashed>>

LaunchFails(c) ==
    /\ MayFail /\ pc[c] = "link"
    /\ Goto(c, "done")
    /\ UNCHANGED <<boot, sdp, codec, got, subs, feed, on, msg, dropped, crashed>>

\* The loop over the bus ends with the first message, error or not.
FaultyErrorOnly(c) == msg[c] = "error"
HasMessage(c) == msg[c] # "none"

Message(c) ==
    /\ pc[c] = "run" /\ HasMessage(c)
    /\ Goto(c, "ending")
    /\ UNCHANGED <<boot, sdp, codec, got, subs, feed, on, msg, dropped, crashed>>

\* GST_STATE_NULL waits for the streaming thread, which may be inside pop().
Stop(c) ==
    /\ pc[c] = "ending" /\ feed[c] # "pop"
    /\ Goto(c, IF c = Live THEN "done" ELSE "remove") /\ FeedTo(c, "off")
    /\ UNCHANGED <<boot, sdp, codec, got, subs, on, msg, dropped, crashed>>

\* remove_event("sdp"), whoever's subscription it is.
FaultyKeep == subs
FaultyForget == [n \in DOMAIN subs \ {"sdp"} |-> subs[n]]
Unsubscribed == [subs EXCEPT !["sdp"] = NoOne]

Unsubscribe(c) ==
    /\ pc[c] = "remove"
    /\ subs' = Unsubscribed
    /\ Goto(c, "write")
    /\ UNCHANGED <<boot, sdp, codec, got, feed, on, msg, dropped, crashed>>

\* The SDP is written from whatever _codec_info holds, and 0 returned.
Write(c) ==
    /\ pc[c] = "write"
    /\ sdp' = [by |-> c, codec |-> codec]
    /\ got' = [got EXCEPT ![c] = sdp']
    /\ Goto(c, "done")
    /\ UNCHANGED <<boot, codec, subs, feed, on, msg, dropped, crashed>>

-----------------------------------------------------------------------------
(* The callbacks of the streaming threads.                                 *)

\* need-data: pop() returns nullptr at once when the name is not subscribed.
\* A callback that pushes nothing is not called again.
NeedData(c) ==
    /\ feed[c] = "idle"
    /\ IF subs[SubName(c)] = NoOne THEN FeedTo(c, "stalled") /\ UNCHANGED on
       ELSE FeedTo(c, "pop") /\ on' = [on EXCEPT ![c] = subs[SubName(c)]]
    /\ UNCHANGED <<boot, pc, sdp, codec, got, subs, msg, dropped, crashed>>

\* A frame comes: only the subscription that is waited on wakes the thread.
Frame(c) ==
    /\ feed[c] = "pop" /\ subs[SubName(c)] = on[c]
    /\ FeedTo(c, IF c = Live THEN "idle" ELSE "pushed")
    /\ UNCHANGED <<boot, pc, sdp, codec, got, subs, on, msg, dropped, crashed>>

\* No buffer, or appsrc refuses it.  play_need_data() then releases a buffer
\* that gst_app_src_push_buffer() has released.
FrameDropped(c) ==
    /\ MayFail /\ feed[c] = "pop" /\ subs[SubName(c)] = on[c]
    /\ FeedTo(c, "stalled")
    /\ dropped' = dropped \cup {c}
    /\ crashed' \in (IF c = Live THEN BOOLEAN ELSE {FALSE})
    /\ UNCHANGED <<boot, pc, sdp, codec, got, subs, on, msg>>

\* What a sample's caps set.  profile_level is read from the field a-framerate.
Shown(caps) ==
    IF "a-framerate" \in caps THEN caps ELSE caps \ {"profile-level-id"}

FaultyAnyField(known) == known # {}
Enough(known) == known = Fields

\* new-sample: EOS as soon as nothing is missing.
Sample(c, caps) ==
    /\ feed[c] = "pushed"
    /\ codec' = codec \cup Shown(caps)
    /\ IF Enough(codec')
       THEN FeedTo(c, "over") /\ msg' = [msg EXCEPT ![c] = IF @ = "none" THEN "eos" ELSE @]
       ELSE FeedTo(c, "idle") /\ UNCHANGED msg
    /\ UNCHANGED <<boot, pc, sdp, got, subs, on, dropped, crashed>>

\* A frame the encoder keeps.
NoSample(c) ==
    /\ feed[c] = "pushed" /\ FeedTo(c, "idle")
    /\ UNCHANGED <<boot, pc, sdp, codec, got, subs, on, msg, dropped, crashed>>

PipelineError(c) ==
    /\ MayFail /\ pc[c] = "run" /\ msg[c] = "none"
    /\ msg' = [msg EXCEPT ![c] = "error"]
    /\ UNCHANGED <<boot, pc, sdp, codec, got, subs, feed, on, dropped, crashed>>

-----------------------------------------------------------------------------

Caller(c) == Check(c) \/ Launch(c) \/ Message(c) \/ Stop(c) \/ Unsubscribe(c) \/ Write(c)
Streaming(c) == NeedData(c) \/ Frame(c) \/ NoSample(c) \/ \E caps \in Samples : Sample(c, caps)
Telling(c) == Sample(c, Fields)

Next ==
    /\ ~crashed
    /\ \/ SetStream \/ PlayStream
       \/ \E c \in Callers : Describe(c) \/ LaunchFails(c)
       \/ \E c \in Feeders : Caller(c) \/ Streaming(c) \/ FrameDropped(c) \/ PipelineError(c)

Spec == Init /\ [][Next]_vars

\* Threads run, the camera keeps delivering frames (Streaming), and among the
\* samples of an unending stream there are complete ones: the payloader repeats
\* the parameters every second.
Fairness ==
    /\ WF_vars(~crashed /\ (SetStream \/ PlayStream))
    /\ \A c \in Feeders :
        WF_vars(~crashed /\ Caller(c)) /\ WF_vars(~crashed /\ Streaming(c))
    /\ \A c \in Callers : SF_vars(~crashed /\ Telling(c))

FairSpec == Spec /\ Fairness

-----------------------------------------------------------------------------

Sdps == [by : Callers, codec : SUBSET Fields]

TypeOK ==
    /\ boot \in {"probe", "play", "listening"}
    /\ pc \in [Feeders -> {"idle", "check", "link", "run", "ending", "remove", "write", "done",
                           "paused", "broken"}]
    /\ sdp \in Sdps \cup {NoSdp} /\ codec \subseteq Fields
    /\ got \in [Callers -> Sdps \cup {NoSdp}]
    /\ subs \in [{"sdp", "live"} -> Feeders \cup {NoOne}]
    /\ feed \in [Feeders -> {"off", "idle", "pop", "pushed", "stalled", "over"}]
    /\ on \in [Feeders -> Feeders \cup {NoOne}]
    /\ msg \in [Feeders -> {"none", "eos", "error"}]
    /\ dropped \subseteq Feeders /\ crashed \in BOOLEAN

\* The probe at start-up could not link its elements.
BootFailed == pc[Boot] = "done" /\ got[Boot] = NoSdp

\* The cached SDP names every parameter of the codec, unless the probe that
\* wrote it was ended by an error: probes that run at the same time fill one
\* _codec_info, and none ends before it is full.
SdpComplete == sdp # NoSdp /\ msg[sdp.by] # "error" => sdp.codec = Fields

\* The subscription "sdp" belongs to a probe still at work, so that no frames
\* pile up in a queue nobody empties.
ProbeSubscription ==
    subs["sdp"] # NoOne => pc[subs["sdp"]] \in {"run", "ending", "remove"}

\* A pipeline's streaming thread is left without a frame to push only if it
\* failed to push one, or if sessions had to probe at the same time because the
\* start-up probe had failed: the subscription is there before the first
\* need-data and until the thread has stopped.
NoStarvation == \A c \in Feeders : feed[c] = "stalled" => c \in dropped \/ BootFailed

\* Sessions never change the SDP of the start-up probe, though _sdp_str has no
\* lock: they come only after it, and find it set.
SdpStable == [][got[Boot] # NoSdp => sdp' = sdp]_vars

\* Every make_sdp() ends, so the listener starts and every DESCRIBE is answered,
\* unless a frame could not be pushed or the start-up probe had failed.
DescribeAnswered ==
    \A c \in Callers :
        pc[c] = "check" ~> pc[c] = "done" \/ crashed \/ dropped # {} \/ BootFailed
=============================================================================
