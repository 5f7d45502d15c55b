# A TLA+ verification of RPI-CAM

RPI-CAM is the camera side of a monitoring system on a Raspberry Pi. One process
(`src/rpi_cam_app`) captures frames from a V4L2 device, hands copies of them to
uploaded *event programs*, streams them by multicast and RTSP, cuts clips for events
and talks HTTP to a server. It is C++ with threads everywhere: the camera thread, the
distributor threads of the frame queue, one thread per event program, the streaming
threads of GStreamer, the thread pool of libmicrohttpd, one thread per RTSP session
and a removal thread. Most of what can go wrong is in how these threads meet.

This directory holds one module per component, an `MC...` module and `.cfg` files for
TLC, a `...Proofs` module for what TLAPS proves, and `PROJECT.json`, which ties every
definition to the lines it models, every hazard to a line and to the properties that
guard it, and every property to a defective variant of a definition that breaks it
(the definitions named `Faulty...`).

## 1. Inventory

Paths are relative to `src/rpi_cam_app/src`.

| Component | State | Operations | Talks to |
|---|---|---|---|
| **Frame queue** `camera_device/VideoQueue.cpp` | `_input`, `_current_frame_no`, `_q_enable`, `_thread_info`, `_output`, two mutexes, a mutex and condition variable per subscriber | `push`, `pop`, `insert_event`, `remove_event`, `distribute_buffer`, constructor, destructor | camera (push), event programs and streams (pop) |
| **Camera capture** `camera_device/CameraInitializer.cpp` | descriptor, mapped buffers, buffers at the driver | `init`, `start`, `loop`, `stop` | V4L2, frame queue |
| **Program upload** `http/EventHandlerHTTP.cpp`, `http/post_request_complete.cpp` | `_upload_client`, a `connection_info` per request, the directories `event/<name>` | `program_accept`, `iterate_program_post`, `post_request_complete` | libmicrohttpd, file system; the event programs read what it wrote |
| **Live stream** `rtsp/handler/gst_live` | `_sdp_str`, `_codec_info`, pipelines | `make_sdp`, `set_stream`, `play_stream`, callbacks | frame queue, GStreamer, RTSP sessions |
| **RTSP session and listener** `rtsp/session`, `rtsp/server` | socket, request, `_url_path`, `_file_path`, `_handler`; the map `_path`, shared by all | `do_accept`, `handle_session`, `run`, `read`, `destroy` | client, handlers |
| **File playback** `rtsp/handler/gst_file` | `_rtp_info`, pipeline, sockets | DESCRIBE, SETUP, PLAY, PAUSE, TEARDOWN | GStreamer, RTSP session |
| **Event programs** `event` | `_event_thread`, a processor and thread per program | `start_event`, `stop_event`, `event_loop`, `event_exec`, `EventInitializer::init` | frame queue, upload's directories, HTTP requests |
| **Event clips** `video/VideoHandler.cpp`, `video/VideoInitializer.cpp`, `config/VideoConfig.cpp` | recordings, clips, `_file_lock`, the removal thread | `process_video`, `remove_video`, `split_time`, `video_send` | file system, GStreamer, HTTP requests, server |
| **Registration** `http/HttpInitializer.cpp` | the uuid file, `EventHandlerHTTP::_uuid`, the HTTP daemon | `init`, `camerainfo_send` | server, file system |
| **Configuration, start-up, logging** | `config.json`, singletons | lazy creation, reading | everyone |

What is hard in each, and what makes it correct:

* *Frame queue.* Several distributors share one input and one counter; subscribers
  come, sleep and go. Correct: no frame lost, duplicated or freed twice; every name
  gets its frames in order, those it is due and only those; no lost wake-up; threads
  end when they should. `pop()` works on the maps without the mutex that protects them.
* *Camera.* A buffer must not be with the driver while it is copied; every ioctl can
  fail; a device that stalls must be noticed. Correct: one owner per buffer, every
  frame copied once and in order, the loop ends on a stall.
* *Upload.* Requests are served in pieces on several threads, and end in any way or, as
  the daemon sets no time-out, not at all. Correct: slots are balanced and come back; a
  program directory never mixes two uploads and is whole unless the file system failed;
  the answer says what happened.
* *Live stream.* Start-up and every DESCRIBE may run a probe, on one `_sdp_str`, one
  `_codec_info` and one subscription name, without a lock. Correct: the SDP is
  complete and stable, probes do not starve each other, every DESCRIBE is answered.
* *RTSP session.* Requests in any order, clients that vanish, two places that delete
  the session. Correct: deleted once, one handler, ended with its client, and kept
  or ended as the answer says.
* *File playback.* DESCRIBE keeps its SDP in one file for all sessions without a mapped
  target, without a lock, and in `_codec_info`, which it does not delete first. Correct:
  the answer is the whole SDP, and no codec information is lost.
* *Event programs.* `stop_event()` deletes a processor under its thread and leaves its
  address in a map without a lock. Correct: stopping one program does not touch
  another; the process does not die of starting programs; queued frames are run, once.
* *Event clips.* Recordings are removed by age while events need them, a mutex is
  released by hand on every return, the clip is sent later by another thread, and times
  overflow 32 bits. Correct: a clip holds what it should, from files that stay, is sent
  as made, and every request is answered.
* *Registration.* The process may die between creating the uuid file, writing it and
  telling the server. Correct: one identity, never replaced, told to the server as it is
  stored.

The full list of hazards, each at its line, is `hazards` in `PROJECT.json`.

## 2. Plan

Order: the component everything else depends on first, then what clients reach, then
how the parts meet.

1. `VideoQueue`, with proofs: done.
2. `ProgramUpload`, with proofs: done.
3. `CameraDevice`, with proofs: done.
4. `LiveStream`, with proofs; it uses the queue by what its consumers rely on: done.
5. `RtspSession`, with proofs; it uses `LiveStream`'s DESCRIBE as one step: done.
6. `FrameFeed`, the abstract promise of the queue, and the refinement, checked and
   proved: done.
7. `EventPrograms`, composed with the queue and with the directories an upload leaves;
   types and the safety of the other programs proved: done.
8. `VideoClips`, and 9. `CameraRegistration`, composed in `ServerLink`, with proofs: done.
10. `FileDescribe`, composed with the sessions in `RtspServer`, with proofs: done.

Left: playing a file over RTSP, which no target of this program reaches today, and the
lazy creation of `ProgramConfig`. Every invariant and every action property that a passing
run checks is the statement of a theorem; what is left to prove is more of what the
liveness properties rest on, component by component.

## 3. The modules

**`VideoQueue`.** A frame is the number of its push; a `ThreadInfo` is named by the
consumer that allocated it. `input`, `frameNo`, `enabled`, `thread_info`, `queues` and
`output` are `_input`, `_current_frame_no`, `_q_enable`, `_thread_info` and the keys
and queues of `_output`; owners stand for mutexes. `Push` is `push()`; `DPark` to
`DExit` are one iteration of `distribute_buffer()`, which keeps `_input_mutex` from
`DTake` to `DFinish`; `Insert...` is `insert_event()`; `Destroy` is the destructor.

`pop()` holds only the mutex of a `ThreadInfo` it has looked up, and the subscription may
have been replaced since; `remove_event()` holds `_thread_info_mutex`, which `pop()` never
takes. Both are therefore split at each access to shared state. `PopCheck` is the test at
the top, `PopFind` and `PopLock` look up and lock the mutex and look up the condition
variable, `PopTest` evaluates the predicate, `PopSleep` releases the mutex and sleeps,
`PopAwake` looks at `_is_run` again, `PopFront` is `front()`, `PopDrop` is the `pop()` of
the queue and the return, `PopErase` the end of a stopped subscription, `PopFault` a
look-up that finds nothing. `RemoveTouch` is the mutex locked and released at once,
`RemoveFront` and `RemoveDrop` one frame deleted and taken off, `RemoveQueue`,
`RemoveStop` and `RemoveErase` what follows. The other steps are code under a mutex that
every thread concerned takes.

A name is `Contended` while a `pop()` works on it under a mutex that is not that of the
subscription in force, which the distributors and newer consumers take, or while
`remove_event()` drains its queue. Two threads may then read one `front()` and both
`pop()`, a push and its notification may fall between a test and a sleep, and a queue
may be drained under a consumer. All this happens in the model; `mixed` records the names
it may have happened to, and the promises about one name end there. `front()` of a queue
that has been emptied so gives 0, no frame. Data races, a division by zero and use after
destruction (`Fault`) may end the process or go unnoticed; where they go unnoticed the
accesses behave as if ordered. A division by zero that does not trap gives 0, as on the
Raspberry Pi's processor. Condition variables may wake spuriously.

**`FrameFeed`.** What the queue promises, with neither threads nor locks: a name has a
feed that grows by exactly the frames due to it while it is subscribed, of which the
oldest is taken first; when it is not, what is left is dropped from the front or goes to
the next subscription. A name may be `spoilt`, and then nothing is promised for it any
more. The mapping `Promise` in `VideoQueue` reads the abstract state off the detailed one:
a name is `on` while it is in both maps and not being drained, it has been served up to
`last`, the last frame of its feed or the frame at which it subscribed, `waiting` and
`taken` are its output queue and what `pop()` has handed out, and the spoilt names are the
`mixed` ones. `ImplementsFeed` is the abstract specification under that mapping.

**`ProgramUpload`.** A form field is the number of its pieces received: `assign()`
makes a later piece of a name or a rate replace an earlier one. `Busy`, `Accept`,
`AcceptFails`, `Receive`, `End` are `program_accept()` and its iterator; `Complete`
and `Clear` to `Finish` are `post_request_complete()`, one step per file-system call
because no lock covers them. The mutex of the slot counter makes each of its uses one
step. Calls of the file system and the creation of the post processor may fail: a file
may not open, what is written to it may not arrive, which the code never asks (`Writing`),
and `remove_all()` may throw when any of the files are gone (`RemovedInPart`). `damaged`
records the names a write or a removal has failed on since the directory was last
removed. A client may send everything, go away (`Abandon`) or fall silent: the daemon is
started without a time-out (`HttpInitializer.cpp:79-94`), so nothing ends a silent one.

**`CameraDevice`.** The driver fills buffers in the order they were queued (`Capture`,
external). `SetFormat`, `SetBuffer`, `QueueAll` are `init()`; `StreamOn` to `Requeue`
are `start()` and `loop()`; `DequeueFails` includes `stop()`. `main()` calls `start()`
whatever `init()` returned, and so does the model.

**`LiveStream`.** `boot` is the progress of `VideoInitializer::start()`; a caller's
`pc` walks through `make_sdp()`; `feed` is the streaming thread of a pipeline, whose
callbacks are `NeedData`, `Frame`, `Sample`. The SDP is the set of codec parameters it
was written from and its author; timestamps and texts are left out. That the profile
is read from the field `a-framerate` (`Shown`) is kept.

**`RtspSession`.** `pc` walks through `handle_session()`, `run()` (whose recursion is
a loop) and `read()`. The program's map holds only `/live`, so any other target gets a
file handler without a file: its SETUP never starts a pipeline, its other methods meet
a null `_rtp_info` or a pipeline that cannot change state. Exceptions nobody catches
on the session's thread end the process (`crashed`); a reset may also follow an orderly
close, when a response meets a closed socket. `read()` returns a variable no
branch assigns, because each branch shadows it: `Decide` chooses any value.

**`FileDescribe`.** `describe_request()` of the file handler as such a session calls it:
with an empty path, whose SDP file is `.sdp` for all of them. `Look` and `Read` find it;
`Make`, `OpenFile` and `WriteFile` probe, empty the file and fill it. A probe that finds
no file to read ends with an error, which the code takes for an SDP like any other.
`Left` is what earlier processes may have left; a stream that writes a few hundred bytes
writes them when it is closed.

**`RtspServer`.** The sessions with that file: a DESCRIBE goes through the steps of
`FileDescribe` before `Handle`, and the handler takes its `_codec_info` with it.

**`EventPrograms`.** A processor is an object at an address (`objects`), its thread uses
it through that address (`self`), and `event_thread` is the map `_event_thread`, which
keeps addresses of what has been deleted; the allocator may give the memory of a deleted
processor to a new one or not (`Free`). `Construct` and `Emplace` are `start_event()`,
`RemoveEvent`, `Lookup` and `Delete` are `stop_event()`: three steps, between which
other callers come in. `InitNext` is `EventInitializer::init()`; `FinalCall` is the last
call of `/program/start` and `/program/stop`, which queues no response and may come
again. `Begin` to `Exec` are `event_loop()`, `pop()` and `event_exec()`. A directory's
enable file may hold 1 or 0 or be missing, its rate may be one the camera can give, zero
or above `_device_fps`, which makes the step zero; a member whose file is missing keeps
whatever value memory holds. `Upload` is `ProgramUpload` seen from here: a directory
removed, perhaps in part, and given its rate and its enable file, but never the `.so` the
processor loads. `Fault` and `PushFault` are a use of a deleted processor, a null program,
a division by a rate or step of zero, or a name removed under `pop()`; they may go
unnoticed where the hardware would not notice.

Each operation of the queue is one step here, since `VideoQueue` has its detail. That is
right while the threads of a name use one `ThreadInfo` (`OneInfo`): its mutex then orders
them. It is not when a name has been stopped or found disabled, and what the module says
of frames (`RunOnce`, `FrameIsRun`) is said of the other names. What it says of processors
and of deaths does not depend on it.

**`CameraRegistration`.** `HttpInitializer::init()` one step at a time: drawing the uuid,
creating the file, writing it, making the HTTP handler (which reads the file by itself),
telling the server, starting the daemon. `Restart` may come between any two; the file is
what remains. Opening, writing, reading and sending may fail.

**`VideoClips`.** Time is in seconds and a recording is named by the second it begins.
`StartJoin`, `NoJoin` and `Joined` are `process_video()`, with its early returns, the error
of a pipeline it takes for success (a clip that is `failed`) and the bus loop without a
limit, which nothing makes `Joined` leave; the recorder (`Tick`) is external.
`RemoveBegin` to `RemoveEnd` are `remove_video()` and its thread; `SendClip` is the thread
that sends the clip, without `_file_lock`.
`SplitSeconds` is `split_time()` in 32-bit arithmetic and the division that follows it.

**`ServerLink`.** The two together, as `main()` starts them: requests come when the daemon
is up and the handler exists, the removal starts after registration whatever it returned,
and `Reboot` takes down all that is not on disk.

`MCVideoQueue`, `MCProgramUpload`, `MCLiveStream`, `MCRtspServer`, `MCEventPrograms` and
`MCServerLink` give the constants values; `CameraDevice` needs none.

## 4. The runs

| Run | Instance | What it shows |
|---|---|---|
| `queue_steady` | 2 distributors, 3 consumers of 2 names, rate 2, 3 frames; fair | With fixed subscriptions: types, `Conservation`, `OnlyDueFrames`, no undefined behaviour (`Sound`), no deadlock, and every due frame reaches its subscriber (`FrameReachesConsumer`) |
| `queue_churn` | 2 distributors, 3 frames, an event at the full rate that is stopped at any time and started again or twice, its first thread perhaps disabled; a thread may end between two pops, and the process may exit | `InOrder`, `NothingSkipped`, `ParkedMeansEmpty`, `NoLeakedCopy`, `InputNoticed` through subscriptions and removals, and the refinement `ImplementsFeed` |
| `queue_removed` | one event, removed; fair | **violation** of `RemovedConsumerEnds` |
| `upload` | 2 uploads of every kind of form, 1 slot, all calls may fail, writes and removals in part; fair | types, `SlotsBalanced`, `OneUploadKept`, `SlotComesBack` |
| `upload_saved` | 2 good uploads of one name | **violation** of `SavedMeansSaved` |
| `camera` | 3 buffers, 5 frames, all calls may fail; fair | `OneOwner`, `FramesCopiedInOrder`, `StallEndsLoop` |
| `live` | start-up and 2 sessions, GStreamer may fail; fair | types, `SdpComplete`, `ProbeSubscription`, `NoStarvation`, `SdpStable`, `DescribeAnswered` |
| `rtsp` | 2 connections, 2 requests each, any order, one SDP file, absent or empty at first, whose calls may fail; fair | types, `DeletedOnce`, `OneHandler`, `CodecInfoKept`, `DescribeWhole`, `SessionEnds` |
| `programs` | a program on disk that is in order, disabled with a rate too high, or without its enable file; 2 requests, 2 threads, 2 addresses, 1 stop of a name, 1 upload, 1 frame; fair | `OneStopSparesOthers`, `CrashExplained`, `RunOnce`, `FrameIsRun` |
| `programs_stop` | the same with 2 stops and no upload | **violation** of `StopSparesOthers` |
| `link` | recordings of 1 s kept for 3 s, clips of 1 s on either side, 4 s, 2 events, 2 ids, 2 starts; fair | `InputsStay`, `ClipCoversWindow`, `SentAsMade`, `OneIdentity`, `IdentityKept`, `EventAnswered` |
| `clips_split` | split-time 40 and maintain 120 as documented, 1 event, 41 s | **violation** of `ClipCoversWindow` |

**Bounds and why they are enough.** Two distributors are enough for one to hold the
input while another sleeps, exits or wakes; the code starts a fixed number of equal
threads. Three frames at a device rate of 2 restart the counter and give a
subscription of half the rate a frame to skip; they are also enough for two threads to
read one frame, drop the next and go on to a third. Two consumers of one name arise from a
second start of an event, or a start after a stop; a disabled first one leaves its
subscription and not its queue, which the second takes over with what is in it. Two uploads with one slot meet as a
busy answer or one after the other; in `upload_saved` they meet while being written.
Three buffers and five frames reuse buffers. Two sessions beside the start-up probe
can share a subscription and take it from each other. Two requests per connection are
a first one, which chooses the handler, and a later one, which must not, and one
DESCRIBE that writes the SDP file and one that finds it; a file left whole at first is
what the sessions leave each other. Two addresses
and two threads let a deleted processor's memory be used again under another name, and
two requests meet in the map; b is only uploaded, so it is never loaded, and a is on disk
in the three states that matter. Four seconds with recordings of one let the removal pass
twice and remove recordings, and a request come in time for its clip, too early and too
late; two requests compete for `_file_lock` and may share an id;
two starts are a first one and one that finds what it left; the third kind, a start that
finds what a second one left, leaves the file as it is. What does not
depend on a bound is proved (section 5), and so are the types of `CameraDevice`,
`EventPrograms` and `ServerLink`, on which no run is spent. The distributors are interchangeable, so
`queue_churn`, which checks nothing under fairness, uses symmetry.

**Deadlock** is checked in `queue_steady`. In the others the system may stop: a crash ends
it, sessions and loops end, uploads are over or their clients silent, a stalled pipeline
stays so, and time and requests run out at their bounds.

**Fairness.** Threads that can run do run: weak fairness of each thread's own steps,
which no thread can block for ever since none keeps a mutex. For the distributors it is
strong: a mutex they wait for is taken by consumers again and again, woken for nothing
as often as they like, but comes free each time, and the kernel's queue of waiters lets
each have it in the end. Nothing is assumed of the camera and its failures, of callers
that stop events, of clients, or of spurious wake-ups. For uploads, the library's
threads answer a request that has come whole and report the end of one that was answered
or whose client went away; a client owes nothing, and `SlotComesBack` excepts the one
that falls silent for ever. For the camera, `select()` returns after half a second; a
`VIDIOC_DQBUF` after a failed `select()` may block for ever, and `StallEndsLoop` excepts
it. For the live stream, frames keep coming, and infinitely many samples mean a complete
one: strong fairness of `Telling`, because the payloader repeats the parameter sets
every second (`config-interval`). For RTSP, a session's thread runs except while it
waits for a client that is there, handlers return, and a pipeline without a file reports
its error. For event programs, each program's thread runs, and a program and the server
it reports to return; no request, upload or frame is owed. For clips, a request that
waits for `_file_lock` and the removal run; neither time, nor pipelines, nor the sending
of clips, nor registration is assumed to go on, and `EventAnswered` excepts the case
that some pipeline runs for ever.

**Findings.** Each violation run compares the code with a comment or document of the
repository:

* `queue_removed`: `remove_event()` does not notify, so a consumer asleep in `pop()`
  is never given the `nullptr` meant to end its thread.
* `upload_saved`: "program file saved" is answered before anything is written, and two
  uploads of one name may both be answered so and leave neither.
* `programs_stop`: `stop_event()` leaves the address of what it has deleted in the map; a
  second stop of the name deletes whatever program has that address by then.
* `clips_split`: with the documented split-time of 40 seconds, 40 * 10^9 does not fit
  in an `int`, and a clip leaves out the recording in progress when its window begins.

Other things the code does, which are in the models and on which no run is spent:
`pop()` reads and erases `_thread_info` without the mutex that is documented to protect
it (`MapRace`), and although `VideoQueue.hpp:61` says that there is no race on
`_output`, two threads of one name use its queue under two mutexes after a stop and a
start, when a frame is handed out twice, another is lost or a consumer sleeps beside a
filled queue (`Contended`); a program that is disabled and started twice, or whose rate
is above `_device_fps`, ends the process (`CrashExplained` names both); the writes of an
upload are not checked, so a truncated program is kept, and a removal that throws
part-way leaves a part of a directory (`damaged`); a client that falls silent keeps its
upload slot (`Silent`); `read()` of a session returns a variable that is never assigned
(`Decide`); `.sdp` is read while another session writes it, and an empty one that was
left is served for good (`DescribeWhole` excepts both); an error of the probe makes
`make_sdp()` cache an SDP without codec and return 0 (`SdpComplete` excepts it);
`process_video()` takes an error of its pipeline for the end of the stream (`Joined`),
and does not wait for the part after the event, which `readme/ko/README.md:91-92`
documents, so that only a request that comes later than it gets a whole clip (`InTime`);
a rate beyond `int` throws an exception nobody catches (`TooBig`); a first registration
that fails ends `init()` before the daemon starts, and at later starts the server is not
told again (`Send`); the documented maintain of 120 s is too short for the documented
duration of 120 s, so recordings a clip needs may be gone (the premise of
`ClipCoversWindow`).

`SlotsBalanced` counts slots that are never returned (`lost`) as the code loses them:
it says that nothing else is lost.

## 5. The proofs

All theorems hold for every value of the constants allowed by the named assumptions
(`RateAssumption`, `ThreadAssumption`, `FormAssumption`, `BufferAssumption`,
`CapsAssumption`, `TargetAssumption`, `FileAssumption`, `ProgramAssumption`, `ClipAssumption`,
`LinkAssumption`, and `DirAssumption`, that a missing directory is told from every
directory), which say how the constants relate and that names and markers differ, and
which TLC evaluates in the runs. Three theorems have a hypothesis of their own, on the
constants, because without it the property is false and a run or a finding shows it:
`LastingSubscriptionsAreSound`, `UndisturbedSavesAreTrue` and `ClipShowsItsWindow`.

* `VideoQueueProofs`
  * `TypeCorrect`: `Spec => []TypeOK`, one lemma per group of actions.
  * `FramesConserved`: `Spec => []Conservation`. With `TypeOK` it is inductive: the
    clause on the distributors (the one at work owns the input and holds frame
    `freed + 1`) is what makes the count survive `DTake` and `DFinish`.
  * `DeliveryInOrder`: `Spec => []InOrder`, from `OrderInv == WorkInv /\ Conservation /\
    InOrder /\ FeedBound`. Order alone is not inductive: a delivery appends the frame in
    hand, so one must know that every frame already fed is older (`FeedBound`), which
    rests on `Conservation`; and a `pop()` hands out what it has read earlier, so one must
    know that it is still the head. That is `WorkInv`: a consumer at work holds the mutex
    it looked up (`LockInv`), a `ThreadInfo` belongs to the consumer that allocated it
    (`AllocInv`), a contended name is mixed (`MixInv`), and of the consumers that have
    passed the predicate under one mutex there is one (`OneSure`), for which what it has
    seen stays true until its name is mixed (`SeenInv`). A take then moves the head of the
    queue to the end of `handed` and leaves the feed as it is; a removal thins it.
  * `LastingSubscriptionsAreSound`: `Spec => []Sound` for instances that are
    `Undisturbed`: every consumer pops a name subscribed before the threads run, at a rate
    the camera can give, and nobody stops, leaves, disables or ends anything. `queue_steady`
    is one; the finding of `queue_removed` is what happens without. `SteadyInv` says where a
    consumer is and that the mutex it holds is that of the subscription in force, so that
    no name is ever mixed, and with `WorkInv` a second consumer of the name cannot empty
    the queue in between.
* `VideoQueueFeedProofs`, on top of these
  * `NoWakeUpLost` (`InputNoticed`) from `NoticeInv`: no distributor leaves its loop
    before the end, so a notification that finds nobody asleep finds one on its way.
  * `NoSleeperIsForgotten` (`ParkedMeansEmpty`) from `ParkInv`: a consumer that is about
    to sleep on the subscription in force holds its mutex and has seen the queue empty
    (`Parking`), unless the name is mixed; a distributor that adds a frame wakes it.
  * `NoCopyIsLeaked` (`NoLeakedCopy`) from `MapInv`: who holds the lock (`Holders`), and
    that a subscription without a queue is one being removed (`Linked`).
  * `OnlyItsFrames` (`OnlyDueFrames`) from `DueInv`: what is queued, read or handed out is
    due (`GivenDue`), whoever reads it under whichever mutex, and `CountInv`: the
    restarting counter is the position of the frame in hand (`Counted`), and those still
    to be visited are due it (`Walk`). The arithmetic of the counter is in lemmas of its
    own.
  * `NoFrameIsSkipped` (`NothingSkipped`) from `SkipInv`: a subscriber that is due the
    frame in hand has it or will still be visited (`Pass`), and by `WorkInv` no `pop()`
    drops a frame it has not read.
  * `QueueImplementsFeed`: `Spec => ImplementsFeed`. Each step of the queue is a step of
    `FrameFeed` under `Promise` or leaves it as it is. A step changes the view of one name
    at most (`Apart`, `SameView`), and a step that mixes a name is its `Spoil`, whatever
    else it does; `FeedInv` collects the invariants above and says that a subscription
    begins after what the name was given (`Opening`).
* `ProgramUploadProofs`
  * `SlotsAccounted`: `Spec => []SlotsBalanced`, from `SlotInv`, with cardinality facts
    from the library.
  * `UploadTypesCorrect` and `OneUploadIsKept` (`OneUploadKept`), from `SaveInv`: while no
    two have written a name at once it has one writer (`OneWriter`), whose place tells
    what is in the directory, or that a call or a write has failed (`Stages`), and a
    directory at rest is of one upload, and whole unless it is damaged (`Settled`).
  * `UndisturbedSavesAreTrue`: what `SavedMeansSaved`, which `upload_saved` refutes, is
    true of. If the file system does not fail and no two uploads of a name were at work at
    once, "program file saved" means that each name uploaded has a directory with one
    whole upload. `AnswerInv`: the answer "saved" is given only to a received request
    (`SavedAnswers`), which nothing but an overlap makes fail afterwards (`NoFailure`) or
    damages (`Undamaged`); a directory once written is there or being rewritten (`Kept`).
* `CameraDeviceProofs`: `CameraTypesCorrect`, `BufferHasOneOwner`,
  `FramesAreCopiedInOrder`, from `CameraInv`: when the thread holds a buffer (`Held`),
  that each buffer is in one place (`Placed`), and that the frames copied, in hand and
  filled follow each other (`Numbered`). `Numbered` needs `Placed`: the driver fills only
  a buffer nobody is reading.
* `LiveStreamProofs`: `LiveTypes`, `SdpIsComplete`, `SubscriptionIsUsed`, `ThreadsAreFed`,
  `WaitersAreSubscribed` and `SdpIsStable`, from `LiveInv`: a probe past its loop has met
  an error or `codec` is full (`Reported`); the live pipeline never runs the probe's code (`LiveApart`);
  sessions act only after start-up, and no session is probing once the start-up probe has
  succeeded (`BootFirst`), which is why `_sdp_str` is safe without a lock in the ordinary
  case; a streaming thread lives no longer than its pipeline and its subscription, and
  waits on no other (`Fed`). `WaitersAreSubscribed` is the safety `DescribeAnswered` rests
  on: a thread inside `pop()` waits where the next frame is put, unless the start-up probe
  has failed and sessions remove the one subscription "sdp" from under each other.
* `RtspSessionProofs`: `ServerImplements`: every step of `RtspServer` is a step or a
  stutter of `RtspSession` and of `FileDescribe`, so what holds of each holds of both.
  `SessionTypes`, `SessionDeletedOnce`, `SessionHasOneHandler`, from
  `SessionInv`: the socket of a session at work is open, so that `run()` never deletes it
  on the way in, and its handler is the one its first target calls for (`KindOf`).
  `SessionKeepsCodecInfo` and `EmptySdpNeedsAnother`, from `FileInv`: an empty file is
  being written or was left so, and a session that has made its codec information finds
  a file when it looks again.
* `EventProgramsProofs`: `StopSparesOtherPrograms`, from `OnceInv == Shape /\ (Once =>
  Safe)`: while no name is stopped twice, an entry that is going to be used is the
  program of its name (`Made`, `Entries`), one request at most stops a name
  (`OneStopper`), nobody can reach what a caller is about to enter in the map (`Apart`),
  and a thread's processor is deleted only if its name was stopped (`Threading`).
  `ProgramTypes` adds the other types (`Bounds`).
  * `DeathsAreExplained` (`CrashExplained`) from `CrashInv`. An explanation, once true,
    must stay so: threads are numbered as they are started (`InOrder`), a processor in use
    is not replaced while nothing is stopped, so one started without its program, with a
    rate that is not good or disabled beside another of its name stays `Lost`; and while
    none is, a running thread's name is subscribed (`Subscribed`), so that `pop()` finds
    it.
  * The safety `FrameIsRun` rests on, from `FramesInv`: a frame of a program is queued,
    in the hand of one of its threads or run, and in one of these places only
    (`FramesApart`). So `NoFrameIsRunTwice` (`RunOnce`), though several threads may pop one
    name; `GivenFrameIsKept`: no step loses it; both for names whose threads use one
    `ThreadInfo` (`OneInfo`); and `NoFrameIsMissing`: from the first on, a program that is not stopped is given every
    frame, also when it is started again, as long as no name is stopped twice (`Given`,
    `Buried`). `FramesInv` was model-checked before on the instance of `programs` with
    two frames.
* `ServerLinkProofs`: every step of the whole is a step of each part or none, so what
  holds of the parts holds of the whole. `OneIdentityTold` and `IdentityNeverReplaced`
  from `RegInv`, which says for each step of `init()` what is in the file;
  `InputsAreKept`, inductive with the types; `LockIsHeldInside`, the safety
  `EventAnswered` rests on: `_file_lock` is held by the request whose pipeline runs or by
  the removal, and is free after every return; `ClipSentIsTheOneMade` from `SentInv`,
  whose clip is where; `ClipShowsItsWindow` from `FilesInv`, what is on disk: for a
  split-time of 1 or 2 seconds, the values for which the product fits in 32 bits
  (`SplitFits`), a request handled after its window has passed and while maintain covers
  it is given exactly the recordings that show it; `LinkTypes`.

Left to TLC: liveness under fairness (`FrameReachesConsumer`, `SlotComesBack`,
`StallEndsLoop`, `DescribeAnswered`, `SessionEnds`, `FrameIsRun`, `EventAnswered`) and
everything with `ENABLED`, which the prover does not treat; what would need induction over
data; and the violations behind the findings. No module uses a recursive operator.

## 6. What is not modelled

* Playing a file over RTSP: no target of this program leads to a file that exists, so
  file handlers are modelled only as far as a session can reach them: DESCRIBE without a
  file, SETUP that does not start, and the rest without a pipeline.
* Reading `config.json`, which happens once and before any thread; its values are the
  constants of the modules. The singletons' `call_once` is one step.
* The external recorder of the video files, libmicrohttpd, GStreamer, Boost and V4L2,
  beyond the behaviour the code relies on.
* Loss of power: `Restart` is the death of the process, after which what was written is
  there.
* Image content, RTP timestamps, the text of SDP, HTTP and log messages.
* Code that is not compiled or never called; the Yocto recipes.
* The vendored logging and formatting library (spdlog, fmt), which is about four fifths of
  the lines under `src/rpi_cam_app`: it keeps no state of this system. What is mapped is
  therefore a small share of all lines, though most of the program's own logic.
