---------------------------- MODULE CameraDevice ----------------------------
(***************************************************************************)
(* camera_device::CameraInitializer: the thread that sets the V4L2 device  *)
(* up and moves frames from its mapped buffers to VideoQueue::push().      *)
(*                                                                         *)
(* main() calls init() and then start(), and looks at neither result.  The *)
(* driver fills queued buffers on its own; a frame is its number.  It is   *)
(* modelled by the streaming protocol the ioctl calls rely on: buffers are *)
(* filled and handed back in the order in which they were queued.          *)
(***************************************************************************)
EXTENDS Integers, Sequences, FiniteSets

CONSTANTS
    NBuf,           \* N_CAM_BUF
    MaxFrames,      \* bound on the frames the device delivers
    MayFail         \* whether calls of the device may fail

ASSUME BufferAssumption == NBuf \in Nat \ {0} /\ MaxFrames \in Nat /\ MayFail \in BOOLEAN

VARIABLES
    pc,             \* where the camera thread is
    fd, allocated,  \* the device is open, VIDIOC_REQBUFS has succeeded
    mapped,         \* the entries of _camera_buffers that mmap() has filled
    incoming, done, \* driver: buffers queued, buffers filled
    content,        \* the frame in each buffer
    streaming,      \* driver: VIDIOC_STREAMON is in force
    index,          \* the buffer dequeued last, -1 if none
    ret,            \* what start() has returned, -1 before
    out,            \* the frames given to VideoQueue::push()
    captured,       \* history: frames the device has delivered
    lost,           \* history: buffers whose VIDIOC_QBUF has failed
    interrupted,    \* history: select() has failed
    crashed         \* a copy from an address mmap() did not return

vars == <<pc, fd, allocated, mapped, incoming, done, content, streaming, index, ret, out,
          captured, lost, interrupted, crashed>>
driver == <<incoming, done, content, streaming, captured, lost>>
setup == <<fd, allocated, mapped>>

Buffers == 0 .. NBuf - 1

Init ==
    /\ pc = "format" /\ fd = FALSE /\ allocated = FALSE /\ mapped = {} /\ streaming = FALSE
    /\ incoming = <<>> /\ done = <<>> /\ content = [b \in Buffers |-> 0]
    /\ index = -1 /\ ret = -1 /\ out = <<>> /\ captured = 0 /\ lost = {}
    /\ interrupted = FALSE /\ crashed = FALSE

-----------------------------------------------------------------------------
(* init(): after a failure start() is called all the same.                 *)

\* Only open() leaves the descriptor invalid.
SetFormat ==
    /\ pc = "format"
    /\ \/ fd' = TRUE /\ pc' = "buffers"
       \/ MayFail /\ fd' \in BOOLEAN /\ pc' = "start"
    /\ UNCHANGED <<driver, allocated, mapped, index, ret, out, interrupted, crashed>>

\* The result of mmap() is not looked at.
SetBuffer ==
    /\ pc = "buffers"
    /\ \/ allocated' = TRUE /\ mapped' = Buffers /\ pc' = "queue"
       \/ MayFail /\ allocated' = TRUE /\ mapped' \in SUBSET Buffers /\ pc' = "queue"
       \/ /\ MayFail /\ allocated' \in BOOLEAN /\ pc' = "start"
          /\ mapped' \in {0 .. k - 1 : k \in IF allocated' THEN Buffers ELSE {0}}
    /\ UNCHANGED <<driver, fd, index, ret, out, interrupted, crashed>>

AllBuffers == 0 .. NBuf - 1

\* The members of S in ascending order, the order of the loop.
InLoopOrder(S) ==
    {s \in [1 .. Cardinality(S) -> S] : \A i, j \in DOMAIN s : i < j => s[i] < s[j]}

\* Failures of VIDIOC_QBUF are ignored.
QueueAll ==
    /\ pc = "queue"
    /\ \E failing \in (IF MayFail THEN SUBSET Buffers ELSE {{}}) :
        /\ lost' = failing
        /\ incoming' \in InLoopOrder(AllBuffers \ failing)
    /\ pc' = "start"
    /\ UNCHANGED <<done, content, streaming, captured, setup, index, ret, out, interrupted, crashed>>

-----------------------------------------------------------------------------
(* start() and loop().                                                     *)

StreamOn ==
    /\ pc = "start"
    /\ \/ fd /\ allocated /\ streaming' = TRUE /\ pc' = "select" /\ UNCHANGED ret
       \/ (MayFail \/ ~fd \/ ~allocated) /\ ret' = 1 /\ pc' = "ended" /\ UNCHANGED streaming
    /\ UNCHANGED <<incoming, done, content, captured, lost, setup, index, out, interrupted, crashed>>

\* The driver fills the oldest queued buffer.
Capture ==
    /\ streaming /\ incoming # <<>> /\ captured < MaxFrames
    /\ captured' = captured + 1
    /\ content' = [content EXCEPT ![Head(incoming)] = captured + 1]
    /\ done' = Append(done, Head(incoming)) /\ incoming' = Tail(incoming)
    /\ UNCHANGED <<pc, setup, streaming, lost, index, ret, out, interrupted, crashed>>

SelectReady ==
    /\ pc = "select" /\ done # <<>>
    /\ pc' = "dequeue"
    /\ UNCHANGED <<driver, setup, index, ret, out, interrupted, crashed>>

\* select() fails: the loop goes on to dequeue, which waits for a frame.
SelectFails ==
    /\ MayFail /\ pc = "select"
    /\ pc' = "dequeue" /\ interrupted' = TRUE
    /\ UNCHANGED <<driver, setup, index, ret, out, crashed>>

\* Half a second without a frame ends the loop; the stream stays on.
FaultyRetry == "select"
AfterTimeout == "ended"

SelectTimeout ==
    /\ pc = "select" /\ done = <<>>
    /\ pc' = AfterTimeout /\ ret' = 1
    /\ UNCHANGED <<driver, setup, index, out, interrupted, crashed>>

\* The buffers queued at the driver after deque_v4l2_buffer() has got buffer b.
FaultyQueueAtOnce(b) == Append(incoming, b)
WhileHeld(b) == incoming

Dequeue ==
    /\ pc = "dequeue" /\ done # <<>>
    /\ index' = Head(done) /\ done' = Tail(done) /\ incoming' = WhileHeld(Head(done))
    /\ pc' = "copy"
    /\ UNCHANGED <<content, streaming, captured, lost, setup, ret, out, interrupted, crashed>>

\* VIDIOC_DQBUF fails: stop(), and start() returns 0.
DequeueFails ==
    /\ MayFail /\ pc = "dequeue"
    /\ \/ streaming' = FALSE /\ incoming' = <<>> /\ done' = <<>>
       \/ UNCHANGED <<streaming, incoming, done>>
    /\ ret' = 0 /\ pc' = "ended"
    /\ UNCHANGED <<content, captured, lost, setup, index, out, interrupted, crashed>>

\* The copy to a new VideoBuffer, and push().
Copy ==
    /\ pc = "copy"
    /\ IF index \in mapped
       THEN out' = Append(out, content[index]) /\ pc' = "requeue" /\ UNCHANGED crashed
       ELSE crashed' = TRUE /\ UNCHANGED <<out, pc>>
    /\ UNCHANGED <<driver, setup, index, ret, interrupted>>

\* A buffer the driver refuses is out of use for good.
FaultyIndex == 0
QueuedIndex == index

Requeue ==
    /\ pc = "requeue"
    /\ \/ incoming' = Append(incoming, QueuedIndex) /\ UNCHANGED lost
       \/ MayFail /\ lost' = lost \cup {index} /\ UNCHANGED incoming
    /\ index' = -1 /\ pc' = "select"
    /\ UNCHANGED <<done, content, streaming, captured, setup, ret, out, interrupted, crashed>>

Step ==
    \/ SetFormat \/ SetBuffer \/ QueueAll \/ StreamOn
    \/ SelectReady \/ SelectTimeout \/ Dequeue \/ Copy \/ Requeue

Next == ~crashed /\ (Capture \/ Step \/ SelectFails \/ DequeueFails)

Spec == Init /\ [][Next]_vars

\* The camera thread runs; select() returns after half a second at the latest.
\* The device owes nothing, neither frames nor the failure of a call.
FairSpec == Spec /\ WF_vars(~crashed /\ Step)

-----------------------------------------------------------------------------

TypeOK ==
    /\ pc \in {"format", "buffers", "queue", "start", "select", "dequeue", "copy", "requeue", "ended"}
    /\ fd \in BOOLEAN /\ allocated \in BOOLEAN /\ streaming \in BOOLEAN /\ interrupted \in BOOLEAN
    /\ crashed \in BOOLEAN /\ mapped \subseteq Buffers /\ lost \subseteq Buffers
    /\ incoming \in Seq(Buffers) /\ done \in Seq(Buffers) /\ content \in [Buffers -> Nat]
    /\ index \in Buffers \cup {-1} /\ ret \in {-1, 0, 1}
    /\ out \in Seq(Nat) /\ captured \in Nat

\* The buffer in the camera thread's hands, as a sequence.
InHand == IF index = -1 THEN <<>> ELSE <<index>>

\* No buffer is in two places: queued, filled, in the camera thread's hands or
\* out of use, whatever calls have failed.
OneOwner ==
    LET held == incoming \o done \o InHand IN
    /\ \A i, j \in 1 .. Len(held) : held[i] = held[j] => i = j
    /\ \A i \in 1 .. Len(held) : held[i] \notin lost

\* Every frame the device delivers is pushed once and in order, and none is
\* overwritten by the driver before it has been copied.
FramesCopiedInOrder ==
    LET filled == (IF pc = "copy" THEN InHand ELSE <<>>) \o done IN
    /\ out \o [i \in 1 .. Len(filled) |-> content[filled[i]]]
           = [i \in 1 .. Len(out) + Len(filled) |-> i]
    /\ pc # "ended" => Len(out) + Len(filled) = captured

\* The loop notices a device that delivers no more frames, or that has lost
\* every buffer, unless select() itself has failed and left it waiting.
StallEndsLoop ==
    captured = MaxFrames \/ Cardinality(lost) = NBuf ~> pc = "ended" \/ interrupted \/ crashed
=============================================================================
