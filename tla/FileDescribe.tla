---------------------------- MODULE FileDescribe ----------------------------
(***************************************************************************)
(* RTSPSessionHandlerGstFile::describe_request(), as every session without *)
(* a mapped target reaches it: with an empty path.  Its SDP is kept in the *)
(* file named ".sdp", one for all of them, which is read if it is there,   *)
(* and otherwise written once a pipeline has failed for want of a file.    *)
(* Nothing locks it, and what an earlier process left is found again.      *)
(*                                                                         *)
(* The text is a few hundred bytes, which the stream writes when it is     *)
(* closed, all at once: the file is empty or whole.                        *)
(***************************************************************************)

CONSTANTS
    Conns,          \* the sessions
    Left,           \* what earlier processes may have left of ".sdp"
    MayFail         \* whether files and GStreamer elements may fail

VARIABLES
    sdp_file,       \* ".sdp", one of Contents
    dpc,            \* where each session is in describe_request()
    codec,          \* whether its _codec_info is set
    sdp,            \* the SDP of the answer
    torn,           \* history: an earlier process, or a failed write, left ".sdp" empty
    unsaved         \* history: ".sdp" could not be opened

vars == <<sdp_file, dpc, codec, sdp, torn, unsaved>>

Contents == {"absent", "empty", "whole"}

InProgress(c) == dpc[c] \notin {"idle", "answered"}

Init ==
    /\ sdp_file \in Left /\ torn = (sdp_file = "empty")
    /\ dpc = [c \in Conns |-> "idle"] /\ sdp = [c \in Conns |-> "none"]
    /\ codec = [c \in Conns |-> FALSE] /\ unsaved = FALSE

Goto(c, p) == dpc' = [dpc EXCEPT ![c] = p]

Answer(c, text) == Goto(c, "answered") /\ sdp' = [sdp EXCEPT ![c] = text]

\* The stream opened for reading is good.
FaultyFilled == sdp_file = "whole"
Found == sdp_file # "absent"

Look(c) ==
    /\ dpc[c] = "idle"
    /\ \/ Found /\ Goto(c, "read") /\ UNCHANGED unsaved
       \/ ~Found /\ Goto(c, "make") /\ UNCHANGED unsaved
       \/ Found /\ MayFail /\ Goto(c, "make") /\ unsaved' = TRUE
    /\ UNCHANGED <<sdp_file, codec, sdp, torn>>

Read(c) ==
    /\ dpc[c] = "read"
    /\ Answer(c, IF sdp_file = "whole" THEN "whole" ELSE "empty")
    /\ UNCHANGED <<sdp_file, codec, torn, unsaved>>

\* A new H264CodecInfo takes the place of the last one.  When an element is missing it
\* is deleted, and the request answered with an error; otherwise the pipeline reports
\* that it has no file to read, which ends the loop.
Make(c) ==
    /\ dpc[c] = "make"
    /\ \/ Goto(c, "open") /\ codec' = [codec EXCEPT ![c] = TRUE] /\ UNCHANGED sdp
       \/ MayFail /\ Answer(c, "none") /\ codec' = [codec EXCEPT ![c] = FALSE]
    /\ UNCHANGED <<sdp_file, torn, unsaved>>

\* Opening the file for writing empties it.  If it cannot be opened, the SDP is sent
\* all the same.
OpenFile(c) ==
    /\ dpc[c] = "open"
    /\ \/ sdp_file' = "empty" /\ Goto(c, "write") /\ UNCHANGED <<sdp, unsaved>>
       \/ MayFail /\ Answer(c, "whole") /\ unsaved' = TRUE /\ UNCHANGED sdp_file
    /\ UNCHANGED <<codec, torn>>

\* What the stream holds when it is closed.
FaultyNothing == "empty"
Written == "whole"

\* The result of writing is not looked at.
WriteFile(c) ==
    /\ dpc[c] = "write" /\ Answer(c, "whole")
    /\ \/ sdp_file' = Written /\ UNCHANGED torn
       \/ MayFail /\ torn' = TRUE /\ UNCHANGED sdp_file
    /\ UNCHANGED <<codec, unsaved>>

Work(c) == Look(c) \/ Read(c) \/ Make(c) \/ OpenFile(c) \/ WriteFile(c)

\* The answer has been sent.
Leave(c) ==
    /\ dpc[c] = "answered" /\ Goto(c, "idle") /\ sdp' = [sdp EXCEPT ![c] = "none"]
    /\ UNCHANGED <<sdp_file, codec, torn, unsaved>>

\* The destructor of the handler.
Forget(c) ==
    /\ codec' = [codec EXCEPT ![c] = FALSE]
    /\ UNCHANGED <<sdp_file, dpc, sdp, torn, unsaved>>

Next == \E c \in Conns : Work(c) \/ Leave(c) \/ Forget(c)

Spec == Init /\ [][Next]_vars

-----------------------------------------------------------------------------

TypeOK ==
    /\ sdp_file \in Contents
    /\ dpc \in [Conns -> {"idle", "read", "make", "open", "write", "answered"}]
    /\ codec \in [Conns -> BOOLEAN] /\ sdp \in [Conns -> {"none", "empty", "whole"}]
    /\ torn \in BOOLEAN /\ unsaved \in BOOLEAN

\* A successful DESCRIBE carries the SDP, read or made, and not an empty text, unless
\* another session is describing at that moment or ".sdp" had been left empty, by an
\* earlier process or for want of space.
DescribeWhole ==
    [][\A c \in Conns : sdp[c] # "empty" /\ sdp'[c] = "empty" =>
            torn \/ \E d \in Conns \ {c} : InProgress(d)]_vars

\* A session that describes again finds what it has saved: it never makes a second
\* H264CodecInfo, which would lose the first, unless ".sdp" could not be opened.
CodecInfoKept == \A c \in Conns : dpc[c] = "make" /\ codec[c] => unsaved
=============================================================================
