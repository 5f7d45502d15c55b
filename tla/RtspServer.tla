----------------------------- MODULE RtspServer -----------------------------
(***************************************************************************)
(* The RTSP sessions (RtspSession) with what DESCRIBE does for a target    *)
(* that is not mapped (FileDescribe): the sessions share the file it reads *)
(* and writes, and the death of one ends them all.                         *)
(***************************************************************************)
EXTENDS RtspSession

CONSTANTS Left, MayFail     \* those of FileDescribe

ASSUME FileAssumption == Left \subseteq {"absent", "empty", "whole"} /\ MayFail \in BOOLEAN

VARIABLES sdp_file, dpc, codec, sdp, torn, unsaved

File == INSTANCE FileDescribe

fileVars   == <<sdp_file, dpc, codec, sdp, torn, unsaved>>
serverVars == <<vars, fileVars>>

ServerInit == Init /\ File!Init

\* The thread of c is in describe_request() of a file handler, or about to be.
Describing(c) == pc[c] = "handle" /\ handler[c] = "file" /\ req[c].method = "DESCRIBE"

\* remote_endpoint() is called first and may throw; then comes describe_request().
Describe(c) ==
    /\ Describing(c)
    /\ \/ dpc[c] = "idle" /\ HandleFaults(c) /\ UNCHANGED fileVars
       \/ File!Work(c) /\ UNCHANGED vars
       \/ Handle(c) /\ File!Leave(c)

\* The handler goes with its session.
Delete(c) == Destroy(c) /\ File!Forget(c)

OtherSteps(c) ==
    /\ ~Describing(c) /\ pc[c] # "return"
    /\ Thread(c) /\ UNCHANGED fileVars

ServerThread(c) == Describe(c) \/ Delete(c) \/ OtherSteps(c)

ServerNext ==
    /\ ~crashed
    /\ \E c \in Conns :
        \/ ServerThread(c)
        \/ /\ Accept(c) \/ Hangup(c) \/ \E d \in Conns : MapRace(c, d)
           /\ UNCHANGED fileVars

\* As in RtspSession; the pipeline of a probe reports its error.
ServerSpec == ServerInit /\ [][ServerNext]_serverVars
ServerFairSpec == ServerSpec /\ \A c \in Conns : WF_serverVars(Due(c) /\ ServerThread(c))

-----------------------------------------------------------------------------

ServerTypeOK == TypeOK /\ File!TypeOK

\* File!DescribeWhole: no successful DESCRIBE is answered with an empty SDP unless two
\* meet or ".sdp" had been left empty.
DescribeWhole == File!DescribeWhole

\* File!CodecInfoKept: no session makes a second H264CodecInfo unless ".sdp" could not
\* be opened.
CodecInfoKept == File!CodecInfoKept
=============================================================================
