---------------------------- MODULE RtspSession ----------------------------
(***************************************************************************)
(* The RTSP server: RTSPListenerImpl accepts connections and gives each a  *)
(* thread that runs one RTSPSessionImpl, whose first request chooses the   *)
(* handler (live stream or file) for all of them.                          *)
(*                                                                         *)
(* Requests come in any order and the client may close or reset the        *)
(* connection at any moment.  VideoInitializer maps only /live to a path,  *)
(* so the file handler serves the targets that have none: its SETUP cannot *)
(* start a pipeline, and its PLAY, PAUSE and TEARDOWN find no pipeline.    *)
(* What DESCRIBE does for the live handler is module LiveStream, and for   *)
(* the file handler FileDescribe, composed with this one in RtspServer.    *)
(***************************************************************************)
EXTENDS Integers

CONSTANTS
    Conns,          \* connections, each accepted at most once
    LiveUrl, Others,\* the target mapped to the camera, and targets that are not
    NoPath,         \* a target with no "/" after the host
    MaxRequests     \* bound on the requests of a connection

Targets == {LiveUrl, NoPath} \cup Others
Methods == {"OPTIONS", "DESCRIBE", "SETUP", "PLAY", "PAUSE", "TEARDOWN", "other"}

ASSUME TargetAssumption ==
    /\ LiveUrl \notin Others /\ NoPath \notin Others \cup {LiveUrl}
    /\ "" \notin Others \cup {LiveUrl} /\ MaxRequests \in Nat

VARIABLES
    pc,             \* where the thread of each connection is
    peer,           \* the client: "up", "closed" or "reset"
    open,           \* whether _socket is open
    url,            \* _url_path, "" before the first request
    asked,          \* requests read
    req,            \* the request being handled
    handler,        \* the kind of _handler
    rtp,            \* whether _rtp_info of a file handler is set
    path,           \* the keys of _path, shared by all sessions
    made,           \* history: handlers created by each session
    destroyed,      \* history: how often each session has been deleted
    crashed         \* undefined behaviour or an exception has ended the process

vars == <<pc, peer, open, url, asked, req, handler, rtp, path, made, destroyed, crashed>>
session == <<url, handler, rtp, path, made>>

NoRequest == [method |-> "none", target |-> NoPath]

Init ==
    /\ pc = [c \in Conns |-> "none"] /\ peer = [c \in Conns |-> "up"]
    /\ open = [c \in Conns |-> FALSE] /\ url = [c \in Conns |-> ""]
    /\ asked = [c \in Conns |-> 0] /\ req = [c \in Conns |-> NoRequest]
    /\ handler = [c \in Conns |-> "none"] /\ rtp = [c \in Conns |-> FALSE]
    /\ path = {LiveUrl} /\ made = [c \in Conns |-> 0] /\ destroyed = [c \in Conns |-> 0]
    /\ crashed = FALSE

Goto(c, l) == pc' = [pc EXCEPT ![c] = l]

-----------------------------------------------------------------------------
(* The listener and the client.                                            *)

\* async_accept() completes: the session is built on a thread of its own.
Accept(c) ==
    /\ pc[c] = "none"
    /\ open' = [open EXCEPT ![c] = TRUE] /\ Goto(c, "run")
    /\ UNCHANGED <<peer, asked, req, session, destroyed, crashed>>

\* A response sent to a client that has closed in good order provokes a reset too.
Hangup(c) ==
    /\ pc[c] \notin {"none", "done"} /\ peer[c] # "reset"
    /\ peer' \in {[peer EXCEPT ![c] = p] : p \in {"closed", "reset"} \ {peer[c]}}
    /\ UNCHANGED <<pc, open, asked, req, session, destroyed, crashed>>

-----------------------------------------------------------------------------
(* run().                                                                  *)

\* The session deletes itself when it finds the socket closed.
Enter(c) ==
    /\ pc[c] = "run"
    /\ Goto(c, IF open[c] THEN "read" ELSE "return")
    /\ destroyed' = IF open[c] THEN destroyed ELSE [destroyed EXCEPT ![c] = @ + 1]
    /\ UNCHANGED <<peer, open, asked, req, session, crashed>>

FaultyNoFilePath(c) == url[c] \in {""} \cup Others
IsFirst(c) == url[c] = ""

\* A request is read, from what the socket has buffered if the client is gone.
\* Only the target of the first one is looked at.
Request(c) ==
    /\ pc[c] = "read" /\ asked[c] < MaxRequests
    /\ \E m \in Methods, t \in (IF IsFirst(c) THEN Targets ELSE {url[c]}) :
        req' = [req EXCEPT ![c] = [method |-> m, target |-> t]]
    /\ asked' = [asked EXCEPT ![c] = @ + 1]
    /\ Goto(c, "choose")
    /\ UNCHANGED <<peer, open, session, destroyed, crashed>>

\* The client has closed: the socket is closed, unless a reset has followed and
\* shutdown() throws, which is caught here; run() returns, all the way.
FaultyRunAgain == "run"
AfterClose == "return"

EndOfStream(c) ==
    /\ pc[c] = "read" /\ peer[c] # "up"
    /\ \/ open' = [open EXCEPT ![c] = FALSE]
       \/ peer[c] = "reset" /\ UNCHANGED open
    /\ Goto(c, AfterClose)
    /\ UNCHANGED <<peer, asked, req, session, destroyed, crashed>>

\* Any other error, a malformed or unfinished request too.  After a reset
\* shutdown() may throw, and nothing catches it.
FaultyReadOn == "run"
AfterError == "return"

SocketError(c) ==
    /\ pc[c] = "read"
    /\ \/ Goto(c, AfterError) /\ UNCHANGED crashed
       \/ peer[c] = "reset" /\ crashed' = TRUE /\ UNCHANGED pc
    /\ UNCHANGED <<peer, open, asked, req, session, destroyed>>

-----------------------------------------------------------------------------
(* read().                                                                 *)

\* The first request chooses the handler; looking a target up adds it to the
\* map.  substr() throws for a target with no path.
Choose(c) ==
    LET t == req[c].target IN
    /\ pc[c] = "choose"
    /\ IF ~IsFirst(c) THEN Goto(c, "handle") /\ UNCHANGED <<session, crashed>>
       ELSE IF t = NoPath THEN crashed' = TRUE /\ UNCHANGED <<pc, session>>
       ELSE /\ url' = [url EXCEPT ![c] = t] /\ path' = path \cup {t}
            /\ handler' = [handler EXCEPT ![c] = IF t = LiveUrl THEN "live" ELSE "file"]
            /\ made' = [made EXCEPT ![c] = @ + 1]
            /\ Goto(c, "handle") /\ UNCHANGED <<rtp, crashed>>
    /\ UNCHANGED <<peer, open, asked, req, destroyed>>

\* Two sessions work on the map at once, one of them inserting.
MapRace(c, d) ==
    /\ c # d /\ pc[c] = "choose" /\ pc[d] = "choose" /\ IsFirst(c) /\ IsFirst(d)
    /\ req[c].target \in Others \ path
    /\ crashed' = TRUE
    /\ UNCHANGED <<pc, peer, open, asked, req, session, destroyed>>

\* What the file handler's SETUP leaves in _rtp_info; when an element is missing
\* it is deleted again.
AfterHandler(c) ==
    IF handler[c] = "file" /\ req[c].method = "SETUP" THEN BOOLEAN ELSE {rtp[c]}

NeedsRtp(c) == handler[c] = "file" /\ req[c].method \in {"PLAY", "PAUSE", "TEARDOWN"}

\* The handler's method and write_rtsp(), whose results go to an inner ret: they
\* are lost at the end of the branch.  A method of another name has no branch.
Handle(c) ==
    /\ pc[c] = "handle" /\ ~(NeedsRtp(c) /\ ~rtp[c])
    /\ rtp' \in {[rtp EXCEPT ![c] = r] : r \in AfterHandler(c)}
    /\ Goto(c, "decide") /\ req' = [req EXCEPT ![c] = NoRequest]
    /\ UNCHANGED <<peer, open, url, asked, handler, path, made, destroyed, crashed>>

\* _rtp_info is a null pointer; or remote_endpoint() throws; or substr() does,
\* for a SETUP whose Transport header is too short.
HandleFaults(c) ==
    /\ pc[c] = "handle"
    /\ \/ NeedsRtp(c) /\ ~rtp[c]
       \/ peer[c] = "reset" /\ req[c].method # "other"
       \/ req[c].method = "SETUP"
    /\ crashed' = TRUE
    /\ UNCHANGED <<pc, peer, open, asked, req, session, destroyed>>

\* The outer ret is returned without having been assigned: the session goes on or
\* ends, whatever write_rtsp() has returned.
Decide(c) ==
    /\ pc[c] = "decide"
    /\ Goto(c, "run") \/ Goto(c, "return")
    /\ UNCHANGED <<peer, open, asked, req, session, destroyed, crashed>>

-----------------------------------------------------------------------------
(* handle_session() after run(): the session and its handler are deleted.  *)

FaultyNoTest(c) == made[c] - 1
HandlersLeft(c) == IF handler[c] = "none" THEN made[c] ELSE made[c] - 1

Destroy(c) ==
    /\ pc[c] = "return"
    /\ destroyed' = [destroyed EXCEPT ![c] = @ + 1]
    /\ made' = [made EXCEPT ![c] = HandlersLeft(c)]
    /\ handler' = [handler EXCEPT ![c] = "none"] /\ rtp' = [rtp EXCEPT ![c] = FALSE]
    /\ url' = [url EXCEPT ![c] = ""] /\ open' = [open EXCEPT ![c] = FALSE]
    /\ Goto(c, "done")
    /\ UNCHANGED <<peer, asked, req, path, crashed>>

Thread(c) ==
    \/ Enter(c) \/ Request(c) \/ EndOfStream(c) \/ SocketError(c) \/ Choose(c) \/ Handle(c)
    \/ HandleFaults(c) \/ Decide(c) \/ Destroy(c)

Next ==
    /\ ~crashed
    /\ \E c \in Conns : Accept(c) \/ Hangup(c) \/ Thread(c) \/ \E d \in Conns : MapRace(c, d)

Spec == Init /\ [][Next]_vars

\* The threads of the sessions run and the handlers' methods return; a client
\* that is there owes nothing.
Due(c) == ~crashed /\ (pc[c] = "read" => peer[c] # "up")
FairSpec == Spec /\ \A c \in Conns : WF_vars(Due(c) /\ Thread(c))

-----------------------------------------------------------------------------

TypeOK ==
    /\ pc \in [Conns -> {"none", "run", "read", "choose", "handle", "decide", "return", "done"}]
    /\ peer \in [Conns -> {"up", "closed", "reset"}] /\ open \in [Conns -> BOOLEAN]
    /\ url \in [Conns -> {"", LiveUrl} \cup Others] /\ asked \in [Conns -> Nat]
    /\ req \in [Conns -> [method : Methods \cup {"none"}, target : Targets]]
    /\ handler \in [Conns -> {"none", "live", "file"}] /\ rtp \in [Conns -> BOOLEAN]
    /\ path \subseteq Targets /\ made \in [Conns -> Nat] /\ destroyed \in [Conns -> Nat]
    /\ crashed \in BOOLEAN

\* A session is deleted exactly once, by handle_session(), and never while it
\* is at work, although run() deletes it too when it finds its socket closed.
DeletedOnce ==
    \A c \in Conns : destroyed[c] = (IF pc[c] = "done" THEN 1 ELSE 0)

\* A session has at most one handler, however its requests follow each other,
\* uses none before it is there, and leaves none behind.
OneHandler ==
    \A c \in Conns :
        /\ made[c] = (IF url[c] = "" THEN 0 ELSE 1)
        /\ pc[c] \in {"handle", "decide"} => handler[c] = (IF url[c] = LiveUrl THEN "live" ELSE "file")

\* The session of a client that has gone ends, and its thread with it.
SessionEnds ==
    \A c \in Conns : peer[c] # "up" ~> pc[c] = "done" \/ crashed
=============================================================================
