-------------------------- MODULE RtspSessionProofs --------------------------
(***************************************************************************)
(* Type correctness, the single deletion of a session and its single       *)
(* handler, for any number of connections, targets and requests; and the   *)
(* file the sessions share.  The steps of RtspServer are steps of          *)
(* RtspSession and of FileDescribe, each of which is proved about alone.   *)
(***************************************************************************)
EXTENDS RtspServer, TLAPS

\* The socket of a session at work is open, so that Enter() never deletes it, and
\* its handler is the one its first target calls for.
AtWork == {"run", "read", "choose", "handle", "decide"}
KindOf(u) == IF u = "" THEN "none" ELSE IF u = LiveUrl THEN "live" ELSE "file"

SessionInv ==
    /\ DeletedOnce
    /\ \A c \in Conns :
        /\ pc[c] \in AtWork => open[c]
        /\ pc[c] \in {"handle", "decide"} => url[c] # ""
        /\ made[c] = (IF url[c] = "" THEN 0 ELSE 1)
        /\ handler[c] = KindOf(url[c])

Inv == TypeOK /\ SessionInv

Places == {"none", "run", "read", "choose", "handle", "decide", "return", "done"}
Asking == [method : Methods \cup {"none"}, target : Targets]

USE DEF session

LEMMA InitInv == Init => Inv
<1>. SUFFICES ASSUME Init PROVE Inv
  OBVIOUS
<1>1. NoRequest \in Asking
  BY DEF NoRequest, Asking, Targets
<1>2. req \in [Conns -> Asking]
  BY <1>1 DEF Init
<1>3. path \subseteq Targets
  BY DEF Init, Targets
<1>4. TypeOK
  BY <1>2, <1>3 DEF Init, TypeOK, Asking
<1>5. SessionInv
  BY DEF Init, SessionInv, DeletedOnce, AtWork, KindOf
<1>. QED
  BY <1>4, <1>5 DEF Inv

\* Counting up in a function of numbers.
LEMMA CountUp ==
    ASSUME NEW S, NEW f \in [S -> Nat], NEW g, NEW c \in S, g = [f EXCEPT ![c] = @ + 1]
    PROVE  g \in [S -> Nat] /\ g[c] = f[c] + 1
OBVIOUS

\* TypeOK without the request, which SessionInv does not depend on.
LEMMA Shape ==
    ASSUME Inv
    PROVE  /\ DOMAIN pc = Conns /\ open \in [Conns -> BOOLEAN]
           /\ url \in [Conns -> {"", LiveUrl} \cup Others] /\ DOMAIN handler = Conns
           /\ made \in [Conns -> Nat] /\ destroyed \in [Conns -> Nat]
           /\ pc = [c \in Conns |-> pc[c]] /\ handler = [c \in Conns |-> handler[c]]
BY DEF Inv, TypeOK

-----------------------------------------------------------------------------
(* The listener, the client and run(): handler and target stay as they are. *)

LEMMA AcceptInv ==
    ASSUME Inv, NEW c \in Conns, Accept(c) PROVE Inv'
<1>1. TypeOK'
  BY DEF Inv, TypeOK, Accept, Goto
<1>2. SessionInv'
  BY Shape DEF Inv, SessionInv, DeletedOnce, AtWork, KindOf, Accept, Goto
<1>. QED
  BY <1>1, <1>2 DEF Inv

LEMMA HangupInv ==
    ASSUME Inv, NEW c \in Conns, Hangup(c) PROVE Inv'
<1>1. TypeOK'
  BY DEF Inv, TypeOK, Hangup
<1>2. SessionInv'
  BY Shape DEF Inv, SessionInv, DeletedOnce, AtWork, KindOf, Hangup
<1>. QED
  BY <1>1, <1>2 DEF Inv

\* The socket is open here, so the session does not delete itself.
LEMMA EnterInv ==
    ASSUME Inv, NEW c \in Conns, Enter(c) PROVE Inv'
<1>1. open[c]
  BY DEF Inv, SessionInv, AtWork, Enter
<1>2. TypeOK'
  BY <1>1 DEF Inv, TypeOK, Enter, Goto
<1>3. SessionInv'
  BY <1>1, Shape DEF Inv, SessionInv, DeletedOnce, AtWork, KindOf, Enter, Goto
<1>. QED
  BY <1>2, <1>3 DEF Inv

LEMMA RequestInv ==
    ASSUME Inv, NEW c \in Conns, Request(c) PROVE Inv'
<1>1. PICK m \in Methods, t \in (IF IsFirst(c) THEN Targets ELSE {url[c]}) :
        req' = [req EXCEPT ![c] = [method |-> m, target |-> t]]
  BY DEF Request
<1>2. t \in Targets
  <2>1. url[c] \in {"", LiveUrl} \cup Others
    BY DEF Inv, TypeOK
  <2>. QED
    BY <2>1 DEF IsFirst, Targets
<1>3. TypeOK'
  <2>1. [method |-> m, target |-> t] \in Asking
    BY <1>2 DEF Asking
  <2>2. req \in [Conns -> Asking]
    BY DEF Inv, TypeOK, Asking
  <2>3. req' \in [Conns -> Asking]
    BY <1>1, <2>1, <2>2
  <2>4. asked' = [asked EXCEPT ![c] = @ + 1] /\ pc' = [pc EXCEPT ![c] = "choose"]
    BY DEF Request, Goto
  <2>5. UNCHANGED <<peer, open, session, destroyed, crashed>>
    BY DEF Request
  <2>6. asked \in [Conns -> Nat] /\ pc \in [Conns -> Places]
    BY DEF Inv, TypeOK, Places
  <2>7. asked' \in [Conns -> Nat]
    BY <2>4, <2>6
  <2>8. pc' \in [Conns -> Places]
    BY <2>4, <2>6 DEF Places
  <2>. QED
    BY <2>3, <2>5, <2>7, <2>8 DEF Inv, TypeOK, Asking, Places
<1>4. SessionInv'
  BY Shape DEF Inv, SessionInv, DeletedOnce, AtWork, KindOf, Request, Goto
<1>. QED
  BY <1>3, <1>4 DEF Inv

\* Both ends of reading lead to the return of run(), past Enter().
LEMMA EndInv ==
    ASSUME Inv, NEW c \in Conns, EndOfStream(c) \/ SocketError(c) PROVE Inv'
<1>. USE DEF EndOfStream, SocketError, AfterClose, AfterError, Goto
<1>1. TypeOK'
  BY DEF Inv, TypeOK
<1>2. SessionInv'
  <2>1. pc[c] = "read" /\ UNCHANGED <<url, made, handler, destroyed>>
    OBVIOUS
  <2>2. pc' = pc \/ pc' = [pc EXCEPT ![c] = "return"]
    OBVIOUS
  <2>3. open' = open \/ (open' = [open EXCEPT ![c] = FALSE] /\ pc' = [pc EXCEPT ![c] = "return"])
    OBVIOUS
  <2>. QED
    BY <2>1, <2>2, <2>3, Shape DEF Inv, SessionInv, DeletedOnce, AtWork
<1>. QED
  BY <1>1, <1>2 DEF Inv

-----------------------------------------------------------------------------
(* read() and the deletion by handle_session().                            *)

LEMMA ChooseInv ==
    ASSUME Inv, NEW c \in Conns, Choose(c) PROVE Inv'
<1>1. CASE url[c] # ""
  <2>1. TypeOK'
    BY <1>1 DEF Inv, TypeOK, Choose, IsFirst, Goto
  <2>2. /\ pc[c] = "choose" /\ pc' = [pc EXCEPT ![c] = "handle"]
        /\ UNCHANGED <<open, url, handler, made, destroyed>>
    BY <1>1 DEF Choose, IsFirst, Goto
  <2>3. SessionInv'
    <3>1. ASSUME NEW e \in Conns
          PROVE  IF e = c THEN pc[e] = "choose" /\ pc'[e] = "handle" ELSE pc'[e] = pc[e]
      BY <2>2, Shape
    <3>. QED
      BY <1>1, <2>2, <3>1 DEF Inv, SessionInv, DeletedOnce, AtWork
  <2>. QED
    BY <2>1, <2>3 DEF Inv
<1>2. CASE url[c] = "" /\ req[c].target = NoPath
  BY <1>2 DEF Inv, TypeOK, SessionInv, DeletedOnce, Choose, IsFirst
<1>3. CASE url[c] = "" /\ req[c].target # NoPath
  <2>1. req[c].target \in {LiveUrl} \cup Others
    BY <1>3 DEF Inv, TypeOK, Targets
  <2>2. /\ url' = [url EXCEPT ![c] = req[c].target] /\ path' = path \cup {req[c].target}
        /\ handler' = [handler EXCEPT ![c] = KindOf(req[c].target)]
        /\ made' = [made EXCEPT ![c] = @ + 1] /\ pc' = [pc EXCEPT ![c] = "handle"]
        /\ UNCHANGED <<peer, open, asked, req, rtp, destroyed, crashed>>
    BY <1>3, <2>1, TargetAssumption DEF KindOf, Choose, IsFirst, Goto
  <2>3. KindOf(req[c].target) \in {"none", "live", "file"}
    BY DEF KindOf
  <2>4. TypeOK'
    <3>1. url' \in [Conns -> {"", LiveUrl} \cup Others] /\ path' \subseteq Targets
      BY <2>1, <2>2 DEF Inv, TypeOK, Targets
    <3>2. handler' \in [Conns -> {"none", "live", "file"}]
      BY <2>2, <2>3 DEF Inv, TypeOK
    <3>3. pc' \in [Conns -> Places]
      BY <2>2 DEF Inv, TypeOK, Places
    <3>4. made' \in [Conns -> Nat]
      <4>1. made \in [Conns -> Nat]
        BY Shape
      <4>2. made' = [made EXCEPT ![c] = @ + 1]
        BY <2>2
      <4>. QED
        BY <4>1, <4>2, CountUp
    <3>. QED
      BY <2>2, <3>1, <3>2, <3>3, <3>4 DEF Inv, TypeOK, Places
  <2>5. req[c].target # "" /\ made[c] = 0 /\ pc[c] = "choose"
    BY <1>3, <2>1, TargetAssumption DEF Inv, SessionInv, Choose
  <2>6. SessionInv'
    <3>1. DeletedOnce'
      BY <2>2, <2>5, Shape DEF Inv, SessionInv, DeletedOnce
    <3>2. ASSUME NEW e \in Conns
          PROVE  /\ pc'[e] \in AtWork => open'[e]
                 /\ pc'[e] \in {"handle", "decide"} => url'[e] # ""
                 /\ made'[e] = (IF url'[e] = "" THEN 0 ELSE 1)
                 /\ handler'[e] = KindOf(url'[e])
      <4>1. CASE e = c
        <5>1. made'[c] = 1
          <6>1. made \in [Conns -> Nat] /\ made[c] = 0
            BY <2>5, Shape
          <6>2. made' = [made EXCEPT ![c] = @ + 1]
            BY <2>2
          <6>3. made'[c] = made[c] + 1
            BY <6>1, <6>2, CountUp
          <6>. QED
            BY <6>1, <6>3
        <5>2. url'[c] = req[c].target /\ handler'[c] = KindOf(req[c].target)
          BY <2>2, Shape
        <5>3. open'[c]
          BY <2>2, <2>5 DEF Inv, SessionInv, AtWork
        <5>. QED
          BY <2>5, <4>1, <5>1, <5>2, <5>3
      <4>2. CASE e # c
        BY <2>2, <4>2, Shape DEF Inv, SessionInv
      <4>. QED
        BY <4>1, <4>2
    <3>. QED
      BY <3>1, <3>2 DEF SessionInv
  <2>. QED
    BY <2>4, <2>6 DEF Inv
<1>. QED
  BY <1>1, <1>2, <1>3

LEMMA HandleInv ==
    ASSUME Inv, NEW c \in Conns, Handle(c) PROVE Inv'
<1>1. PICK r \in BOOLEAN : rtp' = [rtp EXCEPT ![c] = r]
  BY DEF Inv, TypeOK, Handle, AfterHandler
<1>2. TypeOK'
  <2>1. NoRequest \in Asking
    BY DEF NoRequest, Asking, Targets
  <2>2. req' \in [Conns -> Asking]
    BY <2>1 DEF Inv, TypeOK, Handle, Asking
  <2>. QED
    BY <1>1, <2>2 DEF Inv, TypeOK, Asking, Handle, Goto
<1>3. SessionInv'
  BY Shape DEF Inv, SessionInv, DeletedOnce, AtWork, KindOf, Handle, Goto
<1>. QED
  BY <1>2, <1>3 DEF Inv

LEMMA FaultInv ==
    ASSUME Inv, NEW c \in Conns, HandleFaults(c) \/ \E d \in Conns : MapRace(c, d) PROVE Inv'
<1>1. crashed' \in BOOLEAN
  BY DEF HandleFaults, MapRace
<1>2. UNCHANGED <<pc, peer, open, asked, req, session, destroyed>>
  BY DEF HandleFaults, MapRace
<1>. QED
  BY <1>1, <1>2 DEF Inv, TypeOK, SessionInv, DeletedOnce

LEMMA DecideInv ==
    ASSUME Inv, NEW c \in Conns, Decide(c) PROVE Inv'
<1>1. TypeOK'
  BY DEF Inv, TypeOK, Decide, Goto
<1>2. SessionInv'
  BY Shape DEF Inv, SessionInv, DeletedOnce, AtWork, KindOf, Decide, Goto
<1>. QED
  BY <1>1, <1>2 DEF Inv

LEMMA DestroyInv ==
    ASSUME Inv, NEW c \in Conns, Destroy(c) PROVE Inv'
<1>1. made[c] = (IF url[c] = "" THEN 0 ELSE 1) /\ handler[c] = KindOf(url[c])
  BY DEF Inv, SessionInv
<1>2. HandlersLeft(c) = 0
  <2>1. CASE url[c] = ""
    BY <1>1, <2>1 DEF KindOf, HandlersLeft
  <2>2. CASE url[c] # ""
    <3>1. handler[c] \in {"live", "file"}
      BY <1>1, <2>2 DEF KindOf
    <3>2. made[c] = 1
      BY <1>1, <2>2
    <3>. QED
      BY <3>1, <3>2 DEF HandlersLeft
  <2>. QED
    BY <2>1, <2>2
<1>3. /\ pc[c] = "return" /\ destroyed' = [destroyed EXCEPT ![c] = @ + 1]
      /\ made' = [made EXCEPT ![c] = 0] /\ handler' = [handler EXCEPT ![c] = "none"]
      /\ rtp' = [rtp EXCEPT ![c] = FALSE] /\ url' = [url EXCEPT ![c] = ""]
      /\ open' = [open EXCEPT ![c] = FALSE] /\ pc' = [pc EXCEPT ![c] = "done"]
      /\ UNCHANGED <<peer, asked, req, path, crashed>>
  BY <1>2 DEF Destroy, Goto
<1>4. destroyed' \in [Conns -> Nat] /\ destroyed'[c] = 1
  <2>1. destroyed \in [Conns -> Nat]
    BY Shape
  <2>2. destroyed[c] = 0
    BY <1>3 DEF Inv, SessionInv, DeletedOnce
  <2>3. destroyed' = [destroyed EXCEPT ![c] = @ + 1]
    BY <1>3
  <2>4. destroyed' \in [Conns -> Nat] /\ destroyed'[c] = destroyed[c] + 1
    BY <2>1, <2>3, CountUp
  <2>. QED
    BY <2>2, <2>4
<1>5. TypeOK'
  <2>1. pc' \in [Conns -> Places] /\ url' \in [Conns -> {"", LiveUrl} \cup Others]
    BY <1>3 DEF Inv, TypeOK, Places
  <2>2. handler' \in [Conns -> {"none", "live", "file"}] /\ made' \in [Conns -> Nat]
    BY <1>3 DEF Inv, TypeOK
  <2>3. rtp' \in [Conns -> BOOLEAN] /\ open' \in [Conns -> BOOLEAN]
    BY <1>3 DEF Inv, TypeOK
  <2>. QED
    BY <1>3, <1>4, <2>1, <2>2, <2>3 DEF Inv, TypeOK, Places
<1>6. SessionInv'
  <2>1. DeletedOnce'
    <3>1. pc'[c] = "done"
      BY <1>3, Shape
    <3>2. ASSUME NEW e \in Conns, e # c
          PROVE  destroyed'[e] = destroyed[e] /\ pc'[e] = pc[e]
      BY <1>3, <3>2, Shape
    <3>. QED
      BY <1>4, <3>1, <3>2 DEF Inv, SessionInv, DeletedOnce
  <2>2. ASSUME NEW e \in Conns
        PROVE  /\ pc'[e] \in AtWork => open'[e]
               /\ pc'[e] \in {"handle", "decide"} => url'[e] # ""
               /\ made'[e] = (IF url'[e] = "" THEN 0 ELSE 1)
               /\ handler'[e] = KindOf(url'[e])
    <3>1. CASE e = c
      BY <1>3, <3>1, Shape DEF AtWork, KindOf
    <3>2. CASE e # c
      BY <1>3, <3>2, Shape DEF Inv, SessionInv
    <3>. QED
      BY <3>1, <3>2
  <2>. QED
    BY <2>1, <2>2 DEF SessionInv
<1>. QED
  BY <1>5, <1>6 DEF Inv

-----------------------------------------------------------------------------

LEMMA NextInv == Inv /\ [Next]_vars => Inv'
<1>. SUFFICES ASSUME Inv, [Next]_vars PROVE Inv'
  OBVIOUS
<1>1. CASE UNCHANGED vars
  BY <1>1 DEF vars, Inv, TypeOK, SessionInv, DeletedOnce, AtWork, KindOf
<1>2. CASE Next
  <2>1. PICK c \in Conns : Accept(c) \/ Hangup(c) \/ Thread(c) \/ \E d \in Conns : MapRace(c, d)
    BY <1>2 DEF Next
  <2>. QED
    BY <2>1, AcceptInv, HangupInv, EnterInv, RequestInv, EndInv, ChooseInv, HandleInv,
       FaultInv, DecideInv, DestroyInv DEF Thread
<1>. QED
  BY <1>1, <1>2

LEMMA Invariant == Spec => []Inv
BY InitInv, NextInv, PTL DEF Spec

-----------------------------------------------------------------------------
(* The file.                                                               *)

\* An empty file is being written or has been left so; what a session has made is
\* in the file by the time it looks again.
FileInv ==
    /\ File!TypeOK
    /\ sdp_file = "empty" => torn \/ \E c \in Conns : dpc[c] = "write"
    /\ \A c \in Conns : dpc[c] \in {"read", "write"} => sdp_file # "absent"
    /\ \A c \in Conns : codec[c] => dpc[c] = "open" \/ sdp_file # "absent" \/ unsaved
    /\ CodecInfoKept

USE DEF CodecInfoKept, File!CodecInfoKept, fileVars, File!vars

LEMMA FileInit == File!Init => FileInv
BY FileAssumption DEF File!Init, FileInv, File!TypeOK, File!Contents

LEMMA FileNext == FileInv /\ [File!Next]_fileVars => FileInv'
<1>. SUFFICES ASSUME FileInv, [File!Next]_fileVars PROVE FileInv'
  OBVIOUS
<1>. USE DEF FileInv, File!TypeOK, File!Contents, File!Goto, File!Answer
<1>1. CASE UNCHANGED fileVars
  BY <1>1
<1>2. ASSUME NEW c \in Conns, File!Look(c) PROVE FileInv'
  BY <1>2 DEF File!Look, File!Found
<1>3. ASSUME NEW c \in Conns, File!Read(c) PROVE FileInv'
  BY <1>3 DEF File!Read
<1>4. ASSUME NEW c \in Conns, File!Make(c) PROVE FileInv'
  BY <1>4 DEF File!Make
<1>5. ASSUME NEW c \in Conns, File!OpenFile(c) PROVE FileInv'
  BY <1>5 DEF File!OpenFile
<1>6. ASSUME NEW c \in Conns, File!WriteFile(c) PROVE FileInv'
  BY <1>6 DEF File!WriteFile, File!Written
<1>7. ASSUME NEW c \in Conns, File!Leave(c) \/ File!Forget(c) PROVE FileInv'
  BY <1>7 DEF File!Leave, File!Forget
<1>. QED
  BY <1>1, <1>2, <1>3, <1>4, <1>5, <1>6, <1>7 DEF File!Next, File!Work

\* Only Read() answers with what the file holds.
LEMMA FileAnswers ==
    FileInv /\ [File!Next]_fileVars =>
        [\A c \in Conns : sdp[c] # "empty" /\ sdp'[c] = "empty" =>
            torn \/ \E d \in Conns \ {c} : File!InProgress(d)]_fileVars
<1>. SUFFICES ASSUME FileInv, File!Next, NEW c \in Conns,
                     sdp[c] # "empty", sdp'[c] = "empty", ~torn
              PROVE  \E d \in Conns \ {c} : File!InProgress(d)
  OBVIOUS
<1>. USE DEF FileInv, File!TypeOK, File!Goto, File!Answer
<1>1. PICK e \in Conns : File!Work(e) \/ File!Leave(e) \/ File!Forget(e)
  BY DEF File!Next
<1>2. e = c /\ File!Read(c)
  <2>1. CASE File!Read(e)
    BY <2>1 DEF File!Read
  <2>2. CASE File!Look(e) \/ File!Make(e) \/ File!OpenFile(e) \/ File!WriteFile(e)
    BY <2>2 DEF File!Look, File!Make, File!OpenFile, File!WriteFile
  <2>3. CASE File!Leave(e) \/ File!Forget(e)
    BY <2>3 DEF File!Leave, File!Forget
  <2>. QED
    BY <1>1, <2>1, <2>2, <2>3 DEF File!Work
<1>3. sdp_file # "whole" /\ dpc[c] = "read"
  BY <1>2 DEF File!Read
<1>4. PICK d \in Conns : dpc[d] = "write"
  BY <1>3 DEF File!Contents
<1>. QED
  BY <1>3, <1>4 DEF File!InProgress

-----------------------------------------------------------------------------
(* The server.                                                             *)

\* Every step of the server is a step of the sessions and one of the file, or leaves
\* one of them as it is.
LEMMA ServerSteps == [ServerNext]_serverVars => [Next]_vars /\ [File!Next]_fileVars
<1>. SUFFICES ASSUME [ServerNext]_serverVars PROVE [Next]_vars /\ [File!Next]_fileVars
  OBVIOUS
<1>1. CASE UNCHANGED serverVars
  BY <1>1 DEF serverVars
<1>2. CASE ServerNext
  <2>1. PICK c \in Conns :
          \/ ServerThread(c)
          \/ /\ Accept(c) \/ Hangup(c) \/ \E d \in Conns : MapRace(c, d)
             /\ UNCHANGED fileVars
    BY <1>2 DEF ServerNext
  <2>2. ~crashed
    BY <1>2 DEF ServerNext
  <2>3. CASE Describe(c)
    BY <2>2, <2>3 DEF Describe, Next, Thread, File!Next
  <2>4. CASE Delete(c)
    BY <2>2, <2>4 DEF Delete, Next, Thread, File!Next
  <2>5. CASE OtherSteps(c)
    BY <2>2, <2>5 DEF OtherSteps, Next
  <2>. QED
    BY <2>1, <2>2, <2>3, <2>4, <2>5 DEF ServerThread, Next
<1>. QED
  BY <1>1, <1>2

\* So the server implements both: what is proved of the sessions, and of the file,
\* holds of them together.
THEOREM ServerImplements == ServerSpec => Spec /\ File!Spec
<1>1. ServerInit => Init /\ File!Init
  BY DEF ServerInit
<1>2. [ServerNext]_serverVars => [Next]_vars /\ [File!Next]_File!vars
  BY ServerSteps
<1>. QED
  BY <1>1, <1>2, PTL DEF ServerSpec, Spec, File!Spec

LEMMA ServerInvariant == ServerSpec => [](Inv /\ FileInv)
<1>1. ServerInit => Inv /\ FileInv
  BY InitInv, FileInit DEF ServerInit
<1>2. Inv /\ FileInv /\ [ServerNext]_serverVars => Inv' /\ FileInv'
  BY ServerSteps, NextInv, FileNext
<1>. QED
  BY <1>1, <1>2, PTL DEF ServerSpec

\* Type correctness of the sessions, of what they share and of the file.
THEOREM SessionTypes == ServerSpec => []ServerTypeOK
<1>1. Inv /\ FileInv => ServerTypeOK
  BY DEF Inv, FileInv, ServerTypeOK
<1>. QED
  BY <1>1, ServerInvariant, PTL

\* RTSPSessionImpl::run() and RTSPListenerImpl::handle_session() both delete the
\* session; only one of them ever does, and once.
THEOREM SessionDeletedOnce == ServerSpec => []DeletedOnce
<1>1. Inv => DeletedOnce
  BY DEF Inv, SessionInv
<1>. QED
  BY <1>1, ServerInvariant, PTL

\* RTSPSessionImpl::read() makes a handler without looking for one it already has,
\* yet a session has one at most, the right one, and leaves none behind.
THEOREM SessionHasOneHandler == ServerSpec => []OneHandler
<1>1. Inv => OneHandler
  BY DEF Inv, SessionInv, OneHandler, KindOf
<1>. QED
  BY <1>1, ServerInvariant, PTL

\* describe_request() makes an H264CodecInfo without looking for one it already has,
\* yet loses none as long as it can open ".sdp".
THEOREM SessionKeepsCodecInfo == ServerSpec => []CodecInfoKept
<1>1. FileInv => CodecInfoKept
  BY DEF FileInv
<1>. QED
  BY <1>1, ServerInvariant, PTL

\* ".sdp" is read and emptied without a lock, yet an empty SDP is sent only while
\* another session is describing, or when the file had been left empty.
THEOREM EmptySdpNeedsAnother == ServerSpec => DescribeWhole
<1>1. FileInv /\ [ServerNext]_serverVars =>
        [\A c \in Conns : sdp[c] # "empty" /\ sdp'[c] = "empty" =>
            torn \/ \E d \in Conns \ {c} : File!InProgress(d)]_File!vars
  BY ServerSteps, FileAnswers
<1>. QED
  BY <1>1, ServerInvariant, PTL DEF ServerSpec, DescribeWhole, File!DescribeWhole
=============================================================================
