-------------------------- MODULE ServerLinkProofs --------------------------
(***************************************************************************)
(* What the runs of ServerLink show for two requests and two starts, for   *)
(* any number of them and any configuration: of the clips (VideoClips) and *)
(* of the identity (CameraRegistration), and so of the two together.       *)
(***************************************************************************)
EXTENDS ServerLink, TLAPS

-----------------------------------------------------------------------------
(* Every step of the whole is a step, or none, of each part.               *)

LEMMA ClipPart == LinkSpec => Spec
<1>1. LinkInit => Init
  BY DEF LinkInit
<1>2. [LinkNext]_linkVars => [Next]_clipVars
  BY DEF LinkNext, linkVars, Next, Register, Proceed, Accept, Work, Reboot, Removal, Serve
<1>. QED
  BY <1>1, <1>2, PTL DEF LinkSpec, Spec

LEMMA RegPart == LinkSpec => Reg!Spec
<1>1. LinkInit => Reg!Init
  BY DEF LinkInit
<1>2. [LinkNext]_linkVars => [Reg!Next]_(Reg!vars)
  BY DEF LinkNext, linkVars, regVars, Reg!vars, Reg!Next, Register, Proceed, Accept, Work, Reboot
<1>. QED
  BY <1>1, <1>2, PTL DEF LinkSpec, Reg!Spec

-----------------------------------------------------------------------------
(* The identity.                                                           *)

\* Until the uuid is written the file is absent or empty and nothing depends on it;
\* from then on it holds what init() goes on to use, unless the store failed.
RegInv ==
    /\ Reg!TypeOK /\ Reg!OneIdentity
    /\ stage = "create" => file = Absent
    /\ stage = "write" => file = NoId
    /\ stage \in {"scan", "create", "write"} => http_uuid = Absent
    /\ stage \in {"create", "write", "handler", "send"} => uuid \in Reg!Ids
    /\ stage \in {"handler", "send"} /\ ~badStore => file = uuid
    /\ stage \in {"daemon", "up", "stopped"} /\ ~badStore => file # Absent

LEMMA RegInvHolds == Reg!Spec => []RegInv
<1>. USE LinkAssumption
<1>1. Reg!Init => RegInv
  <2>. SUFFICES ASSUME Reg!Init PROVE RegInv
    OBVIOUS
  <2>1. Reg!TypeOK
    <3>1. boots \in 1 .. MaxBoots
      BY DEF Reg!Init
    <3>. QED
      BY <3>1 DEF Reg!Init, Reg!TypeOK
  <2>2. Reg!OneIdentity
    BY DEF Reg!Init, Reg!OneIdentity
  <2>. QED
    BY <2>1, <2>2 DEF Reg!Init, RegInv
<1>2. RegInv /\ [Reg!Next]_(Reg!vars) => RegInv'
  <2>. SUFFICES ASSUME RegInv, [Reg!Next]_(Reg!vars) PROVE RegInv'
    OBVIOUS
  <2>. USE DEF RegInv, Reg!TypeOK, Reg!OneIdentity
  <2>1. CASE Reg!DrawId
    BY <2>1 DEF Reg!DrawId, Reg!FirstStart, Reg!Following, Reg!Ids
  <2>2. CASE Reg!ReadId
    <3>1. uuid' \in Reg!Ids \cup {NoId} /\ file # Absent
      BY <2>2 DEF Reg!ReadId, Reg!FirstStart, Reg!Content
    <3>2. badStore => badStore'
      BY <2>2 DEF Reg!ReadId
    <3>3. badStore' \in BOOLEAN
      BY <2>2 DEF Reg!ReadId
    <3>. QED
      BY <2>2, <3>1, <3>2, <3>3 DEF Reg!ReadId
  <2>3. CASE Reg!CreateFile
    BY <2>3 DEF Reg!CreateFile, Reg!Following
  <2>4. CASE Reg!WriteFile
    BY <2>4 DEF Reg!WriteFile, Reg!Following
  <2>5. CASE Reg!MakeHandler
    <3>1. http_uuid' \in Reg!Ids \cup {NoId, Absent} /\ (badStore' \/ http_uuid' = file)
      BY <2>5 DEF Reg!MakeHandler, Reg!Content
    <3>2. badStore => badStore'
      BY <2>5 DEF Reg!MakeHandler
    <3>. QED
      BY <2>5, <3>1, <3>2 DEF Reg!MakeHandler, Reg!Following
  <2>6. CASE Reg!Send
    BY <2>6 DEF Reg!Send, Reg!Following
  <2>7. CASE Reg!StartDaemon
    BY <2>7 DEF Reg!StartDaemon
  <2>8. CASE Reg!Restart
    BY <2>8 DEF Reg!Restart
  <2>9. CASE UNCHANGED Reg!vars
    BY <2>9 DEF Reg!vars
  <2>. QED
    BY <2>1, <2>2, <2>3, <2>4, <2>5, <2>6, <2>7, <2>8, <2>9 DEF Reg!Next, Reg!Step
<1>. QED
  BY <1>1, <1>2, PTL DEF Reg!Spec

\* HttpInitializer::init(): the stored identity is never replaced, at whatever step
\* the process dies and however often it is started.
THEOREM IdentityNeverReplaced == LinkSpec => IdentityKept
<1>. USE LinkAssumption
<1>1. RegInv /\ [Reg!Next]_(Reg!vars) => [(file \in Reg!Ids) => (file' = file)]_(Reg!vars)
  <2>. SUFFICES ASSUME RegInv, Reg!Next, file \in Reg!Ids PROVE file' = file
    OBVIOUS
  <2>1. stage \notin {"create", "write"}
    BY DEF RegInv
  <2>. QED
    BY <2>1 DEF Reg!Next, Reg!Step, Reg!DrawId, Reg!ReadId, Reg!CreateFile, Reg!WriteFile,
                Reg!MakeHandler, Reg!Send, Reg!StartDaemon, Reg!Restart
<1>. QED
  BY <1>1, RegPart, RegInvHolds, PTL DEF Reg!Spec, IdentityKept, Reg!IdentityKept

\* Crashes and restarts at any point leave the server told of one identity at most,
\* the one on disk and the one clips are sent under, unless the store failed.
THEOREM OneIdentityTold == LinkSpec => []OneIdentity
<1>1. RegInv => OneIdentity
  BY DEF RegInv, OneIdentity
<1>. QED
  BY <1>1, RegPart, RegInvHolds, PTL

-----------------------------------------------------------------------------
(* The clips.                                                              *)

LEMMA ClipTypes == Spec => []TypeOK
<1>. USE ClipAssumption DEF TypeOK, reqVars, NoClip, Goto
<1>1. Init => TypeOK
  <2>. SUFFICES ASSUME Init PROVE TypeOK
    OBVIOUS
  <2>1. started \in BOOLEAN
    BY DEF Init
  <2>2. clip \in [TxIds -> [of : Events \cup {None}, state : {"none", "partial", "made", "failed"}]]
    BY DEF Init
  <2>3. epc \in [Events -> {"new", "waiting", "joining", "sending", "answered"}]
    BY DEF Init
  <2>4. txid \in [Events -> TxIds \cup {None}] /\ chosen \in [Events -> SUBSET (0 .. MaxTime)]
    BY DEF Init
  <2>. QED
    BY <2>1, <2>2, <2>3, <2>4 DEF Init
<1>2. TypeOK /\ [Next]_clipVars => TypeOK'
  <2>. SUFFICES ASSUME TypeOK, [Next]_clipVars PROVE TypeOK'
    OBVIOUS
  <2>1. CASE Tick
    BY <2>1 DEF Tick
  <2>2. CASE StartVideo
    BY <2>2 DEF StartVideo
  <2>3. CASE RemoveBegin
    BY <2>3 DEF RemoveBegin, TooOld
  <2>4. CASE RemoveFile
    BY <2>4 DEF RemoveFile
  <2>5. CASE RemoveEnd
    BY <2>5 DEF RemoveEnd
  <2>6. ASSUME NEW e \in Events, Arrive(e) PROVE TypeOK'
    BY <2>6 DEF Arrive
  <2>7. ASSUME NEW e \in Events, StartJoin(e) PROVE TypeOK'
    <3>1. Overlapping(e) \subseteq 0 .. MaxTime
      BY DEF Overlapping
    <3>. QED
      BY <2>7, <3>1 DEF StartJoin
  <2>8. ASSUME NEW e \in Events, NoJoin(e) PROVE TypeOK'
    BY <2>8 DEF NoJoin, AfterReturn
  <2>9. ASSUME NEW e \in Events, Joined(e) PROVE TypeOK'
    <3>1. clip' \in [TxIds -> [of : Events \cup {None}, state : {"none", "partial", "made", "failed"}]]
      <4>1. PICK s \in {"made", "failed"} : clip' = [clip EXCEPT ![ClipName(e)].state = s]
        BY <2>9 DEF Joined
      <4>. QED
        BY <4>1
    <3>2. chosen' \in [Events -> SUBSET (0 .. MaxTime)]
      BY <2>9 DEF Joined
    <3>3. ts' \in [Events -> 0 .. MaxTime] /\ at' \in [Events -> 0 .. MaxTime]
      BY <2>9 DEF Joined
    <3>. QED
      BY <2>9, <3>1, <3>2, <3>3 DEF Joined
  <2>10. ASSUME NEW e \in Events, SendClip(e) PROVE TypeOK'
    BY <2>10 DEF SendClip
  <2>11. CASE Die
    <3>1. epc' \in [Events -> {"new", "waiting", "joining", "sending", "answered"}]
      BY <2>11 DEF Die
    <3>2. chosen' \in [Events -> SUBSET (0 .. MaxTime)]
      BY <2>11 DEF Die
    <3>3. ts' \in [Events -> 0 .. MaxTime] /\ at' \in [Events -> 0 .. MaxTime]
      BY <2>11 DEF Die
    <3>. QED
      BY <2>11, <3>1, <3>2, <3>3 DEF Die
  <2>12. CASE UNCHANGED clipVars
    BY <2>12 DEF clipVars
  <2>. QED
    BY <2>1, <2>2, <2>3, <2>4, <2>5, <2>6, <2>7, <2>8, <2>9, <2>10, <2>11, <2>12
    DEF Next, Removal, Serve
<1>. QED
  BY <1>1, <1>2, PTL DEF Spec

\* process_video() and remove_video(): no file a clip is being joined from is removed
\* before the clip is finished, and one clip is joined at a time.
THEOREM InputsAreKept == LinkSpec => []InputsStay
<1>. USE ClipAssumption DEF TypeOK, InputsStay, reqVars, Goto
<1>1. Init => InputsStay
  BY DEF Init
<1>2. TypeOK /\ InputsStay /\ [Next]_clipVars => InputsStay'
  <2>. SUFFICES ASSUME TypeOK, InputsStay, [Next]_clipVars PROVE InputsStay'
    OBVIOUS
  <2>1. CASE Tick
    BY <2>1 DEF Tick
  <2>2. CASE StartVideo
    BY <2>2 DEF StartVideo
  <2>3. CASE RemoveBegin
    BY <2>3 DEF RemoveBegin, LockFree
  <2>4. CASE RemoveFile
    BY <2>4 DEF RemoveFile
  <2>5. CASE RemoveEnd
    BY <2>5 DEF RemoveEnd
  <2>6. ASSUME NEW e \in Events, Arrive(e) PROVE InputsStay'
    BY <2>6 DEF Arrive
  <2>7. ASSUME NEW e \in Events, StartJoin(e) PROVE InputsStay'
    BY <2>7 DEF StartJoin, LockFree, Overlapping
  <2>8. ASSUME NEW e \in Events, NoJoin(e) PROVE InputsStay'
    BY <2>8 DEF NoJoin, LockFree, AfterReturn
  <2>9. ASSUME NEW e \in Events, Joined(e) PROVE InputsStay'
    BY <2>9 DEF Joined
  <2>10. ASSUME NEW e \in Events, SendClip(e) PROVE InputsStay'
    BY <2>10 DEF SendClip
  <2>11. CASE Die
    BY <2>11 DEF Die
  <2>12. CASE UNCHANGED clipVars
    BY <2>12 DEF clipVars
  <2>. QED
    BY <2>1, <2>2, <2>3, <2>4, <2>5, <2>6, <2>7, <2>8, <2>9, <2>10, <2>11, <2>12
    DEF Next, Removal, Serve
<1>. QED
  BY <1>1, <1>2, ClipPart, ClipTypes, PTL DEF Spec

\* _file_lock is held by the request whose pipeline runs, or by the removal, which
\* has files to remove only then: sections that end by unlocking it.
HeldInside ==
    /\ \A e \in Events : file_lock = e <=> epc[e] = "joining"
    /\ doomed # {} => file_lock = Remover

\* The safety EventAnswered rests on: process_video(), with its early returns, and
\* remove_video() never leave _file_lock behind, so a request only waits for a
\* pipeline or a removal at work.
THEOREM LockIsHeldInside == LinkSpec => []HeldInside
<1>. USE ClipAssumption DEF TypeOK, HeldInside, reqVars, Goto
<1>1. Init => HeldInside
  BY DEF Init
<1>2. TypeOK /\ HeldInside /\ [Next]_clipVars => HeldInside'
  <2>. SUFFICES ASSUME TypeOK, HeldInside, [Next]_clipVars PROVE HeldInside'
    OBVIOUS
  <2>1. CASE Tick
    BY <2>1 DEF Tick
  <2>2. CASE StartVideo
    BY <2>2 DEF StartVideo
  <2>3. CASE RemoveBegin
    BY <2>3 DEF RemoveBegin, LockFree
  <2>4. CASE RemoveFile
    BY <2>4 DEF RemoveFile
  <2>5. CASE RemoveEnd
    BY <2>5 DEF RemoveEnd
  <2>6. ASSUME NEW e \in Events, Arrive(e) PROVE HeldInside'
    BY <2>6 DEF Arrive
  <2>7. ASSUME NEW e \in Events, StartJoin(e) PROVE HeldInside'
    BY <2>7 DEF StartJoin, LockFree
  <2>8. ASSUME NEW e \in Events, NoJoin(e) PROVE HeldInside'
    BY <2>8 DEF NoJoin, LockFree, AfterReturn
  <2>9. ASSUME NEW e \in Events, Joined(e) PROVE HeldInside'
    BY <2>9 DEF Joined
  <2>10. ASSUME NEW e \in Events, SendClip(e) PROVE HeldInside'
    BY <2>10 DEF SendClip
  <2>11. CASE Die
    BY <2>11 DEF Die
  <2>12. CASE UNCHANGED clipVars
    BY <2>12 DEF clipVars
  <2>. QED
    BY <2>1, <2>2, <2>3, <2>4, <2>5, <2>6, <2>7, <2>8, <2>9, <2>10, <2>11, <2>12
    DEF Next, Removal, Serve
<1>. QED
  BY <1>1, <1>2, ClipPart, ClipTypes, PTL DEF Spec

-----------------------------------------------------------------------------
(* What is sent.                                                           *)

\* An event whose transaction id no other event has.
Alone(e) == \A d \in Events \ {e} : txid[d] # txid[e]

\* An id is chosen once, and from the start of the pipeline to the sending the clip
\* of that id is that of the event, if no other has the id.
SentInv ==
    /\ \A e \in Events : epc[e] = "new" => txid[e] = None
    /\ \A e \in Events : epc[e] \in {"waiting", "joining", "sending"} => txid[e] \in TxIds
    /\ \A e \in Events : epc[e] = "joining" /\ Alone(e) => clip[txid[e]].of = e
    /\ \A e \in Events : epc[e] = "sending" /\ Alone(e)
                            => clip[txid[e]].of = e /\ clip[txid[e]].state \in {"made", "failed"}

LEMMA SentInvHolds == Spec => []SentInv
<1>. USE ClipAssumption DEF SentInv, Alone, reqVars, Goto
<1>1. Init => SentInv
  BY DEF Init
<1>2. TypeOK /\ SentInv /\ [Next]_clipVars => SentInv'
  <2>. SUFFICES ASSUME TypeOK, SentInv, [Next]_clipVars PROVE SentInv'
    OBVIOUS
  <2>. USE DEF TypeOK
  <2>1. CASE UNCHANGED <<epc, txid, clip>>
    BY <2>1
  <2>2. ASSUME NEW e \in Events, Arrive(e) PROVE SentInv'
    BY <2>2 DEF Arrive
  <2>3. ASSUME NEW e \in Events, StartJoin(e) PROVE SentInv'
    BY <2>3 DEF StartJoin, ClipName
  <2>4. ASSUME NEW e \in Events, NoJoin(e) PROVE SentInv'
    BY <2>4 DEF NoJoin, ClipName
  <2>5. ASSUME NEW e \in Events, Joined(e) PROVE SentInv'
    BY <2>5 DEF Joined, ClipName
  <2>6. ASSUME NEW e \in Events, SendClip(e) PROVE SentInv'
    BY <2>6 DEF SendClip
  <2>7. CASE Die
    BY <2>7 DEF Die
  <2>. QED
    BY <2>1, <2>2, <2>3, <2>4, <2>5, <2>6, <2>7
    DEF Next, Removal, Serve, Tick, StartVideo, RemoveBegin, RemoveFile, RemoveEnd, clipVars
<1>. QED
  BY <1>1, <1>2, ClipTypes, PTL DEF Spec

\* video_send() runs on a detached thread, without _file_lock and at any later time:
\* for an id that comes once it sends what the pipeline of that event has left.
THEOREM ClipSentIsTheOneMade == LinkSpec => []SentAsMade
<1>1. SentInv => SentAsMade
  BY DEF SentInv, SentAsMade, Alone, ClipName
<1>. QED
  BY <1>1, ClipPart, SentInvHolds, PTL

-----------------------------------------------------------------------------
(* What a clip shows.                                                      *)

\* VideoConfig::split_time() survives its 32 bits for one second and for two.
LEMMA SplitFits == ASSUME SplitTime \in 1 .. 2 PROVE SplitSeconds(SplitTime) = SplitTime
<1>1. SplitSeconds(1) = 1
  BY DEF SplitSeconds
<1>2. SplitSeconds(2) = 2
  BY DEF SplitSeconds
<1>. QED
  BY <1>1, <1>2

\* On disk are recordings of the past, all of them that are not yet too old, and the
\* removal has only such in mind as are.
FilesInv ==
    /\ files \subseteq Recorded(now)
    /\ \A f \in Recorded(now) : f >= now - Maintain => f \in files
    /\ \A f \in doomed : f < now - Maintain

LEMMA FilesInvHolds == Spec => []FilesInv
<1>. USE ClipAssumption DEF FilesInv, Recorded, reqVars
<1>1. Init => FilesInv
  BY DEF Init
<1>2. TypeOK /\ FilesInv /\ [Next]_clipVars => FilesInv'
  <2>. SUFFICES ASSUME TypeOK, FilesInv, [Next]_clipVars PROVE FilesInv'
    OBVIOUS
  <2>. USE DEF TypeOK
  <2>1. CASE UNCHANGED <<now, files, doomed>>
    BY <2>1
  <2>2. CASE Tick
    <3>1. now' = now + 1 /\ doomed' = doomed /\ files \subseteq files'
      BY <2>2 DEF Tick
    <3>2. files' \subseteq Recorded(now')
      BY <2>2 DEF Tick
    <3>3. \A f \in Recorded(now') : f \in Recorded(now) \/ f \in files'
      BY <2>2 DEF Tick
    <3>4. \A f \in Recorded(now) : f >= now' - Maintain => f \in files'
      BY <3>1
    <3>. QED
      BY <3>1, <3>2, <3>3, <3>4
  <2>3. CASE RemoveBegin
    BY <2>3 DEF RemoveBegin, TooOld
  <2>4. CASE RemoveFile
    BY <2>4 DEF RemoveFile
  <2>5. CASE Die
    BY <2>5 DEF Die
  <2>. QED
    BY <2>1, <2>2, <2>3, <2>4, <2>5
    DEF Next, Removal, Serve, StartVideo, RemoveEnd, Arrive, StartJoin, NoJoin, Joined, SendClip, clipVars
<1>. QED
  BY <1>1, <1>2, ClipTypes, PTL DEF Spec

\* process_video() beside remove_video(): for a split-time of one second or two, any
\* duration and any maintain, a clip whose request is handled once the window has
\* passed and before maintain has reached it joins exactly the recordings that show
\* part of the window.
THEOREM ClipShowsItsWindow == ASSUME SplitTime \in 1 .. 2 PROVE LinkSpec => []ClipCoversWindow
<1>. USE ClipAssumption DEF ClipCoversWindow, InTime, Showing, reqVars, Goto
<1>1. Init => ClipCoversWindow
  BY DEF Init
<1>2. TypeOK /\ FilesInv /\ ClipCoversWindow /\ [Next]_clipVars => ClipCoversWindow'
  <2>. SUFFICES ASSUME TypeOK, FilesInv, ClipCoversWindow, [Next]_clipVars PROVE ClipCoversWindow'
    OBVIOUS
  <2>. USE DEF TypeOK
  <2>1. CASE UNCHANGED <<epc, ts, at, chosen>>
    BY <2>1
  <2>2. ASSUME NEW e \in Events, Arrive(e) PROVE ClipCoversWindow'
    BY <2>2 DEF Arrive
  <2>3. ASSUME NEW e \in Events, StartJoin(e) PROVE ClipCoversWindow'
    <3>1. ASSUME now > ts[e] + Duration, now - ts[e] + Duration + SplitTime - 1 <= Maintain
          PROVE  Overlapping(e) = Showing(e)
      <4>1. Overlapping(e) = {f \in files : /\ f <= ts[e] + Duration
                                            /\ f + SplitTime - 1 >= ts[e] - Duration}
        BY SplitFits DEF Overlapping
      <4>2. now \in Nat /\ ts[e] \in Nat /\ Duration \in Nat
        OBVIOUS
      <4>3. ASSUME NEW f \in Showing(e) PROVE f \in files /\ f <= ts[e] + Duration
        <5>1. /\ f \in Nat /\ f <= ts[e] + Duration /\ f % SplitTime = 0
              /\ f + SplitTime - 1 >= ts[e] - Duration
          BY <4>2 DEF Recorded
        <5>2. f \in Recorded(now)
          BY <3>1, <4>2, <5>1 DEF Recorded
        <5>3. f >= now - Maintain
          BY <3>1, <4>2, <5>1
        <5>. QED
          BY <5>1, <5>2, <5>3 DEF FilesInv
      <4>4. ASSUME NEW f \in files, f <= ts[e] + Duration, f + SplitTime - 1 >= ts[e] - Duration
            PROVE  f \in Showing(e)
        BY <4>2, <4>4 DEF FilesInv, Recorded
      <4>. QED
        BY <4>1, <4>3, <4>4
    <3>. HIDE DEF Showing
    <3>2. Showing(e)' = Showing(e)
      BY <2>3 DEF StartJoin, Showing, Recorded
    <3>3. ASSUME NEW d \in Events \ {e} PROVE Showing(d)' = Showing(d)
      BY <2>3 DEF StartJoin, Showing, Recorded
    <3>. QED
      BY <2>3, <3>1, <3>2, <3>3 DEF StartJoin
  <2>4. ASSUME NEW e \in Events, NoJoin(e) PROVE ClipCoversWindow'
    BY <2>4 DEF NoJoin
  <2>5. ASSUME NEW e \in Events, Joined(e) PROVE ClipCoversWindow'
    BY <2>5 DEF Joined
  <2>6. ASSUME NEW e \in Events, SendClip(e) PROVE ClipCoversWindow'
    BY <2>6 DEF SendClip
  <2>7. CASE Die
    BY <2>7 DEF Die
  <2>. QED
    BY <2>1, <2>2, <2>3, <2>4, <2>5, <2>6, <2>7
    DEF Next, Removal, Serve, Tick, StartVideo, RemoveBegin, RemoveFile, RemoveEnd, clipVars
<1>. QED
  BY <1>1, <1>2, ClipPart, ClipTypes, FilesInvHolds, PTL DEF Spec

\* The two parts stay within their types together, for any number of requests,
\* starts and seconds.
THEOREM LinkTypes == LinkSpec => []LinkTypeOK
<1>1. TypeOK /\ RegInv => LinkTypeOK
  BY DEF LinkTypeOK, RegInv
<1>. QED
  BY <1>1, ClipPart, ClipTypes, RegPart, RegInvHolds, PTL
=============================================================================
