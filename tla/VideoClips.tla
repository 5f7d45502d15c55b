----------------------------- MODULE VideoClips -----------------------------
(***************************************************************************)
(* POST /event: VideoHandler::process_video() joins the recorded files     *)
(* around the time of an event into a clip, the request is answered, and   *)
(* half a second later a detached thread sends the clip to the server.     *)
(* Meanwhile the thread of VideoInitializer removes the files that are too *)
(* old.  Both list and use the files under _file_lock; the sender reads    *)
(* the clip without it.                                                    *)
(*                                                                         *)
(* Times are seconds.  A recording is named by the second it begins; it    *)
(* lasts SplitTime seconds and is on disk from its beginning.              *)
(***************************************************************************)
EXTENDS Integers

CONSTANTS
    Events,         \* requests to /event
    TxIds,          \* transaction ids; a clip is named by the id of its event
    SplitTime,      \* split-time of config.json, the length of a recording
    Duration,       \* duration: a clip shows this long before and after
    Maintain,       \* maintain: the age at which a recording is removed
    MaxTime,        \* bound on time
    Remover, None

ASSUME ClipAssumption ==
    /\ SplitTime \in Nat \ {0} /\ {Duration, Maintain, MaxTime} \subseteq Nat
    /\ Remover # None /\ {Remover, None} \cap Events = {} /\ None \notin TxIds

VARIABLES
    now, files,     \* the time, and the recordings on disk
    file_lock,      \* who holds _file_lock
    started,        \* main() has come to VideoInitializer: gst_init() was called
    doomed, wake,   \* remove_video(): files to remove; when the thread wakes up
    epc, txid, ts,  \* each request: place ("answered" also when it is lost in a crash
                    \* or its clip was sent), transaction id, time of its event
    chosen, at,     \* while process_video() joins them: the files, and when chosen
    clip            \* the file event/<id>.mp4: whose it is and how far

reqVars == <<epc, txid, ts, chosen, at>>
clipVars == <<now, files, file_lock, started, doomed, wake, reqVars, clip>>

NoClip == [of |-> None, state |-> "none"]

Init ==
    /\ now = 0 /\ files = {0} /\ file_lock = None /\ started = FALSE
    /\ doomed = {} /\ wake = 0
    /\ epc = [e \in Events |-> "new"] /\ txid = [e \in Events |-> None]
    /\ ts = [e \in Events |-> 0] /\ chosen = [e \in Events |-> {}] /\ at = [e \in Events |-> 0]
    /\ clip = [i \in TxIds |-> NoClip]

-----------------------------------------------------------------------------

\* split_time() is split-time * 10^9 in 32 bits, here as two halves of 16 bits, and
\* process_video() divides it by 10^9 again, towards zero.
FaultyWholeSecond(s) == s - 1
SplitSeconds(s) ==
    LET low  == s * 51712
        high == (s * 15258 + (low \div 65536)) % 65536
        nano == (IF high < 32768 THEN high ELSE high - 65536) * 65536 + (low % 65536)
    IN  IF nano >= 0 THEN nano \div 1000000000 ELSE -((-nano) \div 1000000000)

\* The recordings that process_video() takes to overlap the window of e.
Overlapping(e) ==
    {f \in files : /\ f <= ts[e] + Duration
                   /\ f + SplitSeconds(SplitTime) - 1 >= ts[e] - Duration}

\* The recordings that remove_video() takes to be too old.
FaultyTooEarly == {f \in files : f <= now - Maintain}
TooOld == {f \in files : f < now - Maintain}

\* _file_lock can be locked by p.
FaultyUnlocked(p) == p = Remover \/ file_lock = None
LockFree(p) == file_lock = None

\* The clip of an event is named by its id.
FaultyOneName(e) == CHOOSE i \in TxIds : TRUE
ClipName(e) == txid[e]

-----------------------------------------------------------------------------
(* Time passes and the recorder, which is no part of the program, begins a *)
(* new file every SplitTime seconds.                                       *)

Tick ==
    /\ now < MaxTime /\ now' = now + 1
    /\ files' = IF now' % SplitTime = 0 THEN files \cup {now'} ELSE files
    /\ UNCHANGED <<file_lock, started, doomed, wake, reqVars, clip>>

\* VideoInitializer::init() and start().
StartVideo ==
    /\ ~started /\ started' = TRUE /\ wake' = now
    /\ UNCHANGED <<now, files, file_lock, doomed, reqVars, clip>>

\* remove_video() locks and lists, removes one file after the other, and unlocks;
\* then its thread sleeps for Maintain seconds.
RemoveBegin ==
    /\ started /\ file_lock # Remover /\ LockFree(Remover) /\ wake <= now
    /\ file_lock' = Remover /\ doomed' = TooOld
    /\ UNCHANGED <<now, files, started, wake, reqVars, clip>>

RemoveFile ==
    /\ file_lock = Remover
    /\ \E f \in doomed : files' = files \ {f} /\ doomed' = doomed \ {f}
    /\ UNCHANGED <<now, file_lock, started, wake, reqVars, clip>>

RemoveEnd ==
    /\ file_lock = Remover /\ doomed = {}
    /\ file_lock' = None /\ wake' = now + Maintain
    /\ UNCHANGED <<now, files, started, doomed, reqVars, clip>>

-----------------------------------------------------------------------------
(* event_accept(), process_video() and the sending thread.                 *)

Goto(e, p) == epc' = [epc EXCEPT ![e] = p]

\* A request without id or time is refused.
Arrive(e) ==
    /\ epc[e] = "new"
    /\ \/ /\ \E i \in TxIds, t \in 0 .. now : /\ txid' = [txid EXCEPT ![e] = i]
                                              /\ ts' = [ts EXCEPT ![e] = t]
          /\ Goto(e, "waiting")
       \/ Goto(e, "answered") /\ UNCHANGED <<txid, ts>>
    /\ UNCHANGED <<now, files, file_lock, started, doomed, wake, chosen, at, clip>>

\* The mutex after an early return of process_video().
FaultyKeepLock(e) == e
AfterReturn(e) == None

\* Under the lock the files are listed and chosen, and if there are any the
\* pipeline is started; it writes the clip of that id afresh.
StartJoin(e) ==
    /\ epc[e] = "waiting" /\ LockFree(e) /\ started /\ Overlapping(e) # {}
    /\ chosen' = [chosen EXCEPT ![e] = Overlapping(e)] /\ at' = [at EXCEPT ![e] = now]
    /\ Goto(e, "joining") /\ file_lock' = e
    /\ clip' = [clip EXCEPT ![ClipName(e)] = [of |-> e, state |-> "partial"]]
    /\ UNCHANGED <<now, files, started, doomed, wake, txid, ts>>

\* There is nothing to join, or the pipeline cannot be made (as before gst_init())
\* or started (by when its sink may have emptied the clip of that id).
NoJoin(e) ==
    /\ epc[e] = "waiting" /\ LockFree(e)
    /\ Goto(e, "answered") /\ ts' = [ts EXCEPT ![e] = 0] /\ file_lock' = AfterReturn(e)
    /\ \/ UNCHANGED clip
       \/ /\ started /\ Overlapping(e) # {}
          /\ clip' = [clip EXCEPT ![ClipName(e)] = [of |-> e, state |-> "partial"]]
    /\ UNCHANGED <<now, files, started, doomed, wake, txid, chosen, at>>

\* The pipeline reports its end or an error, on a file that is still being recorded
\* say, and process_video() takes both for success: the request is answered, and a
\* thread is left to send the clip.  The bus loop has no limit: a pipeline that
\* reports nothing keeps the request and the lock.
Joined(e) ==
    /\ epc[e] = "joining" /\ Goto(e, "sending") /\ file_lock' = None
    /\ \E s \in {"made", "failed"} : clip' = [clip EXCEPT ![ClipName(e)].state = s]
    /\ ts' = [ts EXCEPT ![e] = 0] /\ at' = [at EXCEPT ![e] = 0]
    /\ chosen' = [chosen EXCEPT ![e] = {}]
    /\ UNCHANGED <<now, files, started, doomed, wake, txid>>

\* video_send() sends what the file holds now; that it fails is only logged.
SendClip(e) ==
    /\ epc[e] = "sending" /\ Goto(e, "answered")
    /\ UNCHANGED <<now, files, file_lock, started, doomed, wake, txid, ts, chosen, at, clip>>

\* The process dies: requests, threads and the lock with it.
Die ==
    /\ file_lock' = None /\ started' = FALSE /\ doomed' = {} /\ wake' = 0
    /\ epc' = [e \in Events |-> IF epc[e] = "new" THEN "new" ELSE "answered"]
    /\ ts' = [e \in Events |-> 0] /\ at' = [e \in Events |-> 0] /\ chosen' = [e \in Events |-> {}]
    /\ UNCHANGED <<now, files, txid, clip>>

Removal == RemoveBegin \/ RemoveFile \/ RemoveEnd
Serve(e) == StartJoin(e) \/ NoJoin(e)

Next ==
    \/ Tick \/ StartVideo \/ Removal \/ Die
    \/ \E e \in Events : Arrive(e) \/ Serve(e) \/ Joined(e) \/ SendClip(e)

Spec == Init /\ [][Next]_clipVars

-----------------------------------------------------------------------------

TypeOK ==
    /\ now \in 0 .. MaxTime /\ files \subseteq 0 .. MaxTime /\ doomed \subseteq 0 .. MaxTime
    /\ file_lock \in Events \cup {Remover, None} /\ started \in BOOLEAN /\ wake \in Nat
    /\ epc \in [Events -> {"new", "waiting", "joining", "sending", "answered"}]
    /\ txid \in [Events -> TxIds \cup {None}] /\ ts \in [Events -> 0 .. MaxTime]
    /\ chosen \in [Events -> SUBSET (0 .. MaxTime)] /\ at \in [Events -> 0 .. MaxTime]
    /\ clip \in [TxIds -> [of : Events \cup {None}, state : {"none", "partial", "made", "failed"}]]

\* The files a clip is being joined from stay on disk until its pipeline is done, and
\* only one clip is joined at a time: the removal and the requests exclude each
\* other, across the returns that leave process_video() early.
InputsStay ==
    \A e \in Events : epc[e] = "joining" => chosen[e] \subseteq files /\ file_lock = e

\* The recordings begun by time t, and those that show part of the window of e.
Recorded(t) == {f \in 0 .. t : f % SplitTime = 0}
Showing(e) == {f \in Recorded(ts[e] + Duration) : f + SplitTime - 1 >= ts[e] - Duration}

InTime(e) ==
    /\ epc[e] = "joining" /\ at[e] > ts[e] + Duration
    /\ at[e] - ts[e] + Duration + SplitTime - 1 <= Maintain

\* process_video() waits neither for the part after the event nor before the removal.
\* For a request handled when the window has passed, and while maintain still covers
\* it and one file more, the recordings chosen for the clip are all those that show
\* part of the window, and no others.
ClipCoversWindow ==
    \A e \in Events : InTime(e) => chosen[e] = Showing(e)

\* Unless an id comes twice, whenever the thread gets to send the clip of an event,
\* without the lock and after any delay, the file is what the pipeline of that event
\* has left, whole or as far as an error let it come, and is no longer written to.
SentAsMade ==
    \A e \in Events :
        epc[e] = "sending" /\ (\A d \in Events \ {e} : txid[d] # txid[e])
            => clip[ClipName(e)].of = e /\ clip[ClipName(e)].state \in {"made", "failed"}
=============================================================================
