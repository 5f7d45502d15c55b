------------------------- MODULE CameraRegistration -------------------------
(***************************************************************************)
(* HttpInitializer::init(): the camera draws an identity at its first      *)
(* start, keeps it in the file system/uuid, tells the server, and starts   *)
(* the HTTP daemon; at a later start it finds the file and only starts the *)
(* daemon.  Between any two steps the process may die and be started       *)
(* again: the file is what remains.                                        *)
(***************************************************************************)
EXTENDS Naturals

CONSTANTS
    NoId,           \* the empty string, and the content of an empty file
    Absent,         \* there is no file
    MaxBoots        \* bound on the starts of the process

VARIABLES
    file,           \* system/uuid
    stage,          \* how far init() is; "up" and "stopped" when it has returned
    uuid,           \* the uuid that init() has drawn or read, until it returns
    http_uuid,      \* EventHandlerHTTP::_uuid, Absent before the singleton exists
    boots,          \* starts of the process
    told,           \* history: the uuids the server has been sent to /setup
    badStore        \* history: the file could not be opened, written or read

\* Of the random uuids no two are equal: the one drawn at the n-th start is n.
Ids == 1 .. MaxBoots

vars == <<file, stage, uuid, http_uuid, boots, told, badStore>>

Content == IF file = Absent THEN NoId ELSE file

Init ==
    /\ file = Absent /\ stage = "scan" /\ uuid = NoId /\ http_uuid = Absent /\ boots = 1
    /\ told = {} /\ badStore = FALSE

\* The steps of a first start, in the order of the code.
FaultyTellFirst ==
    [scan |-> "send", send |-> "create", create |-> "write", write |-> "handler", handler |-> "daemon"]
Following ==
    [scan |-> "create", create |-> "write", write |-> "handler", handler |-> "send", send |-> "daemon"]

\* The directory scan finds no file: the process has never run before.
FaultyAlways == TRUE
FirstStart == file = Absent

DrawId ==
    /\ stage = "scan" /\ FirstStart
    /\ uuid' = boots /\ stage' = Following["scan"]
    /\ UNCHANGED <<file, http_uuid, boots, told, badStore>>

\* getline() from a file that cannot be read leaves the string empty.
ReadId ==
    /\ stage = "scan" /\ ~FirstStart
    /\ \/ uuid' = Content /\ UNCHANGED badStore
       \/ uuid' = NoId /\ badStore' = TRUE
    /\ stage' = "daemon"
    /\ UNCHANGED <<file, http_uuid, boots, told>>

\* Opening the file creates it empty, or fails and nothing is written.
CreateFile ==
    /\ stage = "create"
    /\ \/ file' = NoId /\ stage' = Following["create"] /\ UNCHANGED badStore
       \/ stage' = Following["write"] /\ badStore' = TRUE /\ UNCHANGED file
    /\ UNCHANGED <<uuid, http_uuid, boots, told>>

\* The result of writing is not looked at.
WriteFile ==
    /\ stage = "write" /\ stage' = Following["write"]
    /\ \/ file' = uuid /\ UNCHANGED badStore
       \/ badStore' = TRUE /\ UNCHANGED file
    /\ UNCHANGED <<uuid, http_uuid, boots, told>>

\* EventHandlerHTTP is constructed by the first get_instance() and reads the file
\* itself: at a first start to tell the server, at a later one when a request comes
\* or an event program is started, which is after init() and whatever it returned.
MakeHandler ==
    /\ \/ stage = "handler" /\ stage' = Following["handler"]
       \/ stage \in {"up", "stopped"} /\ http_uuid = Absent /\ UNCHANGED stage
    /\ \/ http_uuid' = Content /\ UNCHANGED badStore
       \/ http_uuid' = NoId /\ badStore' = TRUE
    /\ UNCHANGED <<file, uuid, boots, told>>

\* camerainfo_send(): the server is told or not, and the call succeeds only if the
\* answer comes back as well.  A failure ends init() before the daemon.
Send ==
    /\ stage = "send"
    /\ \/ told' = told \cup {uuid} /\ stage' = Following["send"] /\ UNCHANGED uuid
       \/ told' \in {told, told \cup {uuid}} /\ stage' = "stopped" /\ uuid' = NoId
    /\ UNCHANGED <<file, http_uuid, boots, badStore>>

StartDaemon ==
    /\ stage = "daemon" /\ stage' \in {"up", "stopped"} /\ uuid' = NoId
    /\ UNCHANGED <<file, http_uuid, boots, told, badStore>>

\* The process dies, wherever it is, and is started again.
Restart ==
    /\ boots < MaxBoots /\ boots' = boots + 1
    /\ stage' = "scan" /\ uuid' = NoId /\ http_uuid' = Absent
    /\ UNCHANGED <<file, told, badStore>>

Step == DrawId \/ ReadId \/ CreateFile \/ WriteFile \/ MakeHandler \/ Send \/ StartDaemon
Next == Step \/ Restart

Spec == Init /\ [][Next]_vars

-----------------------------------------------------------------------------

TypeOK ==
    /\ file \in Ids \cup {NoId, Absent} /\ uuid \in Ids \cup {NoId}
    /\ http_uuid \in Ids \cup {NoId, Absent} /\ boots \in 1 .. MaxBoots
    /\ stage \in {"scan", "create", "write", "handler", "send", "daemon", "up", "stopped"}
    /\ told \subseteq Ids /\ badStore \in BOOLEAN

\* An identity once stored is never replaced, at whatever step the process dies and
\* however often it is started: no later start takes itself for the first.
IdentityKept == [][(file \in Ids) => (file' = file)]_vars

\* As long as the file could be written and read, the server is told of one
\* identity at most and clips are sent under that one, the stored one: a crash may
\* leave an identity the server has not heard of, never one told and forgotten.
OneIdentity ==
    ~badStore => told \subseteq {file} /\ (http_uuid # Absent => http_uuid = file)
=============================================================================
