---------------------------- MODULE EventPrograms ----------------------------
(***************************************************************************)
(* Event programs: EventHandler starts and stops them, EventProcessor runs *)
(* one, EventInitializer starts the ones on disk, and the requests         *)
(* /program/start and /program/stop reach EventHandler from the threads of *)
(* the HTTP library.                                                       *)
(*                                                                         *)
(* A processor is an object at an address, its thread uses it through that *)
(* address, and the memory of a deleted one is given to a later one or     *)
(* not, as the allocator pleases.  EventHandler keeps addresses, without a *)
(* lock and for ever.                                                      *)
(*                                                                         *)
(* Each operation of the frame queue is one step here.  VideoQueue takes   *)
(* them apart: together they are as good as one while all the threads of a *)
(* name use one ThreadInfo, so not for a name that has been stopped or     *)
(* found disabled.  What is said of frames here is said of other names.    *)
(***************************************************************************)
EXTENDS Naturals, Sequences, FiniteSets

CONSTANTS
    Names,          \* program names; NoName is the empty one
    Installed,      \* names that have a directory at start-up
    OnDisk,         \* what such a directory may hold
    Requests,       \* requests /program/start and /program/stop, each made once
    Asks,           \* what the requests may ask for
    MaxAddress,     \* an EventProcessor is allocated at an address 1 .. MaxAddress
    MaxThreads,     \* bound on the threads, hence on the calls of start_event()
    MaxStops,       \* bound on the calls of stop_event()
    MaxFrames,      \* bound on the frames the camera delivers
    MaxUploads,     \* bound on the uploads
    Uploaded,       \* names that they may be for
    UploadRates,    \* the rates they may bring
    Main,           \* the thread of main(), in EventInitializer::init()
    NoName, None

\* A rate of zero is divided by; one above _device_fps gives a step of zero.
Rates == {"good", "zero", "high"}

\* A directory: whether it holds event/N/N.so, the rate, and the number in the enable
\* file, if it is there and holds one.
Directory == [so : BOOLEAN, rate : Rates \cup {"none"}, enable : {"none", "0", "1"}]

ASSUME ProgramAssumption ==
    /\ Installed \subseteq Names /\ NoName \notin Names /\ Uploaded \subseteq Names /\ OnDisk \subseteq Directory
    /\ UploadRates \subseteq Rates /\ Main \notin Requests /\ None \notin Names
    /\ {MaxAddress, MaxThreads, MaxStops, MaxFrames, MaxUploads} \subseteq Nat
    /\ Asks \subseteq [Requests -> [what : {"start", "stop"}, name : Names \cup {NoName}]]

AllNames == Names \cup {NoName}
Addresses == 1 .. MaxAddress
Threads  == 1 .. MaxThreads
Callers  == Requests \cup {Main}

VARIABLES
    dir,            \* the directory of each name
    uploads, target,\* the uploads so far, and the name being uploaded
    objects,        \* the memory at each address: an EventProcessor, live or deleted
    event_thread,   \* _event_thread: name to address
    asked,          \* what each request asks for
    name, place,    \* the name each caller has in hand, and where it is
    ptr,            \* the pointer each caller has in hand
    toStart,        \* directory entries init() has not come to yet
    self, tpc, got, \* a program's thread: its this pointer, place and frame
    arg, cv,        \* in pop(): its copy of the name, the subscription it sleeps on
    info, output,   \* the queue: the ThreadInfo of each name, and its frames
    pushed,         \* frames the camera has delivered
    crashed,        \* an invalid access has killed the process
    stops,          \* history: the calls of stop_event() for each name
    run             \* history: the frames each program has run

callVars   == <<asked, name, place, ptr, toStart, event_thread, stops>>
threadVars == <<self, tpc, got, arg, cv, run>>
queueVars  == <<info, output, pushed>>
dirVars    == <<dir, uploads, target>>
vars == <<dirVars, objects, callVars, threadVars, queueVars, crashed>>

Gone == [so |-> FALSE, rate |-> "none", enable |-> "none"]
NoInfo == [owner |-> 0, rate |-> "zero", isRun |-> "off"]
Blank == [name |-> NoName, rate |-> "zero", enable |-> "off", loaded |-> FALSE, live |-> FALSE]

Started == {t \in Threads : tpc[t] # "none"}

Init ==
    /\ dir \in [AllNames -> OnDisk \cup {Gone}]
    /\ \A n \in AllNames : IF n \in Installed THEN dir[n] \in OnDisk ELSE dir[n] = Gone
    /\ uploads = 0 /\ target = None
    /\ objects = [a \in Addresses |-> Blank]
    /\ event_thread = [n \in AllNames |-> 0]
    /\ asked \in Asks
    /\ name = [c \in Callers |-> NoName]
    /\ place = [c \in Callers |-> "idle"]
    /\ ptr = [c \in Callers |-> 0] /\ toStart = Installed
    /\ self = [t \in Threads |-> 0] /\ tpc = [t \in Threads |-> "none"]
    /\ got = [t \in Threads |-> 0] /\ cv = [t \in Threads |-> 0]
    /\ arg = [t \in Threads |-> NoName]
    /\ info = [n \in AllNames |-> NoInfo]
    /\ output = [n \in AllNames |-> <<>>] /\ pushed = 0
    /\ crashed = FALSE
    /\ stops = [n \in AllNames |-> 0]
    /\ run = [n \in AllNames |-> {}]

Goto(c, p) == place' = [place EXCEPT ![c] = p]

-----------------------------------------------------------------------------
(* An upload of ProgramUpload, as this module sees it: the directory is    *)
(* removed with all it holds, then the program is stored as event/N/N,     *)
(* which nobody loads, then the rate and then the enable file.             *)

\* remove_all() may throw part-way, which ends the upload.
Remains(d) == [so : {FALSE, d.so}, rate : {"none", d.rate}, enable : {"none", d.enable}]

UploadClear(n) ==
    /\ target = None /\ uploads < MaxUploads /\ uploads' = uploads + 1
    /\ \/ dir' = [dir EXCEPT ![n] = Gone] /\ target' = n
       \/ \E d \in Remains(dir[n]) : dir' = [dir EXCEPT ![n] = d] /\ UNCHANGED target

UploadRate(n) ==
    /\ target = n /\ dir[n] = Gone
    /\ \E z \in UploadRates : dir' = [dir EXCEPT ![n].rate = z]
    /\ UNCHANGED <<uploads, target>>

\* On a full disk the enable file stays empty.
UploadEnable(n) ==
    /\ target = n /\ dir[n].rate # "none" /\ target' = None
    /\ \E e \in {"none", "1"} : dir' = [dir EXCEPT ![n].enable = e]
    /\ UNCHANGED uploads

\* A file that cannot be opened undoes the upload.
UploadFails(n) ==
    /\ target = n /\ target' = None /\ dir' = [dir EXCEPT ![n] = Gone]
    /\ UNCHANGED uploads

Upload(n) ==
    /\ UploadClear(n) \/ UploadRate(n) \/ UploadEnable(n) \/ UploadFails(n)
    /\ UNCHANGED <<objects, callVars, threadVars, queueVars, crashed>>

-----------------------------------------------------------------------------
(* EventHandler.  Its map has no lock: two callers that are about to use   *)
(* it, one of them to change it, race.                                     *)

MapRace ==
    \E c, d \in Callers :
        c # d /\ place[c] = "emplace" /\ place[d] \in {"emplace", "lookup"}

\* Memory for a new processor: that of a deleted one, or the first never used.
Free == {a \in Addresses : ~objects[a].live /\ \A o \in Addresses : o < a => objects[o] # Blank}

\* What the constructor makes of the number in the enable file.
Enabled(text) == IF text = "1" THEN "on" ELSE "off"

\* new EventProcessor(name): a member whose file is missing stays uninitialised, a
\* program that cannot be loaded stays null.
Construct(c) ==
    LET d == dir[name'[c]] IN
    /\ Cardinality(Started) + Cardinality({e \in Callers : place[e] = "emplace"}) < MaxThreads
    /\ \E a \in Free, r \in IF d.rate = "none" THEN Rates ELSE {d.rate},
         e \in IF d.enable = "none" THEN {"on", "off"} ELSE {Enabled(d.enable)} :
        /\ objects' = [objects EXCEPT ![a] = [name |-> name'[c], rate |-> r, enable |-> e,
                                             loaded |-> d.so, live |-> TRUE]]
        /\ ptr' = [ptr EXCEPT ![c] = a]
    /\ Goto(c, "emplace")
    /\ UNCHANGED <<event_thread, stops, info, output>>

\* emplace() keeps an entry that is already there; a race may lose the new one.
FaultyDropRefused(c) ==
    /\ event_thread' = [event_thread EXCEPT ![name[c]] = IF @ = 0 THEN ptr[c] ELSE @]
    /\ objects' = IF event_thread[name[c]] = 0 THEN objects
                  ELSE [objects EXCEPT ![ptr[c]].live = FALSE]
Emplaced(c) ==
    /\ \/ event_thread' = [event_thread EXCEPT ![name[c]] = IF @ = 0 THEN ptr[c] ELSE @]
       \/ MapRace /\ UNCHANGED event_thread
    /\ UNCHANGED objects

\* The rest of start_event(): emplace(), and a detached thread for event_loop().
Emplace(c) ==
    LET t == Cardinality(Started) + 1 IN
    /\ place[c] = "emplace"
    /\ Emplaced(c)
    /\ self' = [self EXCEPT ![t] = ptr[c]] /\ arg' = [arg EXCEPT ![t] = name[c]]
    /\ tpc' = [tpc EXCEPT ![t] = "begin"]
    /\ Goto(c, "idle") /\ ptr' = [ptr EXCEPT ![c] = 0]
    /\ UNCHANGED <<dirVars, asked, name, toStart, stops, got, cv, run>>
    /\ UNCHANGED <<queueVars, crashed>>

\* stop_event() begins with remove_event(), which wakes nobody.
RemoveEvent(r) ==
    LET n == name'[r] IN
    /\ stops[n] < MaxStops /\ stops' = [stops EXCEPT ![n] = @ + 1]
    /\ info' = [info EXCEPT ![n] = NoInfo] /\ output' = [output EXCEPT ![n] = <<>>]
    /\ Goto(r, "lookup")
    /\ UNCHANGED <<ptr, objects, event_thread>>

\* The entry that stop_event() finds.
FaultyAnyEntry(n) ==
    LET used == {m \in AllNames : event_thread[m] # 0}
    IN  IF event_thread[n] = 0 /\ used # {}
        THEN event_thread[CHOOSE m \in used : TRUE] ELSE event_thread[n]
Found(n) == event_thread[n]

\* find(name)->second, through end() when the name is unknown.
Lookup(r) ==
    /\ place[r] = "lookup"
    /\ IF Found(name[r]) = 0
       THEN crashed' = TRUE /\ UNCHANGED <<place, ptr>>
       ELSE /\ ptr' = [ptr EXCEPT ![r] = Found(name[r])]
            /\ Goto(r, "delete") /\ UNCHANGED crashed
    /\ UNCHANGED <<dirVars, objects, asked, name, toStart, event_thread, stops>>
    /\ UNCHANGED <<threadVars, queueVars>>

\* delete; the entry stays.  Deleting what has been deleted is an error that the
\* allocator may or may not detect.
Delete(r) ==
    /\ place[r] = "delete"
    /\ \/ /\ objects' = [objects EXCEPT ![ptr[r]].live = FALSE]
          /\ Goto(r, "idle") /\ ptr' = [ptr EXCEPT ![r] = 0] /\ UNCHANGED crashed
       \/ ~objects[ptr[r]].live /\ crashed' = TRUE /\ UNCHANGED <<objects, place, ptr>>
    /\ UNCHANGED <<dirVars, asked, name, toStart, event_thread, stops>>
    /\ UNCHANGED <<threadVars, queueVars>>

-----------------------------------------------------------------------------
(* The callers: EventInitializer::init(), and the two requests.  The first *)
(* call for a request and the ones that bring its body only fill           *)
(* connection_info, and its end only frees it: a request that is refused   *)
(* or abandoned before its last call does nothing here.                    *)

InitNext ==
    /\ place[Main] = "idle"
    /\ \E n \in toStart : toStart' = toStart \ {n} /\ name' = [name EXCEPT ![Main] = n]
    /\ Construct(Main)
    /\ UNCHANGED <<dirVars, asked, threadVars, pushed, crashed>>

\* The call that follows the body.  It queues no response, so the library may call
\* again, until the client goes away.
FinalCall(r) ==
    /\ place[r] = "idle"
    /\ name' = [name EXCEPT ![r] = asked[r].name]
    /\ \/ asked[r].what = "start" /\ Construct(r)
       \/ asked[r].what = "stop" /\ RemoveEvent(r)
    /\ UNCHANGED <<dirVars, asked, toStart, threadVars, pushed, crashed>>

-----------------------------------------------------------------------------
(* EventProcessor::event_loop(), run by thread t through the pointer it    *)
(* was started with.                                                       *)

This(t) == objects[self[t]]

Begin(t) ==
    /\ tpc[t] = "begin"
    /\ info' = IF info[This(t).name].owner # 0 THEN info
               ELSE [info EXCEPT ![This(t).name] =
                        [owner |-> t, rate |-> This(t).rate, isRun |-> This(t).enable]]
    /\ tpc' = [tpc EXCEPT ![t] = "loop"]
    /\ UNCHANGED <<got, arg, cv, run, output, crashed>>

\* pop() copies the name and returns nullptr when it is not subscribed.
PopCheck(t) ==
    /\ tpc[t] = "loop"
    /\ arg' = [arg EXCEPT ![t] = This(t).name]
    /\ tpc' = [tpc EXCEPT ![t] = IF info[This(t).name].owner = 0 THEN "ended" ELSE "test"]
    /\ UNCHANGED <<got, cv, run, info, output, crashed>>

\* The predicate of pop()'s wait, for a subscription that is there.
PopStopped(t) ==
    LET n == arg[t] IN
    /\ tpc[t] = "test" /\ info[n].owner # 0 /\ info[n].isRun = "off"
    /\ info' = [info EXCEPT ![n] = NoInfo] /\ tpc' = [tpc EXCEPT ![t] = "ended"]
    /\ UNCHANGED <<got, cv, output>>

\* What a queue holds after pop() has taken its first frame.
FaultyRest(q) == q
Rest(q) == Tail(q)

PopTake(t) ==
    LET n == arg[t] IN
    /\ tpc[t] = "test" /\ info[n].isRun = "on" /\ output[n] # <<>>
    /\ got' = [got EXCEPT ![t] = Head(output[n])] /\ output' = [output EXCEPT ![n] = Rest(@)]
    /\ tpc' = [tpc EXCEPT ![t] = "exec"] /\ cv' = [cv EXCEPT ![t] = 0]
    /\ UNCHANGED info

PopPark(t) ==
    LET n == arg[t] IN
    /\ tpc[t] = "test" /\ info[n].isRun = "on" /\ output[n] = <<>>
    /\ tpc' = [tpc EXCEPT ![t] = "parked"]
    /\ cv' = [cv EXCEPT ![t] = IF @ = 0 THEN info[n].owner ELSE @]
    /\ UNCHANGED <<got, info, output>>

PopTest(t) == PopStopped(t) \/ PopTake(t) \/ PopPark(t)

\* event_exec(), with the request it may send, and delete buffer.
Exec(t) ==
    /\ tpc[t] = "exec" /\ This(t).loaded
    /\ run' = [run EXCEPT ![arg[t]] = @ \cup {got[t]}]
    /\ got' = [got EXCEPT ![t] = 0] /\ tpc' = [tpc EXCEPT ![t] = "loop"]
    /\ UNCHANGED <<arg, cv, info, output, crashed>>

\* A deleted processor is used or a rate of zero divides, which may go unnoticed, or
\* the predicate of pop() meets a name that has been removed, or there is no program.
Fault(t) ==
    /\ \/ tpc[t] = "test" /\ info[arg[t]].owner = 0
       \/ tpc[t] = "exec" /\ ~This(t).loaded
       \/ tpc[t] \in {"begin", "loop", "exec"} /\ ~This(t).live
       \/ tpc[t] = "begin" /\ This(t).rate = "zero" /\ info[This(t).name].owner = 0
    /\ crashed' = TRUE
    /\ UNCHANGED <<tpc, got, arg, cv, run, info, output>>

Loop(t) ==
    /\ \/ Begin(t) \/ PopCheck(t) \/ Exec(t) \/ Fault(t)
       \/ PopTest(t) /\ UNCHANGED <<arg, run, crashed>>
    /\ UNCHANGED <<dirVars, objects, callVars, self, pushed>>

-----------------------------------------------------------------------------
(* The frame queue's other side, and what may happen at any moment.        *)

\* The threads asleep on a subscription of one of the names in due.
FaultyNobody(due) == {}
Sleepers(due) == {t \in Threads : tpc[t] = "parked" /\ \E n \in due : info[n].owner = cv[t]}

\* A frame reaches every subscriber with a rate, and wakes who sleeps on it.
Push ==
    LET due == {n \in AllNames : info[n].owner # 0 /\ info[n].rate = "good"} IN
    /\ pushed < MaxFrames /\ pushed' = pushed + 1
    /\ output' = [n \in AllNames |-> IF n \in due THEN Append(output[n], pushed') ELSE output[n]]
    /\ tpc' = [t \in Threads |-> IF t \in Sleepers(due) THEN "test" ELSE tpc[t]]
    /\ UNCHANGED <<dirVars, objects, callVars, self, got, arg, cv, run, info, crashed>>

\* For a subscription of another rate the distributor divides by zero, which may go
\* unnoticed.
PushFault ==
    /\ pushed < MaxFrames /\ \E n \in AllNames : info[n].owner # 0 /\ info[n].rate # "good"
    /\ crashed' = TRUE
    /\ UNCHANGED <<dirVars, objects, callVars, threadVars, queueVars>>

SpuriousWake(t) ==
    /\ tpc[t] = "parked" /\ tpc' = [tpc EXCEPT ![t] = "test"]
    /\ UNCHANGED <<dirVars, objects, callVars, self, got, arg, cv, run, queueVars, crashed>>

RaceFault ==
    /\ MapRace /\ crashed' = TRUE
    /\ UNCHANGED <<dirVars, objects, asked, name, place, ptr, toStart, event_thread, stops>>
    /\ UNCHANGED <<threadVars, queueVars>>

Next ==
    /\ ~crashed
    /\ \/ InitNext \/ Push \/ PushFault \/ RaceFault
       \/ \E n \in Uploaded : Upload(n)
       \/ \E c \in Callers : Emplace(c)
       \/ \E r \in Requests : FinalCall(r) \/ Lookup(r) \/ Delete(r)
       \/ \E t \in Threads : Loop(t) \/ SpuriousWake(t)

Spec == Init /\ [][Next]_vars

\* The kernel runs every program's thread; a program and the server it may report
\* to return.  Nobody owes a request, an upload or a frame.
FairSpec == Spec /\ \A t \in Threads : WF_vars(~crashed /\ Loop(t))

-----------------------------------------------------------------------------

TypeOK ==
    /\ dir \in [AllNames -> Directory]
    /\ target \in Names \cup {None} /\ uploads \in 0 .. MaxUploads /\ pushed \in 0 .. MaxFrames
    /\ objects \in [Addresses -> [name : AllNames, rate : Rates, enable : {"on", "off"},
                                  loaded : BOOLEAN, live : BOOLEAN]]
    /\ event_thread \in [AllNames -> 0 .. MaxAddress]
    /\ asked \in Asks
    /\ name \in [Callers -> AllNames] /\ ptr \in [Callers -> 0 .. MaxAddress]
    /\ place \in [Callers -> {"idle", "emplace", "lookup", "delete"}]
    /\ toStart \subseteq Installed
    /\ self \in [Threads -> 0 .. MaxAddress] /\ arg \in [Threads -> AllNames]
    /\ tpc \in [Threads -> {"none", "begin", "loop", "test", "parked", "exec", "ended"}]
    /\ got \in [Threads -> 0 .. MaxFrames] /\ cv \in [Threads -> 0 .. MaxThreads]
    /\ info \in [AllNames -> [owner : 0 .. MaxThreads, rate : Rates, isRun : {"on", "off"}]]
    /\ output \in [AllNames -> Seq(1 .. MaxFrames)] /\ run \in [AllNames -> SUBSET (1 .. MaxFrames)]
    /\ stops \in [AllNames -> 0 .. MaxStops] /\ crashed \in BOOLEAN

\* EventHandlerHTTP.hpp on /program/stop: it stops an event program, the one that
\* is named.  The processor of a program nobody has asked to stop is never deleted
\* under its thread.
StopSparesOthers ==
    \A t \in Started : tpc[t] # "ended" /\ stops[arg[t]] = 0
        => This(t).live /\ This(t).name = arg[t]

\* It is so as long as no name is stopped twice, whatever is started, uploaded and
\* stopped meanwhile and wherever the allocator puts a new processor.
OneStopSparesOthers == (\A n \in AllNames : stops[n] <= 1) => StopSparesOthers

\* The process dies of an event program only if one was stopped, was started
\* without its shared object or with a rate that is zero or too high, was started
\* disabled and also a second time, or two calls of EventHandler met in its map:
\* starting programs, twice even, is otherwise safe.
CrashExplained ==
    crashed => \/ MapRace \/ \E n \in AllNames : stops[n] > 0
               \/ \E t \in Started : ~This(t).loaded \/ This(t).rate # "good"
               \/ \E t, u \in Started :
                     t # u /\ This(t).name = This(u).name /\ This(t).enable = "off"

\* A processor of the name has found the program disabled.
Disabled(n) == \E a \in Addresses : objects[a].name = n /\ objects[a].enable = "off"

\* The threads of a name use one ThreadInfo.
OneInfo(n) == (\A m \in AllNames : stops[m] <= 1) /\ stops[n] = 0 /\ ~Disabled(n)

\* event_loop() never runs a frame that a thread of the same program has run, however
\* many threads start_event() has given it.
RunOnce ==
    [][\A t \in Threads : Exec(t) /\ OneInfo(arg[t]) => got[t] \notin run[arg[t]]]_vars

\* Every frame queued for a program that is not stopped is run, by whichever of
\* its threads, unless a processor of that name found the program disabled.
FrameIsRun ==
    \A n \in Names, f \in 1 .. MaxFrames :
        (\E i \in 1 .. Len(output[n]) : output[n][i] = f)
            ~> f \in run[n] \/ stops[n] > 0 \/ crashed \/ Disabled(n)
=============================================================================
