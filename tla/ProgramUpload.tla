---------------------------- MODULE ProgramUpload ----------------------------
(***************************************************************************)
(* POST /program: uploading an event program.  program_accept() is called  *)
(* by the HTTP library for each portion of a request and answers it;       *)
(* post_request_complete() is called once the request is over, aborted or  *)
(* not, and only then writes the event's directory.                        *)
(*                                                                         *)
(* The library's thread pool serves requests concurrently.  The counter of *)
(* free upload slots has a mutex; the directory has none, so each          *)
(* file-system call of post_request_complete() is a step of its own.       *)
(*                                                                         *)
(* A form field is the number of its pieces that have arrived.             *)
(***************************************************************************)
EXTENDS Naturals, Sequences, FiniteSets

CONSTANTS
    Requests,       \* upload requests, each made once
    Names, Slashed, \* program names, and those with a "/" in them
    Rates,          \* the texts a client may send as fps
    Numeric, TooBig,\* the texts std::stoi accepts, and those out of int's range
    Forms,          \* what a client may send: name's pieces, fps, file's pieces
    UploadUsers,    \* upload_clients of config.json
    MayFail,        \* whether file-system calls and the post processor may fail
    NoOne, NoDir

ASSUME FormAssumption ==
    /\ UploadUsers \in Nat /\ IsFiniteSet(Requests) /\ NoOne \notin Names \cup Requests
    /\ Slashed \subseteq Names /\ Numeric \subseteq Rates /\ TooBig \subseteq Rates \ Numeric
    /\ Forms \subseteq [name : Seq(Names), fps : Rates, file : Nat]

\* A missing directory is told from every directory.
ASSUME DirAssumption ==
    NoDir \notin [prog : Requests \cup {NoOne}, whole : BOOLEAN, fps : SUBSET Rates,
                  enable : {"absent", "empty", "1"}]

VARIABLES
    slots,          \* _upload_client
    pc,             \* where each request is
    form,           \* what the client of each request sends
    con,            \* connection_info: the pieces of each field received
    answer,         \* the response queued for each request
    failed,         \* post_request_complete()'s flag
    dir,            \* the directory event/<name>
    crashed,        \* an exception nobody catches has ended the process
    holding, lost,  \* history: requests that hold a slot, slots never returned
    overlapped,     \* history: names two requests have written at once
    damaged         \* history: names a write or a removal has failed on, until the
                    \* directory is removed

saved == <<dir, damaged>>
vars == <<slots, pc, form, con, answer, failed, saved, crashed, holding, lost, overlapped>>

Start == [name |-> 0, fps |-> 0, file |-> 0]
EmptyDir == [prog |-> NoOne, whole |-> FALSE, fps |-> {}, enable |-> "absent"]

\* file_name and fps are assign()ed: a later piece replaces an earlier one.
NameOf(r) == IF con[r].name = 0 THEN NoOne ELSE form[r].name[con[r].name]
HasFps(r) == con[r].fps = 1

Total(r) == [name |-> Len(form[r].name), fps |-> 1, file |-> form[r].file]
Received(r) == con[r] = Total(r)

\* post_request_complete() is at work on the directory of request r.
SavingStages == {"clear", "create", "program", "rate", "enable", "finish"}
Saving(r) == pc[r] \in SavingStages

\* One of the three fields is still empty.
SomeEmpty(r) == NameOf(r) = NoOne \/ con[r].file = 0 \/ ~HasFps(r)

Init ==
    /\ slots = UploadUsers /\ holding = {} /\ lost = 0 /\ overlapped = {} /\ damaged = {}
    /\ form \in [Requests -> Forms] /\ pc = [r \in Requests |-> "new"]
    /\ con = [r \in Requests |-> Start]
    /\ answer = [r \in Requests |-> "none"] /\ failed = [r \in Requests |-> FALSE]
    /\ dir = [n \in Names |-> NoDir] /\ crashed = FALSE

-----------------------------------------------------------------------------
(* program_accept().                                                       *)

FaultyFreeSlot == TRUE
FreeSlot == slots > 0

Busy(r) ==
    /\ pc[r] = "new" /\ ~FreeSlot
    /\ answer' = [answer EXCEPT ![r] = "busy"] /\ pc' = [pc EXCEPT ![r] = "done"]
    /\ UNCHANGED <<slots, form, con, failed, saved, crashed, holding, lost, overlapped>>

Accept(r) ==
    /\ pc[r] = "new" /\ FreeSlot
    /\ slots' = slots - 1 /\ holding' = holding \cup {r}
    /\ pc' = [pc EXCEPT ![r] = "receiving"]
    /\ UNCHANGED <<form, con, answer, failed, saved, crashed, lost, overlapped>>

\* The post processor cannot be created: the slot is not given back.
AcceptFails(r) ==
    /\ MayFail /\ pc[r] = "new" /\ FreeSlot
    /\ slots' = slots - 1 /\ lost' = lost + 1
    /\ answer' = [answer EXCEPT ![r] = "error"] /\ pc' = [pc EXCEPT ![r] = "done"]
    /\ UNCHANGED <<form, con, failed, saved, crashed, holding, overlapped>>

\* iterate_program_post() is given one piece of a field.
Receive(r) ==
    /\ pc[r] = "receiving"
    /\ \E field \in DOMAIN con[r] :
        /\ con[r][field] < Total(r)[field]
        /\ con' = [con EXCEPT ![r][field] = @ + 1]
    /\ UNCHANGED <<slots, form, pc, answer, failed, saved, crashed, holding, lost, overlapped>>

\* The client goes away, and the library notices.  A client that only falls silent is
\* waited for: the daemon is started without a time-out.
Abandon(r) ==
    /\ pc[r] = "receiving"
    /\ pc' = [pc EXCEPT ![r] = "gone"]
    /\ UNCHANGED <<slots, form, con, answer, failed, saved, crashed, holding, lost, overlapped>>

\* The last call for the request.  std::stoi's out_of_range is not caught.
End(r) ==
    /\ pc[r] = "receiving" /\ Received(r)
    /\ IF NameOf(r) \notin Slashed /\ HasFps(r) /\ form[r].fps \in TooBig
       THEN crashed' = TRUE /\ UNCHANGED <<pc, answer>>
       ELSE /\ answer' = [answer EXCEPT ![r] =
                  IF NameOf(r) \in Slashed \/ form[r].fps \notin Numeric \/ SomeEmpty(r)
                  THEN "refused" ELSE "saved"]
            /\ pc' = [pc EXCEPT ![r] = "answered"] /\ UNCHANGED crashed
    /\ UNCHANGED <<slots, form, con, failed, saved, holding, lost, overlapped>>

-----------------------------------------------------------------------------
(* post_request_complete(), whatever the request's fate was.               *)

\* The post processor is destroyed and the slot given back.
FaultyReturnIfWhole(r) == IF Received(r) THEN slots + 1 ELSE slots
ReturnSlot(r) == slots + 1

\* The library reports the end of a request it has answered, and also of one
\* whose client went away.
FaultyAnsweredOnly(r) == pc[r] = "answered"
IsOver(r) == pc[r] \in {"gone", "answered"}

Complete(r) ==
    /\ IsOver(r)
    /\ slots' = ReturnSlot(r) /\ holding' = holding \ {r}
    /\ pc' = [pc EXCEPT ![r] = IF SomeEmpty(r) THEN "done" ELSE "clear"]
    /\ overlapped' = IF ~SomeEmpty(r) /\ \E s \in Requests : Saving(s) /\ NameOf(s) = NameOf(r)
                     THEN overlapped \cup {NameOf(r)} ELSE overlapped
    /\ UNCHANGED <<form, con, answer, failed, saved, crashed, lost>>

SetDir(r, d) == dir' = [dir EXCEPT ![NameOf(r)] = d]
SaveVars == <<slots, form, con, answer, holding, lost, overlapped>>

\* A directory of that name is removed with all it holds.
FaultyKeepOld(r) == dir[NameOf(r)]
Cleared(r) == NoDir

\* remove_all() may throw when a call fails, or when another thread is putting files
\* into the directory.  By then any of the files may be gone.
MayThrow(r) == MayFail \/ \E s \in Requests \ {r} : Saving(s) /\ NameOf(s) = NameOf(r)

Remains(d) ==
    IF d = NoDir THEN {NoDir}
    ELSE [prog : {d.prog}, whole : {d.whole}, fps : SUBSET d.fps, enable : {d.enable, "absent"}]
         \cup [prog : {NoOne}, whole : {FALSE}, fps : SUBSET d.fps, enable : {d.enable, "absent"}]

RemovedInPart(r) ==
    /\ MayThrow(r)
    /\ \E d \in Remains(dir[NameOf(r)]) : SetDir(r, d)
    /\ damaged' = damaged \cup {NameOf(r)}

Clear(r) ==
    /\ pc[r] = "clear"
    /\ \/ /\ SetDir(r, Cleared(r)) /\ damaged' = damaged \ {NameOf(r)}
          /\ pc' = [pc EXCEPT ![r] = "create"]
       \/ RemovedInPart(r) /\ pc' = [pc EXCEPT ![r] = "done"]
    /\ UNCHANGED <<SaveVars, failed, crashed>>

\* create_directory() accepts an existing one, and needs the parent to exist.
Create(r) ==
    /\ pc[r] = "create"
    /\ \/ /\ NameOf(r) \notin Slashed
          /\ SetDir(r, IF dir[NameOf(r)] = NoDir THEN EmptyDir ELSE dir[NameOf(r)])
          /\ pc' = [pc EXCEPT ![r] = "program"]
       \/ /\ MayFail \/ NameOf(r) \in Slashed
          /\ pc' = [pc EXCEPT ![r] = "done"] /\ UNCHANGED dir
    /\ UNCHANGED <<SaveVars, damaged, failed, crashed>>

\* A file is opened in the directory, which becomes d, or cannot be opened.  What is
\* then written arrives or, on a full disk, does not; the code does not ask.
OpenFile(r, d, arrives, next) ==
    /\ \/ /\ dir[NameOf(r)] # NoDir /\ SetDir(r, d) /\ UNCHANGED failed
          /\ damaged' = IF arrives THEN damaged ELSE damaged \cup {NameOf(r)}
       \/ /\ MayFail \/ dir[NameOf(r)] = NoDir
          /\ failed' = [failed EXCEPT ![r] = TRUE] /\ UNCHANGED saved
    /\ pc' = [pc EXCEPT ![r] = next]
    /\ UNCHANGED <<SaveVars, crashed>>

Writing == IF MayFail THEN BOOLEAN ELSE {TRUE}

WriteProgram(r) ==
    /\ pc[r] = "program"
    /\ \E arrives \in Writing :
        OpenFile(r, [dir[NameOf(r)] EXCEPT !.prog = r, !.whole = Received(r) /\ arrives],
                 arrives, "rate")

\* The rate is the name of an empty file, created even after a failure.
WriteRate(r) ==
    /\ pc[r] = "rate"
    /\ OpenFile(r, [dir[NameOf(r)] EXCEPT !.fps = @ \cup {form[r].fps}], TRUE, "enable")

WriteEnable(r) ==
    /\ pc[r] = "enable"
    /\ \E arrives \in Writing :
        OpenFile(r, [dir[NameOf(r)] EXCEPT !.enable =
                        IF ~failed[r] /\ arrives THEN "1" ELSE IF @ = "absent" THEN "empty" ELSE @],
                 arrives, "finish")

\* A failure removes the directory; remove_all()'s exception is not caught here.
Discarded(r) == NoDir

Finish(r) ==
    /\ pc[r] = "finish"
    /\ IF failed[r]
       THEN \/ /\ SetDir(r, Discarded(r)) /\ damaged' = damaged \ {NameOf(r)}
               /\ pc' = [pc EXCEPT ![r] = "done"] /\ UNCHANGED crashed
            \/ RemovedInPart(r) /\ crashed' = TRUE /\ UNCHANGED pc
       ELSE pc' = [pc EXCEPT ![r] = "done"] /\ UNCHANGED <<saved, crashed>>
    /\ UNCHANGED <<SaveVars, failed>>

Save(r) ==
    \/ Clear(r) \/ Create(r) \/ WriteProgram(r) \/ WriteRate(r) \/ WriteEnable(r) \/ Finish(r)

Next ==
    /\ ~crashed
    /\ \E r \in Requests :
        \/ Busy(r) \/ Accept(r) \/ AcceptFails(r) \/ Receive(r) \/ Abandon(r) \/ End(r)
        \/ Complete(r) \/ Save(r)

Spec == Init /\ [][Next]_vars

\* The library's threads run: they answer a request that has arrived whole and report
\* the end of one that is over.  Its clients owe nothing.
Fairness ==
    \A r \in Requests : /\ WF_vars(~crashed /\ End(r)) /\ WF_vars(~crashed /\ Complete(r))
                        /\ WF_vars(~crashed /\ Save(r))
FairSpec == Spec /\ Fairness

-----------------------------------------------------------------------------

TypeOK ==
    /\ form \in [Requests -> Forms]
    /\ slots \in Nat /\ lost \in Nat /\ holding \subseteq Requests
    /\ overlapped \subseteq Names /\ damaged \subseteq Names
    /\ pc \in [Requests -> {"new", "receiving", "gone", "answered", "done"} \cup SavingStages]
    /\ con \in [Requests -> [name : Nat, fps : 0 .. 1, file : Nat]]
    /\ answer \in [Requests -> {"none", "busy", "error", "refused", "saved"}]
    /\ failed \in [Requests -> BOOLEAN] /\ crashed \in BOOLEAN
    /\ dir \in [Names -> [prog : Requests \cup {NoOne}, whole : BOOLEAN, fps : SUBSET Rates,
                          enable : {"absent", "empty", "1"}] \cup {NoDir}]

\* Every slot is free, held by a request that is being received, or lost to a
\* failed post processor; no request returns one twice or ends with one.
SlotsBalanced ==
    /\ slots + Cardinality(holding) + lost = UploadUsers
    /\ holding = {r \in Requests : pc[r] \in {"receiving", "gone", "answered"}}

\* As long as no two uploads of one name have been written at once, a directory that
\* nobody is writing is of one upload: whichever calls have failed, it never mixes
\* two; and unless a write or a removal has failed it holds the program of that
\* upload, as far as it was received, its rate and its enable file.
OneUploadKept ==
    \A n \in Names \ overlapped :
        ~(\E r \in Requests : Saving(r) /\ NameOf(r) = n) /\ dir[n] # NoDir
            => \E r \in Requests :
                /\ NameOf(r) = n
                /\ dir[n].prog \in {r, NoOne} /\ dir[n].fps \subseteq {form[r].fps}
                /\ n \notin damaged => dir[n] = [prog |-> r, whole |-> Received(r),
                                               fps |-> {form[r].fps}, enable |-> "1"]

\* A client that falls silent keeps its slot.
Silent(r) == pc[r] = "receiving" /\ ~Received(r)

\* The slot of a request comes back, whether the client has sent all of it or has gone
\* away, unless the client falls silent for ever.
SlotComesBack ==
    \A r \in Requests : [](r \in holding => <>(r \notin holding \/ crashed \/ []Silent(r)))

\* EventHandlerHTTP.cpp: the answer "program file saved" means that the save has
\* succeeded.  Once every request is over and was so answered, the directory of
\* each name uploaded holds one of its uploads, whole.
SavedMeansSaved ==
    (\A r \in Requests : pc[r] = "done" /\ answer[r] = "saved") =>
        \A r \in Requests : \E s \in Requests :
            /\ NameOf(s) = NameOf(r)
            /\ dir[NameOf(r)] = [prog |-> s, whole |-> TRUE, fps |-> {form[s].fps}, enable |-> "1"]
=============================================================================
