----------------------------- MODULE VideoQueue -----------------------------
(***************************************************************************)
(* camera_device::VideoQueue, the frame queue between the camera and every *)
(* consumer of pictures (event programs, the SDP probe, the live stream).  *)
(*                                                                         *)
(* The camera pushes frames on one input queue.  Detached threads run      *)
(* distribute_buffer(): each takes the frame at the head of the input,     *)
(* copies it to the output queue of every subscriber whose turn it is and  *)
(* deletes it.  A consumer subscribes with insert_event(), blocks in pop() *)
(* and is unsubscribed by another thread with remove_event().              *)
(*                                                                         *)
(* A consumer's mutex is that of the ThreadInfo it looked up, a            *)
(* distributor's that of the subscription in force, remove_event() keeps   *)
(* neither: pop() and remove_event() are therefore split at each access to *)
(* shared state, and every other step is code under a mutex that all the   *)
(* threads concerned take.                                                 *)
(*                                                                         *)
(* A frame is the number of its push.  A ThreadInfo object is named by the *)
(* consumer that allocated it: every consumer allocates exactly one.       *)
(***************************************************************************)
EXTENDS Naturals, Sequences

CONSTANTS
    Distributors,   \* the threads that run distribute_buffer()
    Consumers,      \* the threads that subscribe and pop, and their ThreadInfo
    Names,          \* subscription names: "live", "sdp", event names
    NameOf,         \* the name each consumer subscribes under and pops
    Subscribed,     \* consumers whose insert_event() precedes the initial state
    Disabled,       \* consumers whose "enable" file may hold 0: _is_run starts false
    Stoppable,      \* names stop_event() may remove at any moment
    Streams,        \* names whose consumer stops by itself before the removal
    DeviceFps,      \* _device_fps
    Fps,            \* the frame rate each name asks for
    MaxFrames,      \* bound on the frames the camera delivers
    MayExit,        \* whether main() may return and destroy the queue
    Remover,        \* the thread inside remove_event(): the mutex admits one
    NoOne           \* no owner, no ThreadInfo

ASSUME RateAssumption ==
    DeviceFps \in Nat \ {0} /\ Fps \in [Names -> Nat] /\ MaxFrames \in Nat

ASSUME ThreadAssumption ==
    /\ NameOf \in [Consumers -> Names]
    /\ Subscribed \subseteq Consumers
    /\ \A c, e \in Subscribed : NameOf[c] = NameOf[e] => c = e
    /\ Distributors # {} /\ Distributors \cap Consumers = {}
    /\ {NoOne, Remover} \cap (Distributors \cup Consumers) = {}
    /\ NoOne # Remover /\ NoOne \notin Names

VARIABLES
    input, frameNo, enabled,    \* _input, _current_frame_no, _q_enable
    inputOwner, infoOwner,      \* who holds _input_mutex, _thread_info_mutex
    thread_info,                \* _thread_info: name to ThreadInfo, NoOne if absent
    queues, output,             \* _output: the names in it, and their queues
    isRun, itemOwner,           \* ThreadInfo: _is_run, which pop() holds _mutex
    dpc, held, todo,            \* distributor: place, frame taken, names to visit
    cpc, at, cv, got,           \* consumer: place, ThreadInfo locked, waited on, ret
    rmStage, rmName, rmItem,    \* remove_event(): place, name, iterator's target
    crashed,                    \* the process was killed by an invalid access
    pushed, freed,              \* history: frames pushed, frames fully distributed
    joined, handed,             \* history: freed at subscription, frames popped
    mixed                       \* history: names used under two mutexes at once

inputVars == <<input, frameNo, enabled, inputOwner, pushed, freed>>
mapVars   == <<thread_info, queues, output, joined, infoOwner>>
itemVars  == <<isRun, itemOwner>>
distVars  == <<dpc, held, todo>>
consVars  == <<cpc, at, cv, got, handed>>
rmVars    == <<rmStage, rmName, rmItem>>
vars == <<inputVars, mapVars, itemVars, distVars, consVars, rmVars, crashed, mixed>>

-----------------------------------------------------------------------------

\* insert_event(): thread_info->_fps = _device_fps / thread_info->_fps.
\* Division by zero is undefined; where it does not trap (AArch64) it yields 0.
StepOf(n) == IF Fps[n] = 0 THEN 0 ELSE DeviceFps \div Fps[n]

\* The counter of distribute_buffer(): 1 .. _device_fps, then 1 again.  (Definitions
\* named Faulty... are defective variants that show which property guards what.)
FaultyLateRestart(k) == IF k > DeviceFps THEN 1 ELSE k + 1
FaultyRestartAtZero(k) == IF k + 1 > DeviceFps THEN 0 ELSE k + 1
NextFrameNo(k) == IF k + 1 > DeviceFps THEN 1 ELSE k + 1

\* Whether a subscriber takes frame number k.  (A remainder by zero that does
\* not trap yields k, which is never 0.)
Takes(n, k) == StepOf(n) # 0 /\ k % StepOf(n) = 0

\* _input_mutex can be locked.
FaultyNoLock == TRUE
InputFree == inputOwner = NoOne

\* The _mutex of ThreadInfo t can be locked.
FaultyNoItemLock(t) == TRUE
ItemFree(t) == itemOwner[t] = NoOne

Parked == {d \in Distributors : dpc[d] = "parked"}

\* _input_cond.notify_one() and notify_all().
FaultyNoNotify == UNCHANGED dpc
NotifyOne ==
    IF Parked = {} THEN UNCHANGED dpc
    ELSE \E d \in Parked : dpc' = [dpc EXCEPT ![d] = "top"]
NotifyAll == dpc' = [d \in Distributors |-> IF d \in Parked THEN "top" ELSE dpc[d]]

\* The places of the consumers after _cond_t.notify_all() on the ThreadInfo of n.
FaultyWakeNobody(n) == cpc
WakeWaiters(n) ==
    [c \in Consumers |->
        IF cpc[c] = "parked" /\ cv[c] = thread_info[n] THEN "lock" ELSE cpc[c]]

\* The output queue of n with one more frame.
WithFrame(n, f) == Append(output[n], f)

\* The names of _output after emplace(n): a queue already there is kept.
FaultyNoQueue(n) == queues
WithQueue(n) == queues \cup {n}

\* thread_info of n exists and its _is_run is false, or true.
Stopped(n) == thread_info[n] # NoOne /\ ~isRun[thread_info[n]]
Running(n) == thread_info[n] # NoOne /\ isRun[thread_info[n]]

\* The predicate of pop()'s wait is true, and evaluating it faults nowhere.
FaultyAnyWake(n) == Stopped(n) \/ (Running(n) /\ n \in queues)
MayReturn(n) == Stopped(n) \/ (Running(n) /\ n \in queues /\ output[n] # <<>>)

\* A pop() holds its mutex and works on the subscription and queue of its name.
AtWork(c) == cpc[c] \in {"test", "sleep", "check", "front", "drop"}

\* remove_event() empties the queue of n and deletes it.
Draining(n) == rmStage \in {"drain", "dropped"} /\ rmName = n

\* A pop() works on n while the mutex it holds is not that of the subscription
\* in force, the one the distributors take, or while remove_event() drains n.
Contended(n) ==
    \E c \in Consumers : NameOf[c] = n /\ AtWork(c) /\
        (thread_info[n] \notin {NoOne, at[c]} \/ Draining(n))
Mix == mixed' = mixed \cup {n \in Names : Contended(n)'}

Init ==
    /\ input = <<>> /\ frameNo = 0 /\ enabled = TRUE /\ inputOwner = NoOne
    /\ pushed = 0 /\ freed = 0 /\ infoOwner = NoOne
    /\ thread_info = [n \in Names |->
           IF \E c \in Subscribed : NameOf[c] = n
           THEN CHOOSE c \in Subscribed : NameOf[c] = n ELSE NoOne]
    /\ queues = {NameOf[c] : c \in Subscribed}
    /\ output = [n \in Names |-> <<>>] /\ handed = [n \in Names |-> <<>>]
    /\ joined = [n \in Names |-> 0]
    /\ isRun \in [Consumers -> BOOLEAN] /\ \A c \in Consumers \ Disabled : isRun[c]
    /\ itemOwner = [c \in Consumers |-> NoOne]
    /\ dpc = [d \in Distributors |-> "top"]
    /\ held = [d \in Distributors |-> 0] /\ todo = [d \in Distributors |-> {}]
    /\ cpc = [c \in Consumers |-> IF c \in Subscribed THEN "ready" ELSE "new"]
    /\ at = [c \in Consumers |-> NoOne] /\ cv = [c \in Consumers |-> NoOne]
    /\ got = [c \in Consumers |-> 0] /\ mixed = {}
    /\ rmStage = "idle" /\ rmItem = NoOne /\ rmName = NoOne
    /\ crashed = FALSE

-----------------------------------------------------------------------------
(* The camera's push(), and the destructor.                                *)

Push ==
    /\ pushed < MaxFrames /\ InputFree
    /\ input' = Append(input, pushed + 1) /\ pushed' = pushed + 1
    /\ NotifyOne
    /\ UNCHANGED <<frameNo, enabled, inputOwner, freed, held, todo>>
    /\ UNCHANGED <<mapVars, itemVars, consVars, rmVars, crashed>>

\* ~VideoQueue(), run for the static instance when main() returns.  It does
\* not wait for the distributors.
Destroy ==
    /\ MayExit /\ enabled /\ InputFree
    /\ enabled' = FALSE
    /\ NotifyAll
    /\ UNCHANGED <<input, frameNo, inputOwner, pushed, freed, held, todo>>
    /\ UNCHANGED <<mapVars, itemVars, consVars, rmVars, crashed>>

-----------------------------------------------------------------------------
(* distribute_buffer().  _input_mutex is held from DTake to DFinish.       *)

DPark(d) ==
    /\ dpc[d] = "top" /\ enabled /\ InputFree /\ input = <<>>
    /\ dpc' = [dpc EXCEPT ![d] = "parked"]
    /\ UNCHANGED <<inputVars, mapVars, held, todo, cpc>>

DTake(d) ==
    /\ dpc[d] = "top" /\ enabled /\ InputFree /\ input # <<>>
    /\ inputOwner' = d
    /\ held' = [held EXCEPT ![d] = Head(input)] /\ input' = Tail(input)
    /\ frameNo' = NextFrameNo(frameNo)
    /\ dpc' = [dpc EXCEPT ![d] = "took"]
    /\ UNCHANGED <<enabled, pushed, freed, todo, mapVars, cpc>>

\* The loop over _thread_info has work for the names that take this number.
DLockInfo(d) ==
    /\ dpc[d] = "took" /\ infoOwner = NoOne
    /\ infoOwner' = d
    /\ todo' = [todo EXCEPT ![d] =
           {n \in Names : thread_info[n] # NoOne /\ Takes(n, frameNo)}]
    /\ dpc' = [dpc EXCEPT ![d] = "visit"]
    /\ UNCHANGED <<inputVars, thread_info, queues, output, joined, held, cpc>>

\* One subscriber, in the hash table's order: copy, append, wake every waiter.
\* The copy made for a name without a queue is leaked.
DDeliver(d, n) ==
    /\ dpc[d] = "visit" /\ n \in todo[d]
    /\ thread_info[n] # NoOne /\ ItemFree(thread_info[n])
    /\ output' = IF n \in queues
                 THEN [output EXCEPT ![n] = WithFrame(n, held[d])] ELSE output
    /\ cpc' = WakeWaiters(n)
    /\ todo' = [todo EXCEPT ![d] = @ \ {n}]
    /\ UNCHANGED <<inputVars, thread_info, queues, joined, infoOwner, dpc, held>>

DFinish(d) ==
    /\ dpc[d] = "visit" /\ \A n \in todo[d] : thread_info[n] = NoOne
    /\ infoOwner' = NoOne /\ inputOwner' = NoOne
    /\ freed' = freed + 1
    /\ held' = [held EXCEPT ![d] = 0] /\ todo' = [todo EXCEPT ![d] = {}]
    /\ dpc' = [dpc EXCEPT ![d] = "top"]
    /\ UNCHANGED <<input, frameNo, enabled, pushed>>
    /\ UNCHANGED <<thread_info, queues, output, joined, cpc>>

DExit(d) ==
    /\ dpc[d] = "top" /\ ~enabled
    /\ dpc' = [dpc EXCEPT ![d] = "done"]
    /\ UNCHANGED <<inputVars, mapVars, held, todo, cpc>>

Distribute(d) ==
    /\ \/ DPark(d) \/ DTake(d) \/ DLockInfo(d) \/ DFinish(d) \/ DExit(d)
       \/ \E n \in Names : DDeliver(d, n)
    /\ UNCHANGED <<itemVars, at, cv, got, handed, rmVars, crashed>>

-----------------------------------------------------------------------------
(* insert_event(), called once by each consumer.  Its result is ignored: a *)
(* consumer whose name is taken goes on to pop() under that name.          *)

InsertRefused(c) ==
    /\ cpc[c] = "new" /\ infoOwner = NoOne /\ thread_info[NameOf[c]] # NoOne
    /\ cpc' = [cpc EXCEPT ![c] = "ready"]
    /\ UNCHANGED mapVars

InsertLock(c) ==
    /\ cpc[c] = "new" /\ infoOwner = NoOne /\ thread_info[NameOf[c]] = NoOne
    /\ infoOwner' = c
    /\ cpc' = [cpc EXCEPT ![c] = "inserting"]
    /\ UNCHANGED <<thread_info, queues, output, joined>>

\* Both emplace() calls, and the unlock.
InsertCommit(c) ==
    /\ cpc[c] = "inserting"
    /\ thread_info' = [thread_info EXCEPT ![NameOf[c]] = c]
    /\ queues' = WithQueue(NameOf[c])
    /\ joined' = [joined EXCEPT ![NameOf[c]] = freed]
    /\ infoOwner' = NoOne
    /\ cpc' = [cpc EXCEPT ![c] = "ready"]
    /\ UNCHANGED output

Insert(c) ==
    /\ InsertRefused(c) \/ InsertLock(c) \/ InsertCommit(c)
    /\ UNCHANGED <<inputVars, itemVars, distVars, at, cv, got, handed, rmVars, crashed>>

-----------------------------------------------------------------------------
(* pop().  It never takes _thread_info_mutex, and looks its name up anew   *)
(* for every access.                                                       *)

\* The checks at the top return nullptr when the name is gone from either map.
PopCheck(c) ==
    /\ cpc[c] = "ready"
    /\ cpc' = [cpc EXCEPT ![c] =
           IF thread_info[NameOf[c]] = NoOne \/ NameOf[c] \notin queues
           THEN "ended" ELSE "find"]
    /\ UNCHANGED <<thread_info, output, itemOwner, at, cv, got, handed, crashed>>

\* The look-up of the ThreadInfo whose mutex is locked next.
PopFind(c) ==
    /\ cpc[c] = "find" /\ thread_info[NameOf[c]] # NoOne
    /\ at' = [at EXCEPT ![c] = thread_info[NameOf[c]]]
    /\ cpc' = [cpc EXCEPT ![c] = "lock"]
    /\ UNCHANGED <<thread_info, output, itemOwner, cv, got, handed, crashed>>

\* The mutex is acquired.  The call of wait() that follows looks up the _cond_t
\* to sleep on; a wait() that is woken keeps it.
PopLock(c) ==
    /\ cpc[c] = "lock" /\ ItemFree(at[c])
    /\ cv[c] = NoOne => thread_info[NameOf[c]] # NoOne
    /\ itemOwner' = [itemOwner EXCEPT ![at[c]] = c]
    /\ cv' = [cv EXCEPT ![c] = IF @ = NoOne THEN thread_info[NameOf[c]] ELSE @]
    /\ cpc' = [cpc EXCEPT ![c] = "test"]
    /\ UNCHANGED <<thread_info, output, at, got, handed, crashed>>

\* The predicate of the wait.
PopTest(c) ==
    LET n == NameOf[c] IN
    /\ cpc[c] = "test" /\ (Stopped(n) \/ (Running(n) /\ n \in queues))
    /\ cpc' = [cpc EXCEPT ![c] = IF MayReturn(n) THEN "check" ELSE "sleep"]
    /\ UNCHANGED <<thread_info, output, itemOwner, at, cv, got, handed, crashed>>

\* wait() releases the mutex and sleeps, in one step for whoever takes that mutex.
PopSleep(c) ==
    /\ cpc[c] = "sleep"
    /\ itemOwner' = [itemOwner EXCEPT ![at[c]] = NoOne]
    /\ cpc' = [cpc EXCEPT ![c] = "parked"]
    /\ UNCHANGED <<thread_info, output, at, cv, got, handed, crashed>>

\* wait() has returned: is _is_run false?
PopAwake(c) ==
    /\ cpc[c] = "check" /\ thread_info[NameOf[c]] # NoOne
    /\ cpc' = [cpc EXCEPT ![c] = IF Stopped(NameOf[c]) THEN "erase" ELSE "front"]
    /\ UNCHANGED <<thread_info, output, itemOwner, at, cv, got, handed, crashed>>

\* front(); what it yields for an empty queue is no frame.
PopFront(c) ==
    LET n == NameOf[c] IN
    /\ cpc[c] = "front" /\ n \in queues
    /\ got' = [got EXCEPT ![c] = IF output[n] = <<>> THEN 0 ELSE Head(output[n])]
    /\ cpc' = [cpc EXCEPT ![c] = "drop"]
    /\ UNCHANGED <<thread_info, output, itemOwner, at, cv, handed, crashed>>

\* The lock is released and the locals of pop() end.
PopReturns(c, pc) ==
    /\ itemOwner' = [itemOwner EXCEPT ![at[c]] = NoOne]
    /\ at' = [at EXCEPT ![c] = NoOne] /\ cv' = [cv EXCEPT ![c] = NoOne]
    /\ got' = [got EXCEPT ![c] = 0]
    /\ cpc' = [cpc EXCEPT ![c] = pc]

\* The queue of n without its first frame: std::queue::pop().
Popped(n) == IF output[n] = <<>> THEN output ELSE [output EXCEPT ![n] = Tail(@)]

PopDrop(c) ==
    LET n == NameOf[c] IN
    /\ cpc[c] = "drop" /\ n \in queues
    /\ handed' = [handed EXCEPT ![n] = Append(@, got[c])]
    /\ output' = Popped(n)
    /\ PopReturns(c, "ready")
    /\ UNCHANGED <<thread_info, crashed>>

\* _is_run is false: the consumer erases the name from _thread_info, not from
\* _output, and returns nullptr.
PopErase(c) ==
    /\ cpc[c] = "erase"
    /\ thread_info' = [thread_info EXCEPT ![NameOf[c]] = NoOne]
    /\ PopReturns(c, "ended")
    /\ UNCHANGED <<output, handed, crashed>>

\* A look-up whose result is dereferenced finds nothing: an access through a
\* null pointer.
PopFault(c) ==
    LET n == NameOf[c] IN
    /\ \/ cpc[c] \in {"find", "test", "check"} /\ thread_info[n] = NoOne
       \/ /\ cpc[c] = "lock" /\ ItemFree(at[c])
          /\ cv[c] = NoOne /\ thread_info[n] = NoOne
       \/ cpc[c] = "test" /\ Running(n) /\ n \notin queues
       \/ cpc[c] \in {"front", "drop"} /\ n \notin queues
    /\ crashed' = TRUE
    /\ UNCHANGED <<thread_info, output, itemOwner, cpc, at, cv, got, handed>>

\* The pipeline set to GST_STATE_NULL calls need-data no more: the consumer of
\* a stream stops between two pops.
Leave(c) ==
    /\ cpc[c] = "ready" /\ NameOf[c] \in Streams
    /\ cpc' = [cpc EXCEPT ![c] = "ended"]
    /\ UNCHANGED <<thread_info, output, itemOwner, at, cv, got, handed, crashed>>

PopSteps(c) ==
    \/ PopCheck(c) \/ PopFind(c) \/ PopLock(c) \/ PopTest(c) \/ PopSleep(c)
    \/ PopAwake(c) \/ PopFront(c) \/ PopDrop(c) \/ PopErase(c) \/ PopFault(c)

Pop(c)  == PopSteps(c) /\ UNCHANGED <<inputVars, queues, joined, infoOwner, isRun, distVars, rmVars>>
Quit(c) == Leave(c) /\ UNCHANGED <<inputVars, queues, joined, infoOwner, isRun, distVars, rmVars>>

-----------------------------------------------------------------------------
(* remove_event(): under _thread_info_mutex, but the mutex of the          *)
(* ThreadInfo is locked and released at once.  A call for a name that is   *)
(* in neither map changes nothing.                                         *)

\* Whether some caller may ask for the removal of n now.
MayRemove(n) == n \in Stoppable \/ \A c \in Consumers : NameOf[c] = n => cpc[c] = "ended"

RemoveLock(n) ==
    /\ infoOwner = NoOne /\ (thread_info[n] # NoOne \/ n \in queues)
    /\ MayRemove(n)
    /\ infoOwner' = Remover
    /\ rmName' = n /\ rmItem' = thread_info[n] /\ rmStage' = "touch"
    /\ UNCHANGED <<thread_info, queues, output, isRun>>

RemoveTouch ==
    /\ rmStage = "touch" /\ (rmItem # NoOne => ItemFree(rmItem))
    /\ rmStage' = "drain"
    /\ UNCHANGED <<thread_info, queues, output, infoOwner, isRun, rmName, rmItem>>

\* The loop deletes the first frame and then takes it off the queue.
RemoveFront ==
    /\ rmStage = "drain" /\ rmName \in queues /\ output[rmName] # <<>>
    /\ rmStage' = "dropped"
    /\ UNCHANGED <<thread_info, queues, output, infoOwner, isRun, rmName, rmItem>>

RemoveDrop ==
    /\ rmStage = "dropped"
    /\ output' = Popped(rmName)
    /\ rmStage' = "drain"
    /\ UNCHANGED <<thread_info, queues, infoOwner, isRun, rmName, rmItem>>

\* The queue is empty, or there is none: it is deleted and erased from _output.
RemoveQueue ==
    /\ rmStage = "drain" /\ (rmName \in queues => output[rmName] = <<>>)
    /\ queues' = queues \ {rmName}
    /\ rmStage' = "stop"
    /\ UNCHANGED <<thread_info, output, infoOwner, isRun, rmName, rmItem>>

RemoveStop ==
    /\ rmStage = "stop"
    /\ isRun' = IF rmItem = NoOne THEN isRun ELSE [isRun EXCEPT ![rmItem] = FALSE]
    /\ rmStage' = "erase"
    /\ UNCHANGED <<thread_info, queues, output, infoOwner, rmName, rmItem>>

\* erase(name) and the unlock.  No waiting consumer is notified.
RemoveErase ==
    /\ rmStage = "erase"
    /\ thread_info' = [thread_info EXCEPT ![rmName] = NoOne]
    /\ infoOwner' = NoOne
    /\ rmStage' = "idle" /\ rmName' = NoOne /\ rmItem' = NoOne
    /\ UNCHANGED <<queues, output, isRun>>

RemoveSteps ==
    \/ RemoveTouch \/ RemoveFront \/ RemoveDrop \/ RemoveQueue \/ RemoveStop \/ RemoveErase

Remove == RemoveSteps /\ UNCHANGED <<inputVars, joined, itemOwner, distVars, consVars, crashed>>
RemoveBegin(n) == RemoveLock(n) /\ UNCHANGED <<inputVars, joined, itemOwner, distVars, consVars, crashed>>

-----------------------------------------------------------------------------
(* What the language leaves undefined, and what it leaves open.            *)

Reading(c) == AtWork(c) \/ cpc[c] \in {"ready", "find", "lock"}

\* remove_event() is about to erase a queue from _output.
Unlinking == rmStage = "drain" /\ rmName \in queues /\ output[rmName] = <<>>

\* Two threads are about to access one of the two maps, one of them to change
\* it, and no mutex orders them.
MapRace ==
    \E c \in Consumers :
        \/ Reading(c) /\ (infoOwner \in Consumers \/ rmStage = "erase" \/ Unlinking)
        \/ /\ cpc[c] = "erase"
           /\ \/ infoOwner # NoOne
              \/ \E e \in Consumers \ {c} : Reading(e) \/ cpc[e] = "erase"

\* Two threads may use the queue of one name with no mutex between them, or one
\* calls front() or pop() on an empty one.
QueueRace ==
    \/ \E n \in Names : Contended(n)
    \/ \E c \in Consumers : cpc[c] \in {"front", "drop"} /\ output[NameOf[c]] = <<>>

DivisionByZero ==
    \/ \E c \in Consumers : cpc[c] = "inserting" /\ Fps[NameOf[c]] = 0
    \/ \E d \in Distributors, n \in Names :
        dpc[d] = "visit" /\ thread_info[n] # NoOne /\ StepOf(n) = 0

\* The destructor has returned and a distributor still uses the members.
UseAfterDestroy == ~enabled /\ \E d \in Distributors : dpc[d] # "done"

\* Undefined behaviour may end the process, or go unnoticed.
Fault ==
    /\ MapRace \/ QueueRace \/ DivisionByZero \/ UseAfterDestroy
    /\ crashed' = TRUE
    /\ UNCHANGED <<inputVars, mapVars, itemVars, distVars, consVars, rmVars>>

\* A condition variable may wake a waiter for no reason.
SpuriousWake ==
    /\ \/ \E d \in Parked : dpc' = [dpc EXCEPT ![d] = "top"] /\ UNCHANGED cpc
       \/ \E c \in Consumers :
            cpc[c] = "parked" /\ cpc' = [cpc EXCEPT ![c] = "lock"] /\ UNCHANGED dpc
    /\ UNCHANGED <<inputVars, mapVars, itemVars, held, todo, at, cv, got, handed, rmVars, crashed>>

Next ==
    /\ ~crashed
    /\ \/ Push \/ Destroy \/ Remove \/ Fault \/ SpuriousWake
       \/ \E d \in Distributors : Distribute(d)
       \/ \E c \in Consumers : Insert(c) \/ Pop(c) \/ Quit(c)
       \/ \E n \in Names : RemoveBegin(n)
    /\ Mix

Spec == Init /\ [][Next]_vars

\* Every thread that can run does run: the kernel schedules each of them, and
\* none of them holds a mutex for ever.  A distributor that waits for a mutex which
\* comes free again and again gets it, however often consumers are woken for
\* nothing.  The camera, the callers of remove_event() and spurious wake-ups owe
\* nothing.
Fairness ==
    /\ \A d \in Distributors : SF_vars(~crashed /\ Distribute(d) /\ Mix)
    /\ \A c \in Consumers : WF_vars(~crashed /\ (Insert(c) \/ Pop(c)) /\ Mix)
    /\ WF_vars(~crashed /\ Remove /\ Mix)

FairSpec == Spec /\ Fairness

-----------------------------------------------------------------------------

TypeOK ==
    /\ input \in Seq(Nat) /\ frameNo \in 0 .. DeviceFps /\ enabled \in BOOLEAN
    /\ pushed \in Nat /\ freed \in Nat
    /\ inputOwner \in Distributors \cup {NoOne}
    /\ infoOwner \in Distributors \cup Consumers \cup {Remover, NoOne}
    /\ thread_info \in [Names -> Consumers \cup {NoOne}]
    /\ queues \subseteq Names
    /\ output \in [Names -> Seq(Nat)] /\ handed \in [Names -> Seq(Nat)]
    /\ joined \in [Names -> Nat]
    /\ isRun \in [Consumers -> BOOLEAN]
    /\ itemOwner \in [Consumers -> Consumers \cup {NoOne}]
    /\ dpc \in [Distributors -> {"top", "parked", "took", "visit", "done"}]
    /\ held \in [Distributors -> Nat] /\ todo \in [Distributors -> SUBSET Names]
    /\ cpc \in [Consumers -> {"new", "inserting", "ready", "find", "lock", "test",
                              "sleep", "parked", "check", "front", "drop", "erase", "ended"}]
    /\ at \in [Consumers -> Consumers \cup {NoOne}]
    /\ cv \in [Consumers -> Consumers \cup {NoOne}]
    /\ got \in [Consumers -> Nat] /\ mixed \subseteq Names
    /\ rmStage \in {"idle", "touch", "drain", "dropped", "stop", "erase"}
    /\ rmName \in Names \cup {NoOne} /\ rmItem \in Consumers \cup {NoOne}
    /\ crashed \in BOOLEAN

\* The frames of name n that pop() has returned or can still return.
Feed(n) == handed[n] \o output[n]

Elements(s) == {s[i] : i \in 1 .. Len(s)}

\* The number of the f-th frame within its second, and whether n is to get it.
NumberOf(f) == ((f - 1) % DeviceFps) + 1
Due(n, f)   == StepOf(n) # 0 /\ NumberOf(f) % StepOf(n) = 0

\* Several threads distribute and several pop, yet every name gets its frames in
\* the order the camera pushed them, each at most once: a distributor keeps
\* _input_mutex for its whole iteration, pop() its mutex from front() to pop().  It
\* holds across removals and new subscriptions of a name until a pop() of an old
\* subscription meets a new one, or the removal: from then on a frame may be given
\* twice.
InOrder ==
    \A n \in Names \ mixed :
        \A i, j \in 1 .. Len(Feed(n)) : i < j => Feed(n)[i] < Feed(n)[j]

\* Every frame pushed waits in _input, is in the hands of exactly one
\* distributor, or has been distributed and deleted: none is lost, duplicated
\* or freed twice, whatever the number of distributors.
Conservation ==
    /\ pushed = freed + (IF inputOwner = NoOne THEN 0 ELSE 1) + Len(input)
    /\ \A i \in 1 .. Len(input) : input[i] = pushed - Len(input) + i
    /\ \A d \in Distributors :
        dpc[d] \in {"took", "visit"} => inputOwner = d /\ held[d] = freed + 1

\* The counter that all distributors share and that restarts every _device_fps
\* frames gives a name only frames whose number is a multiple of its step.  (0 is
\* what front() yields for an empty queue.)
OnlyDueFrames == \A n \in Names : \A f \in Elements(Feed(n)) \ {0} : Due(n, f)

\* While a name stays subscribed no frame it is due is skipped, neither by a
\* distributor nor by a pop() that drops a frame it has not read, whatever
\* insert_event(), remove_event() and pop() of other threads do meanwhile, short of
\* using the queue under another mutex.
NothingSkipped ==
    \A n \in queues \ mixed : thread_info[n] # NoOne /\ ~Draining(n) =>
        \A f \in (joined[n] + 1) .. freed : Due(n, f) => f \in Elements(Feed(n))

\* A distributor that reaches a subscriber finds its output queue, so that the
\* copy it has made is never leaked.
NoLeakedCopy ==
    \A d \in Distributors : dpc[d] = "visit" =>
        \A n \in todo[d] : thread_info[n] # NoOne => n \in queues

\* No wake-up of a distributor is lost, neither push()'s nor the destructor's:
\* while frames wait and nobody holds the input mutex some distributor is awake,
\* and once _q_enable has fallen none of them sleeps, so that each leaves its loop.
InputNoticed ==
    IF enabled
    THEN input # <<>> /\ inputOwner = NoOne => \E d \in Distributors : dpc[d] = "top"
    ELSE \A d \in Distributors : dpc[d] # "parked"

\* No wake-up of a consumer is lost between its test of the predicate and its
\* sleep: one that sleeps on the subscription in force has an empty queue, unless
\* the mutex it held was another's than that of the variable it sleeps on.
ParkedMeansEmpty ==
    \A c \in Consumers :
        /\ cpc[c] = "parked" /\ cv[c] = thread_info[NameOf[c]] /\ NameOf[c] \notin mixed
        => output[NameOf[c]] = <<>>

\* No thread meets undefined behaviour in distribute_buffer() or pop() as long
\* as subscriptions neither come nor go.
Sound == ~(crashed \/ MapRace \/ QueueRace \/ DivisionByZero \/ UseAfterDestroy)

\* Every frame the camera pushes reaches every subscriber it is due to.
FrameReachesConsumer ==
    \A f \in 1 .. MaxFrames, n \in Names :
        pushed >= f /\ Due(n, f) ~> f \in Elements(handed[n])

\* VideoQueue.cpp on pop(): the consumer of a removed event is given nullptr, so
\* that its thread ends.
RemovedConsumerEnds ==
    \A c \in Consumers :
        cpc[c] = "parked" /\ thread_info[NameOf[c]] = NoOne
            ~> cpc[c] # "parked" \/ thread_info[NameOf[c]] # NoOne \/ crashed

-----------------------------------------------------------------------------
(* The promise of the queue, and how its state shows it: a name is         *)
(* subscribed while it is in both maps and not being drained, and has been *)
(* served up to its last frame or to the moment it subscribed.  Nothing is *)
(* promised for a name from its use under two mutexes on.                  *)

OnFeed(n) == thread_info[n] # NoOne /\ n \in queues /\ ~Draining(n) /\ n \notin mixed
LastOf(n) ==
    IF Feed(n) # <<>> /\ Feed(n)[Len(Feed(n))] > joined[n]
    THEN Feed(n)[Len(Feed(n))] ELSE joined[n]

Promise == INSTANCE FrameFeed WITH
    on <- [n \in Names |-> OnFeed(n)],
    last <- [n \in Names |-> IF OnFeed(n) THEN LastOf(n) ELSE 0],
    waiting <- [n \in Names |-> IF n \in mixed THEN <<>> ELSE output[n]],
    taken <- [n \in Names |-> IF n \in mixed THEN <<>> ELSE handed[n]],
    spoilt <- mixed

\* distribute_buffer(), insert_event(), pop() and remove_event(), interleaved step
\* by step and with the races between them, do to each subscription only what the
\* abstract feed may do: the next due frame, the oldest one taken, nothing else.
ImplementsFeed == Promise!Spec
=============================================================================
