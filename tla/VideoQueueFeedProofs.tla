------------------------- MODULE VideoQueueFeedProofs -------------------------
(***************************************************************************)
(* More about VideoQueue, for any number of threads, names and frames: no  *)
(* wake-up is lost, and a subscription is served every frame it is due and *)
(* no other.                                                               *)
(***************************************************************************)
EXTENDS VideoQueueProofs

-----------------------------------------------------------------------------
(* The distributors' wake-ups.  A notification that finds nobody asleep is *)
(* not lost, for then a distributor is on its way to the wait: the input   *)
(* mutex is free, and none of them leaves its loop before the end.         *)

NoticeInv ==
    /\ TypeOK /\ Conservation /\ InputNoticed
    /\ \A d \in Distributors : dpc[d] = "done" => ~enabled

LEMMA NoticeDistribute ==
  ASSUME NoticeInv, NEW d \in Distributors, Distribute(d)
  PROVE  InputNoticed' /\ \A e \in Distributors : dpc'[e] = "done" => ~enabled'
<1>. USE DEF NoticeInv, InputNoticed, TypeOK, inputVars
<1>1. CASE DPark(d)
  BY <1>1 DEF DPark
<1>2. CASE DTake(d)
  BY <1>2, ThreadAssumption DEF DTake
<1>3. CASE DLockInfo(d)
  BY <1>3, ThreadAssumption DEF DLockInfo, Conservation
<1>4. CASE DFinish(d)
  <2>1. dpc'[d] = "top" /\ enabled' = enabled /\ \A e \in Distributors \ {d} : dpc'[e] = dpc[e]
    BY <1>4 DEF DFinish
  <2>. QED
    BY <2>1
<1>5. CASE DExit(d)
  BY <1>5 DEF DExit
<1>6. ASSUME NEW n \in Names, DDeliver(d, n) PROVE UNCHANGED <<inputVars, dpc>>
  BY <1>6 DEF DDeliver
<1>. QED
  BY <1>1, <1>2, <1>3, <1>4, <1>5, <1>6 DEF Distribute

LEMMA NoticeStep == NoticeInv /\ [Next]_vars => NoticeInv'
<1>. SUFFICES ASSUME NoticeInv, [Next]_vars
              PROVE  InputNoticed' /\ \A d \in Distributors : dpc'[d] = "done" => ~enabled'
  BY TypeStep, ConservationStep DEF NoticeInv
<1>1. CASE Push
  <2>1. inputOwner = NoOne /\ enabled' = enabled /\ NotifyOne
    BY <1>1 DEF Push, InputFree
  <2>2. \A d \in Distributors : dpc[d] \notin {"took", "visit"}
    BY <2>1, ThreadAssumption DEF NoticeInv, Conservation
  <2>3. \A d \in Distributors : dpc'[d] = dpc[d] \/ (dpc[d] = "parked" /\ dpc'[d] = "top")
    BY <2>1, WakeUps DEF NoticeInv
  <2>4. enabled => \E d \in Distributors : dpc'[d] = "top"
    <3>1. CASE Parked = {}
      <4>1. dpc' = dpc /\ \A d \in Distributors : dpc[d] # "parked"
        BY <2>1, <3>1 DEF NotifyOne, Parked
      <4>2. enabled => \A d \in Distributors : dpc[d] = "top"
        BY <2>2, <4>1 DEF NoticeInv, TypeOK
      <4>. QED
        BY <4>1, <4>2, ThreadAssumption
    <3>2. CASE Parked # {}
      BY <2>1, <3>2 DEF NotifyOne, Parked, NoticeInv, TypeOK
    <3>. QED
      BY <3>1, <3>2
  <2>. QED
    BY <2>1, <2>3, <2>4 DEF NoticeInv, InputNoticed
<1>2. CASE Destroy
  BY <1>2 DEF Destroy, NotifyAll, Parked, NoticeInv, InputNoticed
<1>3. CASE SpuriousWake
  BY <1>3, SpuriousWakeUps DEF NoticeInv, InputNoticed, inputVars
<1>4. CASE UNCHANGED Upstream
  BY <1>4 DEF Upstream, inputVars, distVars, NoticeInv, InputNoticed
<1>. QED
  BY <1>1, <1>2, <1>3, <1>4, NoticeDistribute, ConsumersKeepUpstream, OthersKeepUpstream DEF Next

\* For any number of distributors, push() never leaves a frame to sleeping threads and
\* the destructor leaves none asleep, though each notification may find nobody waiting.
THEOREM NoWakeUpLost == Spec => []InputNoticed
<1>1. Init => NoticeInv
  <2>1. Init => Conservation
    BY DEF Init, Conservation
  <2>2. Init => InputNoticed /\ \A d \in Distributors : dpc[d] = "done" => ~enabled
    BY DEF Init, InputNoticed
  <2>. QED
    BY <2>1, <2>2, TypeInit DEF NoticeInv
<1>2. NoticeInv => InputNoticed
  BY DEF NoticeInv
<1>. QED
  BY <1>1, <1>2, NoticeStep, PTL DEF Spec

-----------------------------------------------------------------------------
(* The consumers' wake-ups.  A consumer that tests the predicate holds its *)
(* mutex until it sleeps; where that is the mutex in force, no distributor *)
(* comes between the test and the sleep, and the variable is the one that  *)
(* it will notify.                                                         *)

Parking(c) ==
    LET n == NameOf[c] IN
    /\ cpc[c] \in {"new", "inserting", "ready", "find"} => cv[c] = NoOne
    /\ AtWork(c) \/ cpc[c] = "parked" => cv[c] # NoOne
    /\ n \notin mixed => cv[c] \in {NoOne, at[c]}
    /\ n \notin mixed /\ cpc[c] \in {"sleep", "parked"} /\ cv[c] = thread_info[n] => output[n] = <<>>

ParkInv == WorkInv /\ \A c \in Consumers : Parking(c)

\* The queue of n grows by the frame a distributor delivers, or loses its first frame.
LEMMA OutputChanges ==
  ASSUME TypeOK, [Next]_vars, NEW n \in Names
  PROVE  \/ output'[n] = output[n]
         \/ output[n] # <<>> /\ output'[n] = Tail(output[n])
         \/ \E d \in Distributors : Distribute(d) /\ DDeliver(d, n)
<1>1. CASE UNCHANGED output
  BY <1>1
<1>2. ASSUME NEW m \in Names \cup {NoOne}, output' = Popped(m)
      PROVE  output'[n] = output[n] \/ (output[n] # <<>> /\ output'[n] = Tail(output[n]))
  BY <1>2, PoppedType
<1>3. ASSUME NEW d \in Distributors, Distribute(d), ~DDeliver(d, n) PROVE output'[n] = output[n]
  <2>1. ASSUME NEW m \in Names \ {n}, DDeliver(d, m) PROVE output'[n] = output[n]
    BY <2>1 DEF DDeliver, TypeOK
  <2>2. CASE ~ \E m \in Names : DDeliver(d, m)
    BY <1>1, <1>3, <2>2 DEF Distribute, DPark, DTake, DLockInfo, DFinish, DExit, mapVars
  <2>. QED
    BY <1>3, <2>1, <2>2
<1>4. ASSUME NEW c \in Consumers, Insert(c) \/ Pop(c) \/ Quit(c)
      PROVE  output' = output \/ output' = Popped(NameOf[c])
  BY <1>4 DEF Insert, InsertRefused, InsertLock, InsertCommit, mapVars, Pop, PopSteps, PopCheck, PopFind,
              PopLock, PopTest, PopSleep, PopAwake, PopFront, PopDrop, PopErase, PopFault, Quit, Leave
<1>5. CASE Push \/ Destroy \/ SpuriousWake \/ Remove \/ Fault \/ (\E m \in Names : RemoveBegin(m))
           \/ UNCHANGED vars
  <2>1. output' = output \/ output' = Popped(rmName)
    BY <1>5 DEF Push, Destroy, SpuriousWake, Remove, RemoveSteps, RemoveTouch, RemoveFront, RemoveDrop,
         RemoveQueue, RemoveStop, RemoveErase, Fault, RemoveBegin, RemoveLock, vars, mapVars
  <2>2. rmName \in Names \cup {NoOne}
    BY DEF TypeOK
  <2>. QED
    BY <1>1, <1>2, <2>1, <2>2
<1>. QED
  BY <1>1, <1>2, <1>3, <1>4, <1>5, ThreadAssumption DEF Next

\* A step of another thread than c.
LEMMA ParkOthers ==
  ASSUME ParkInv, [Next]_vars, NEW c \in Consumers, ~Insert(c), ~Pop(c), ~Quit(c)
  PROVE  Parking(c)'
<1>. DEFINE n == NameOf[c]
<1>0. /\ WorkInv /\ TypeOK /\ n \in Names /\ Parking(c) /\ (n \notin mixed' => n \notin mixed)
      /\ NoOne # c
  BY MixStep, ThreadAssumption DEF ParkInv, WorkInv
<1>1. UNCHANGED <<at[c], cv[c]>> /\ Woken(c)
  <2>1. ASSUME NEW e \in Consumers \ {c}, Insert(e) \/ Pop(e) \/ Quit(e)
        PROVE  cpc'[c] = cpc[c] /\ at'[c] = at[c] /\ cv'[c] = cv[c]
    BY <1>0, <2>1, ConsumersKeepOthers
  <2>. QED
    BY <1>0, <2>1, OthersKeepConsumers DEF Next, Woken
<1>. SUFFICES ASSUME n \notin mixed', cpc'[c] \in {"sleep", "parked"}, cv[c] = thread_info'[n],
                     cv[c] # NoOne
              PROVE  output'[n] = <<>>
  BY <1>0, <1>1 DEF Parking, Woken, AtWork
<1>2. cpc[c] = cpc'[c] /\ cv[c] = at[c]
  BY <1>0, <1>1 DEF Parking, Woken
<1>3. cv[c] = thread_info[n]
  <2>1. ASSUME NEW e \in Consumers, InsertCommit(e) PROVE cv[c] # e
    BY <1>0, <2>1 DEF InsertCommit, WorkInv, AllocInv
  <2>. QED
    BY <1>0, <2>1, ThreadInfoChanges
<1>4. output[n] = <<>>
  BY <1>0, <1>2, <1>3 DEF Parking
<1>5. ASSUME NEW d \in Distributors, Distribute(d), DDeliver(d, n) PROVE FALSE
  <2>1. CASE cpc[c] = "parked"
    BY <1>0, <1>2, <1>3, <1>5, <2>1 DEF DDeliver, WakeWaiters
  <2>2. CASE cpc[c] = "sleep"
    <3>1. itemOwner[at[c]] = c
      BY <1>0, <2>2 DEF WorkInv, LockInv, Holding, AtWork
    <3>. QED
      BY <1>0, <1>2, <1>3, <1>5, <3>1 DEF DDeliver, ItemFree
  <2>. QED
    BY <1>2, <2>1, <2>2
<1>. QED
  BY <1>0, <1>4, <1>5, OutputChanges

\* A step of c itself.
LEMMA ParkOwn ==
  ASSUME ParkInv, [Next]_vars, NEW c \in Consumers, Insert(c) \/ Pop(c) \/ Quit(c)
  PROVE  Parking(c)'
<1>. DEFINE n == NameOf[c]
<1>0. /\ WorkInv /\ TypeOK /\ n \in Names /\ Parking(c) /\ (n \notin mixed' => n \notin mixed)
      /\ NoOne # c
  BY MixStep, ThreadAssumption DEF ParkInv, WorkInv
<1>1. CASE Insert(c) \/ Quit(c)
  <2>1. /\ UNCHANGED <<at, cv>> /\ cpc[c] \in {"new", "inserting", "ready"}
        /\ cpc'[c] \in {"inserting", "ready", "ended"}
    BY <1>0, <1>1 DEF Insert, InsertRefused, InsertLock, InsertCommit, Quit, Leave, TypeOK
  <2>. QED
    BY <1>0, <2>1 DEF Parking, AtWork
<1>2. CASE PopCheck(c) \/ PopFind(c)
  <2>1. cv' = cv /\ cv[c] = NoOne /\ cpc'[c] \in {"ended", "find", "lock"}
    BY <1>0, <1>2 DEF PopCheck, PopFind, Parking, TypeOK
  <2>. QED
    BY <2>1 DEF Parking, AtWork
<1>3. CASE PopLock(c)
  <2>1. /\ at' = at /\ thread_info' = thread_info /\ cpc'[c] = "test" /\ cv'[c] # NoOne
        /\ cv'[c] = cv[c] \/ cv'[c] = thread_info[n]
    BY <1>0, <1>3 DEF PopLock, TypeOK
  <2>2. n \notin mixed' => thread_info[n] \in {NoOne, at[c]}
    <3>1. MixInv' /\ AtWork(c)'
      BY <1>0, <2>1, MixStep DEF WorkInv, AtWork
    <3>. QED
      BY <1>0, <2>1, <3>1 DEF MixInv, Contended
  <2>. QED
    BY <1>0, <2>1, <2>2 DEF Parking, AtWork
<1>4. CASE PopTest(c)
  <2>1. /\ UNCHANGED <<at, cv, thread_info, output>> /\ cpc[c] = "test"
        /\ cpc'[c] = IF MayReturn(n) THEN "check" ELSE "sleep"
    BY <1>0, <1>4 DEF PopTest, TypeOK
  <2>2. ~MayReturn(n) => output[n] = <<>>
    BY <1>4 DEF PopTest, MayReturn
  <2>. QED
    BY <1>0, <2>1, <2>2 DEF Parking, AtWork
<1>5. CASE PopSleep(c)
  <2>1. UNCHANGED <<at, cv, thread_info, output>> /\ cpc[c] = "sleep" /\ cpc'[c] = "parked"
    BY <1>0, <1>5 DEF PopSleep, TypeOK
  <2>. QED
    BY <1>0, <2>1 DEF Parking, AtWork
<1>6. CASE PopAwake(c) \/ PopFront(c)
  <2>1. UNCHANGED <<at, cv>> /\ AtWork(c) /\ cpc'[c] \in {"erase", "front", "drop"}
    BY <1>0, <1>6 DEF PopAwake, PopFront, AtWork, TypeOK
  <2>. QED
    BY <1>0, <2>1 DEF Parking, AtWork
<1>7. CASE PopDrop(c) \/ PopErase(c)
  <2>1. cv'[c] = NoOne /\ cpc'[c] \in {"ready", "ended"}
    BY <1>0, <1>7 DEF PopDrop, PopErase, PopReturns, TypeOK
  <2>. QED
    BY <2>1 DEF Parking, AtWork
<1>8. CASE PopFault(c)
  <2>1. UNCHANGED <<at, cv, thread_info, output, cpc>>
    BY <1>8 DEF PopFault
  <2>. QED
    BY <1>0, <2>1 DEF Parking, AtWork
<1>. QED
  BY <1>1, <1>2, <1>3, <1>4, <1>5, <1>6, <1>7, <1>8 DEF Pop, PopSteps

LEMMA ParkStep == ParkInv /\ [Next]_vars => ParkInv'
  BY WorkStep, ParkOthers, ParkOwn DEF ParkInv

\* For any number of consumers of any names, none sleeps in pop() on the subscription
\* in force while a frame is queued for it, whoever subscribes, leaves, is removed or
\* takes its frames meanwhile, as long as no pop() works on the name under another
\* mutex than that subscription's.
THEOREM NoSleeperIsForgotten == Spec => []ParkedMeansEmpty
<1>1. Init => ParkInv
  BY WorkInit DEF Init, ParkInv, Parking, AtWork
<1>2. ParkInv => ParkedMeansEmpty
  BY DEF ParkInv, Parking, ParkedMeansEmpty
<1>. QED
  BY <1>1, <1>2, ParkStep, PTL DEF Spec

-----------------------------------------------------------------------------
(* The two maps.  Whoever changes a subscription or walks through them all *)
(* holds _thread_info_mutex, and only remove_event(), while it holds it,   *)
(* leaves a ThreadInfo without a queue.                                    *)

Holders ==
    /\ \A d \in Distributors : dpc[d] = "visit" => infoOwner = d
    /\ \A c \in Consumers : cpc[c] = "inserting" => infoOwner = c
    /\ rmStage # "idle" => infoOwner = Remover

Linked ==
    \A n \in Names : thread_info[n] # NoOne =>
        n \in queues \/ (rmStage \in {"stop", "erase"} /\ rmName = n)

MapInv == TypeOK /\ Holders /\ Linked

LEMMA MapQuiet ==
  ASSUME MapInv, UNCHANGED <<infoOwner, rmStage, rmName, queues>>,
         \A d \in Distributors : dpc'[d] = "visit" => dpc[d] = "visit",
         \A c \in Consumers : cpc'[c] = "inserting" => cpc[c] = "inserting",
         \A n \in Names : thread_info'[n] = thread_info[n] \/ thread_info'[n] = NoOne
  PROVE  Holders' /\ Linked'
  BY DEF MapInv, Holders, Linked

LEMMA MapDistribute ==
  ASSUME MapInv, NEW d \in Distributors, Distribute(d) PROVE Holders' /\ Linked'
<1>1. UNCHANGED <<rmVars, thread_info, queues>>
  BY DEF Distribute, DPark, DTake, DLockInfo, DFinish, DExit, DDeliver, mapVars
<1>2. /\ \A c \in Consumers : cpc'[c] = "inserting" => cpc[c] = "inserting"
      /\ \A e \in Distributors \ {d} : dpc'[e] = dpc[e]
  BY DEF Distribute, DPark, DTake, DLockInfo, DFinish, DExit, DDeliver, WakeWaiters, MapInv, TypeOK
<1>3. d \notin Consumers /\ d # Remover /\ NoOne # d /\ NoOne # Remover /\ NoOne \notin Consumers
      /\ NoOne \notin Distributors
  BY ThreadAssumption
<1>4. CASE DLockInfo(d)
  <2>1. infoOwner = NoOne /\ infoOwner' = d
    BY <1>4 DEF DLockInfo
  <2>. QED
    BY <1>1, <1>2, <1>3, <2>1 DEF MapInv, Holders, Linked, rmVars
<1>5. CASE DFinish(d)
  <2>1. infoOwner = d /\ dpc'[d] = "top"
    BY <1>5 DEF DFinish, MapInv, Holders, TypeOK
  <2>. QED
    BY <1>1, <1>2, <1>3, <2>1 DEF MapInv, Holders, Linked, rmVars
<1>6. CASE ~DLockInfo(d) /\ ~DFinish(d)
  <2>1. infoOwner' = infoOwner /\ (dpc'[d] = "visit" => dpc[d] = "visit")
    BY <1>6 DEF Distribute, DPark, DTake, DExit, DDeliver, mapVars, MapInv, TypeOK
  <2>. QED
    BY <1>1, <1>2, <2>1, MapQuiet DEF rmVars
<1>. QED
  BY <1>4, <1>5, <1>6

LEMMA MapConsume ==
  ASSUME MapInv, NEW c \in Consumers, Insert(c) \/ Pop(c) \/ Quit(c) PROVE Holders' /\ Linked'
<1>1. UNCHANGED <<rmVars, dpc>> /\ \A e \in Consumers \ {c} : cpc'[e] = cpc[e]
  BY ConsumersKeepOthers DEF Insert, Pop, Quit, distVars, MapInv
<1>2. c \notin Distributors /\ c # Remover /\ NoOne # c /\ NoOne # Remover /\ NoOne \notin Consumers
      /\ NoOne \notin Distributors /\ NameOf[c] \in Names
  BY ThreadAssumption
<1>3. CASE InsertLock(c)
  <2>1. infoOwner = NoOne /\ infoOwner' = c /\ UNCHANGED <<thread_info, queues>>
    BY <1>3 DEF InsertLock
  <2>. QED
    BY <1>1, <1>2, <2>1 DEF MapInv, Holders, Linked, rmVars
<1>4. CASE InsertCommit(c)
  <2>1. /\ infoOwner = c /\ infoOwner' = NoOne /\ cpc'[c] = "ready"
        /\ queues' = queues \cup {NameOf[c]}
        /\ \A n \in Names \ {NameOf[c]} : thread_info'[n] = thread_info[n]
    BY <1>4 DEF InsertCommit, WithQueue, MapInv, Holders, TypeOK
  <2>. QED
    BY <1>1, <1>2, <2>1 DEF MapInv, Holders, Linked, rmVars
<1>5. CASE ~InsertLock(c) /\ ~InsertCommit(c)
  <2>1. UNCHANGED <<infoOwner, queues>> /\ (cpc'[c] = "inserting" => cpc[c] = "inserting")
    BY <1>5 DEF Insert, InsertRefused, mapVars, Pop, PopSteps, PopCheck, PopFind, PopLock,
         PopTest, PopSleep, PopAwake, PopFront, PopDrop, PopErase, PopFault, PopReturns, Quit, Leave, MapInv, TypeOK
  <2>2. \A n \in Names : thread_info'[n] = thread_info[n] \/ thread_info'[n] = NoOne
    BY <1>5 DEF Insert, InsertRefused, mapVars, Pop, PopSteps, PopCheck, PopFind, PopLock,
         PopTest, PopSleep, PopAwake, PopFront, PopDrop, PopErase, PopFault, PopReturns, Quit, Leave, MapInv, TypeOK
  <2>. QED
    BY <1>1, <2>1, <2>2, MapQuiet DEF rmVars
<1>. QED
  BY <1>3, <1>4, <1>5

LEMMA MapRemove ==
  ASSUME MapInv, Remove \/ \E n \in Names : RemoveBegin(n) PROVE Holders' /\ Linked'
<1>1. UNCHANGED <<dpc, cpc>>
  BY DEF Remove, RemoveBegin, distVars, consVars
<1>2. Remover \notin Consumers \cup Distributors /\ NoOne # Remover
      /\ NoOne \notin Consumers \cup Distributors
  BY ThreadAssumption
<1>3. ASSUME NEW n \in Names, RemoveBegin(n) PROVE Holders' /\ Linked'
  BY <1>1, <1>2, <1>3 DEF RemoveBegin, RemoveLock, MapInv, Holders, Linked
<1>4. CASE RemoveTouch
  BY <1>1, <1>4 DEF RemoveTouch, MapInv, Holders, Linked
<1>5. CASE RemoveFront \/ RemoveDrop
  BY <1>1, <1>5 DEF RemoveFront, RemoveDrop, MapInv, Holders, Linked
<1>8. CASE RemoveQueue
  BY <1>1, <1>8 DEF RemoveQueue, MapInv, Holders, Linked
<1>6. CASE RemoveStop
  BY <1>1, <1>6 DEF RemoveStop, MapInv, Holders, Linked
<1>7. CASE RemoveErase
  <2>1. /\ infoOwner = Remover /\ infoOwner' = NoOne /\ rmStage' = "idle" /\ queues' = queues
        /\ \A n \in Names : thread_info'[n] # NoOne => thread_info[n] # NoOne /\ n # rmName
    BY <1>7 DEF RemoveErase, MapInv, Holders, TypeOK
  <2>. QED
    BY <1>1, <1>2, <1>7, <2>1 DEF MapInv, Holders, Linked, RemoveErase
<1>. QED
  BY <1>3, <1>4, <1>5, <1>6, <1>7, <1>8 DEF Remove, RemoveSteps

LEMMA MapStep == MapInv /\ [Next]_vars => MapInv'
<1>. SUFFICES ASSUME MapInv, [Next]_vars PROVE Holders' /\ Linked'
  BY TypeStep DEF MapInv
<1>1. CASE Push \/ Destroy
  BY <1>1, WakeUps, MapQuiet DEF Push, Destroy, mapVars, consVars, rmVars, MapInv
<1>2. CASE SpuriousWake
  <2>1. /\ UNCHANGED <<mapVars, rmVars>>
        /\ \A c \in Consumers : cpc'[c] = "inserting" => cpc[c] = "inserting"
    BY <1>2 DEF SpuriousWake, MapInv, TypeOK
  <2>. QED
    BY <1>2, <2>1, SpuriousWakeUps, MapQuiet DEF mapVars, rmVars, MapInv
<1>3. CASE Fault \/ UNCHANGED vars
  BY <1>3, MapQuiet DEF Fault, vars, mapVars, rmVars, distVars, consVars
<1>. QED
  BY <1>1, <1>2, <1>3, MapDistribute, MapConsume, MapRemove DEF Next

LEMMA MapInit == Init => MapInv
<1>. SUFFICES ASSUME Init PROVE Holders /\ Linked
  BY TypeInit DEF MapInv
<1>1. \A n \in Names : thread_info[n] # NoOne => n \in queues
  BY DEF Init
<1>. QED
  BY <1>1 DEF Init, Holders, Linked

LEMMA MapGivesQueue == MapInv => NoLeakedCopy
  BY ThreadAssumption DEF MapInv, Holders, Linked, NoLeakedCopy, TypeOK

\* For any number of threads, distribute_buffer() finds an output queue for every
\* subscriber it has made a copy for: it never meets remove_event() between the two
\* maps, and what pop() erases without the mutex only takes subscribers away.
THEOREM NoCopyIsLeaked == Spec => []NoLeakedCopy
  BY MapInit, MapStep, MapGivesQueue, PTL DEF Spec

-----------------------------------------------------------------------------
(* The counter of the frames taken, which all distributors share.          *)

LEMMA ModType == ASSUME NEW a \in Nat, NEW D \in Nat, D > 0 PROVE a % D \in 0 .. (D - 1)
  OBVIOUS

LEMMA DivMod ==
  ASSUME NEW a \in Nat, NEW D \in Nat, D > 0
  PROVE  a = D * (a \div D) + (a % D) /\ a \div D \in Int
<1>1. a = D * (a \div D) + (a % D)
  OBVIOUS
<1>2. a \div D \in Int
  OBVIOUS
<1>. QED
  BY <1>1, <1>2

LEMMA RemainderIsUnique ==
  ASSUME NEW D \in Nat, D > 0, NEW q \in Int, NEW p \in Int,
         NEW r \in 0 .. (D - 1), NEW s \in 0 .. (D - 1), D * q + r = D * p + s
  PROVE  r = s
<1>1. D * (q - p) = s - r
  OBVIOUS
<1>2. CASE q - p >= 1
  <2>1. D * (q - p) >= D
    BY <1>2
  <2>. QED
    BY <1>1, <2>1
<1>3. CASE q - p <= -1
  <2>1. D * (q - p) <= -D
    BY <1>3
  <2>. QED
    BY <1>1, <2>1
<1>4. CASE q = p
  BY <1>1, <1>4
<1>. QED
  BY <1>2, <1>3, <1>4

LEMMA ModNext ==
  ASSUME NEW a \in Nat, NEW D \in Nat, D > 0
  PROVE  (a + 1) % D = IF (a % D) + 1 = D THEN 0 ELSE (a % D) + 1
<1>. DEFINE q == a \div D
            r == a % D
            p == (a + 1) \div D
            s == (a + 1) % D
<1>1. q \in Int /\ p \in Int /\ r \in 0 .. (D - 1) /\ s \in 0 .. (D - 1)
  BY DivMod, ModType
<1>2. D * q + r = a /\ D * p + s = a + 1
  BY DivMod
<1>. HIDE DEF q, r, p, s
<1>3. CASE r + 1 = D
  <2>1. D * (q + 1) + 0 = D * p + s
    BY <1>1, <1>2, <1>3
  <2>. QED
    BY <1>1, <1>3, <2>1, RemainderIsUnique DEF r, s
<1>4. CASE r + 1 # D
  <2>1. D * q + (r + 1) = D * p + s /\ r + 1 \in 0 .. (D - 1)
    BY <1>1, <1>2, <1>4
  <2>. QED
    BY <1>1, <1>4, <2>1, RemainderIsUnique DEF r, s
<1>. QED
  BY <1>3, <1>4 DEF r, s

\* The counter is the number of the last frame taken within its second.
LEMMA NumberAdvances ==
  ASSUME NEW f \in Nat
  PROVE  NumberOf(f + 1) = NextFrameNo(IF f = 0 THEN 0 ELSE NumberOf(f))
<1>0. DeviceFps \in Nat /\ DeviceFps > 0
  BY RateAssumption
<1>1. CASE f = 0
  <2>1. 0 % DeviceFps = 0
    BY <1>0
  <2>. QED
    BY <1>0, <1>1, <2>1 DEF NumberOf, NextFrameNo
<1>2. CASE f # 0
  <2>1. f - 1 \in Nat /\ (f - 1) + 1 = f
    BY <1>2
  <2>2. f % DeviceFps = IF ((f - 1) % DeviceFps) + 1 = DeviceFps THEN 0
                        ELSE ((f - 1) % DeviceFps) + 1
    BY <1>0, <2>1, ModNext
  <2>3. (f - 1) % DeviceFps \in 0 .. (DeviceFps - 1)
    BY <1>0, <2>1, ModType
  <2>4. f + 1 - 1 = f
    OBVIOUS
  <2>. QED
    BY <1>0, <1>2, <2>2, <2>3, <2>4 DEF NumberOf, NextFrameNo
<1>. QED
  BY <1>1, <1>2

InHand == IF inputOwner = NoOne THEN 0 ELSE 1

Counted == frameNo = IF freed + InHand = 0 THEN 0 ELSE NumberOf(freed + InHand)

\* While a distributor walks through the subscribers, those it has not come to yet
\* are due the frame in its hands.
Walk ==
    \A d \in Distributors : dpc[d] = "visit" => \A n \in todo[d] : Due(n, freed + 1)

CountInv == TypeOK /\ Conservation /\ Counted /\ Walk

LEMMA CountQuiet ==
  ASSUME CountInv, UNCHANGED <<inputOwner, freed, frameNo, todo>>,
         \A d \in Distributors : dpc'[d] = "visit" => dpc[d] = "visit"
  PROVE  Counted' /\ Walk'
  BY DEF CountInv, Counted, InHand, Walk

LEMMA CountDistribute ==
  ASSUME CountInv, NEW d \in Distributors, Distribute(d) PROVE Counted' /\ Walk'
<1>0. d # NoOne /\ freed \in Nat
  BY ThreadAssumption DEF CountInv, TypeOK
<1>1. CASE DTake(d)
  <2>1. /\ inputOwner = NoOne /\ inputOwner' = d /\ freed' = freed
        /\ frameNo' = NextFrameNo(frameNo) /\ todo' = todo
    BY <1>1 DEF DTake, InputFree
  <2>2. \A e \in Distributors : dpc'[e] # "visit"
    BY <1>1, <2>1, <1>0, ThreadAssumption DEF DTake, CountInv, Conservation, TypeOK
  <2>3. frameNo = IF freed = 0 THEN 0 ELSE NumberOf(freed)
    BY <1>0, <2>1 DEF CountInv, Counted, InHand
  <2>4. frameNo' = NumberOf(freed + 1)
    BY <1>0, <2>1, <2>3, NumberAdvances
  <2>. QED
    BY <1>0, <2>1, <2>2, <2>4 DEF Counted, InHand, Walk
<1>2. CASE DLockInfo(d)
  <2>1. /\ UNCHANGED <<inputOwner, freed, frameNo>> /\ inputOwner = d
        /\ \A e \in Distributors \ {d} : dpc'[e] = dpc[e] /\ todo'[e] = todo[e]
        /\ todo'[d] = {n \in Names : thread_info[n] # NoOne /\ Takes(n, frameNo)}
    BY <1>2 DEF DLockInfo, CountInv, Conservation, TypeOK, inputVars
  <2>2. frameNo = NumberOf(freed + 1)
    BY <1>0, <2>1 DEF CountInv, Counted, InHand
  <2>3. \A n \in todo'[d] : Due(n, freed + 1)
    BY <2>1, <2>2 DEF Takes, Due
  <2>. QED
    BY <2>1, <2>3 DEF CountInv, Counted, InHand, Walk
<1>3. CASE DFinish(d)
  <2>1. /\ inputOwner = d /\ inputOwner' = NoOne /\ freed' = freed + 1 /\ frameNo' = frameNo
    BY <1>3 DEF DFinish, CountInv, Conservation
  <2>2. \A e \in Distributors : dpc'[e] # "visit"
    BY <1>3, <2>1 DEF DFinish, CountInv, Conservation, TypeOK
  <2>. QED
    BY <1>0, <2>1, <2>2 DEF CountInv, Counted, InHand, Walk
<1>4. ASSUME NEW n \in Names, DDeliver(d, n) PROVE Counted' /\ Walk'
  BY <1>4 DEF DDeliver, inputVars, CountInv, Counted, InHand, Walk, TypeOK
<1>5. CASE DPark(d) \/ DExit(d)
  BY <1>5, CountQuiet DEF DPark, DExit, inputVars, CountInv, TypeOK
<1>. QED
  BY <1>1, <1>2, <1>3, <1>4, <1>5 DEF Distribute

LEMMA CountStep == CountInv /\ [Next]_vars => CountInv'
<1>. SUFFICES ASSUME CountInv, [Next]_vars PROVE Counted' /\ Walk'
  BY TypeStep, ConservationStep DEF CountInv
<1>1. CASE Push \/ Destroy
  BY <1>1, WakeUps, CountQuiet DEF Push, Destroy, CountInv
<1>2. CASE SpuriousWake
  BY <1>2, SpuriousWakeUps, CountQuiet DEF inputVars, CountInv
<1>3. CASE UNCHANGED Upstream
  BY <1>3, CountQuiet DEF Upstream, inputVars, distVars
<1>. QED
  BY <1>1, <1>2, <1>3, CountDistribute, ConsumersKeepUpstream, OthersKeepUpstream DEF Next

LEMMA CountInit == Init => CountInv
<1>1. Init => Conservation
  BY DEF Init, Conservation
<1>2. Init => Counted /\ Walk
  BY DEF Init, Counted, InHand, Walk
<1>. QED
  BY <1>1, <1>2, TypeInit DEF CountInv

-----------------------------------------------------------------------------
(* How the frames of a feed change.                                        *)

LEMMA ElementsOfAppend ==
  ASSUME NEW s \in Seq(Nat), NEW x \in Nat
  PROVE  Elements(Append(s, x)) = Elements(s) \cup {x}
<1>. DEFINE t == Append(s, x)
<1>1. Len(s) \in Nat /\ Len(t) = Len(s) + 1 /\ t[Len(s) + 1] = x
  OBVIOUS
<1>2. \A i \in 1 .. Len(s) : t[i] = s[i]
  BY <1>1
<1>. HIDE DEF t
<1>3. 1 .. Len(t) = (1 .. Len(s)) \cup {Len(s) + 1}
  BY <1>1
<1>4. Elements(t) = Elements(s) \cup {x}
  BY <1>1, <1>2, <1>3 DEF Elements
<1>. QED
  BY <1>4 DEF t

LEMMA ElementsOfTail ==
  ASSUME NEW s \in Seq(Nat), s # <<>>
  PROVE  Head(s) \in Elements(s) /\ Elements(Tail(s)) \subseteq Elements(s)
<1>. DEFINE t == Tail(s)
<1>1. Len(s) \in Nat /\ Len(s) > 0 /\ Len(t) = Len(s) - 1 /\ Head(s) = s[1]
  OBVIOUS
<1>2. \A i \in 1 .. Len(t) : t[i] = s[i + 1]
  BY <1>1
<1>. HIDE DEF t
<1>3. \A i \in 1 .. Len(t) : i + 1 \in 1 .. Len(s)
  BY <1>1
<1>4. 1 \in 1 .. Len(s)
  BY <1>1
<1>5. Head(s) \in Elements(s) /\ Elements(t) \subseteq Elements(s)
  BY <1>1, <1>2, <1>3, <1>4 DEF Elements
<1>. QED
  BY <1>5 DEF t

LEMMA ElementsOfConcat ==
  ASSUME NEW s \in Seq(Nat), NEW t \in Seq(Nat)
  PROVE  Elements(s \o t) = Elements(s) \cup Elements(t)
<1>. DEFINE u == s \o t
<1>1. Len(s) \in Nat /\ Len(t) \in Nat /\ Len(u) = Len(s) + Len(t)
  OBVIOUS
<1>2. \A i \in 1 .. Len(u) : u[i] = IF i <= Len(s) THEN s[i] ELSE t[i - Len(s)]
  BY <1>1
<1>. HIDE DEF u
<1>3. ASSUME NEW i \in 1 .. Len(u) PROVE u[i] \in Elements(s) \cup Elements(t)
  <2>1. i \in 1 .. Len(s) \/ (i > Len(s) /\ i - Len(s) \in 1 .. Len(t))
    BY <1>1
  <2>. QED
    BY <1>1, <1>2, <2>1 DEF Elements
<1>4. ASSUME NEW i \in 1 .. Len(s) PROVE s[i] \in Elements(u)
  <2>1. i \in 1 .. Len(u) /\ u[i] = s[i]
    BY <1>1, <1>2
  <2>. QED
    BY <2>1 DEF Elements
<1>5. ASSUME NEW i \in 1 .. Len(t) PROVE t[i] \in Elements(u)
  <2>1. /\ Len(s) + i \in 1 .. Len(u) /\ ~(Len(s) + i <= Len(s))
        /\ (Len(s) + i) - Len(s) = i
    BY <1>1
  <2>2. u[Len(s) + i] = t[i]
    BY <1>2, <2>1
  <2>. QED
    BY <2>1, <2>2 DEF Elements
<1>6. Elements(u) = Elements(s) \cup Elements(t)
  BY <1>3, <1>4, <1>5 DEF Elements
<1>. QED
  BY <1>6 DEF u

LEMMA FeedElements ==
  ASSUME TypeOK, NEW n \in Names
  PROVE  Elements(Feed(n)) = Elements(handed[n]) \cup Elements(output[n])
  BY FeedType, ElementsOfConcat DEF Feed

LEMMA DeliveryGrowsFeed ==
  ASSUME TypeOK, Conservation, NEW d \in Distributors, NEW m \in Names, DDeliver(d, m),
         UNCHANGED handed
  PROVE  /\ \A n \in Names \ {m} : Feed(n)' = Feed(n)
         /\ m \in queues => Feed(m)' = Append(Feed(m), freed + 1)
         /\ m \notin queues => Feed(m)' = Feed(m)
<1>1. held[d] = freed + 1 /\ freed + 1 \in Nat
  BY DEF DDeliver, Conservation, TypeOK
<1>2. output' = IF m \in queues THEN [output EXCEPT ![m] = Append(output[m], freed + 1)] ELSE output
  BY <1>1 DEF DDeliver, WithFrame
<1>3. \A n \in Names \ {m} : Feed(n)' = Feed(n)
  BY <1>2 DEF Feed, TypeOK
<1>4. CASE m \in queues
  <2>1. output'[m] = Append(output[m], freed + 1)
    BY <1>2, <1>4 DEF TypeOK
  <2>2. handed[m] \o Append(output[m], freed + 1) = Append(handed[m] \o output[m], freed + 1)
    BY <1>1, FeedType, GrowsAtTheEnd
  <2>. QED
    BY <1>3, <1>4, <2>1, <2>2 DEF Feed
<1>5. CASE m \notin queues
  BY <1>2, <1>3, <1>5 DEF Feed
<1>. QED
  BY <1>4, <1>5

-----------------------------------------------------------------------------
(* Every frame of a feed is due, on its way through pop() too: even where  *)
(* two threads take from one queue and a frame comes twice or not at all,  *)
(* what comes is a frame of that queue.                                    *)

Given(n) == Elements(handed[n]) \cup Elements(output[n])

GivenDue ==
    /\ \A n \in Names : \A f \in Given(n) \ {0} : Due(n, f)
    /\ \A c \in Consumers : got[c] # 0 => Due(NameOf[c], got[c])

DueInv == CountInv /\ GivenDue

\* The frame front() gives belongs to the queue, and pop() records that frame.
LEMMA GotChanges ==
  ASSUME TypeOK, [Next]_vars, NEW c \in Consumers
  PROVE  got'[c] \in {got[c], 0} \/ got'[c] \in Elements(output[NameOf[c]])
<1>0. NameOf[c] \in Names /\ got'[c] = got'[c]
  BY ThreadAssumption
<1>1. CASE UNCHANGED got
  BY <1>1
<1>2. ASSUME NEW e \in Consumers \ {c}, Insert(e) \/ Pop(e) \/ Quit(e) PROVE got'[c] = got[c]
  BY <1>2, ConsumersKeepOthers
<1>3. CASE PopFront(c)
  <2>1. output[NameOf[c]] # <<>> => Head(output[NameOf[c]]) \in Elements(output[NameOf[c]])
    BY <1>0, FeedType, ElementsOfTail
  <2>. QED
    BY <1>3, <2>1 DEF PopFront, TypeOK
<1>4. CASE PopDrop(c) \/ PopErase(c)
  BY <1>4 DEF PopDrop, PopErase, PopReturns, TypeOK
<1>5. ASSUME Insert(c) \/ Pop(c) \/ Quit(c), ~PopFront(c), ~PopDrop(c), ~PopErase(c) PROVE UNCHANGED got
  BY <1>5 DEF Insert, Pop, PopSteps, PopCheck, PopFind, PopLock, PopTest, PopSleep, PopAwake, PopFault, Quit,
              Leave
<1>. QED
  BY <1>1, <1>2, <1>3, <1>4, <1>5, OthersKeepConsumers DEF Next

LEMMA HandedChanges ==
  ASSUME TypeOK, [Next]_vars, NEW n \in Names
  PROVE  \/ handed'[n] = handed[n]
         \/ \E c \in Consumers : NameOf[c] = n /\ handed'[n] = Append(handed[n], got[c])
<1>1. ASSUME NEW c \in Consumers, PopDrop(c), handed'[n] # handed[n]
      PROVE  NameOf[c] = n /\ handed'[n] = Append(handed[n], got[c])
  BY <1>1, ThreadAssumption DEF PopDrop, TypeOK
<1>2. ASSUME NEW c \in Consumers, Insert(c) \/ Pop(c) \/ Quit(c), ~PopDrop(c) PROVE UNCHANGED handed
  BY <1>2 DEF Insert, Pop, PopSteps, PopCheck, PopFind, PopLock, PopTest, PopSleep, PopAwake, PopFront,
              PopErase, PopFault, Quit, Leave
<1>. QED
  BY <1>1, <1>2, OthersKeepConsumers DEF Next

LEMMA DueStep == DueInv /\ [Next]_vars => DueInv'
<1>. SUFFICES ASSUME DueInv, [Next]_vars PROVE GivenDue'
  BY CountStep DEF DueInv
<1>0. TypeOK /\ Conservation /\ Walk /\ \A c \in Consumers : NameOf[c] \in Names
  BY ThreadAssumption DEF DueInv, CountInv
<1>1. ASSUME NEW n \in Names, NEW f \in Elements(output[n]) \ {0} PROVE Due(n, f)
  BY DEF DueInv, GivenDue, Given
<1>2. ASSUME NEW c \in Consumers, got'[c] # 0 PROVE Due(NameOf[c], got'[c])
  BY <1>0, <1>1, <1>2, GotChanges DEF DueInv, GivenDue
<1>3. ASSUME NEW n \in Names, NEW f \in Elements(handed'[n]) \ {0} PROVE Due(n, f)
  <2>1. handed[n] \in Seq(Nat) /\ \A c \in Consumers : got[c] \in Nat
    BY <1>0 DEF TypeOK
  <2>2. ASSUME NEW c \in Consumers, NameOf[c] = n, handed'[n] = Append(handed[n], got[c])
        PROVE  f \in Elements(handed[n]) \cup {got[c]}
    <3>1. Elements(Append(handed[n], got[c])) = Elements(handed[n]) \cup {got[c]}
      BY <2>1, ElementsOfAppend
    <3>. QED
      BY <2>2, <3>1
  <2>. QED
    BY <1>0, <2>2, HandedChanges DEF DueInv, GivenDue, Given
<1>4. ASSUME NEW n \in Names, NEW f \in Elements(output'[n]) \ {0} PROVE Due(n, f)
  <2>1. output[n] \in Seq(Nat) /\ freed + 1 \in Nat
    BY <1>0 DEF TypeOK
  <2>2. CASE output'[n] = output[n]
    BY <1>1, <2>2
  <2>3. CASE output[n] # <<>> /\ output'[n] = Tail(output[n])
    <3>1. Elements(Tail(output[n])) \subseteq Elements(output[n])
      BY <2>1, <2>3, ElementsOfTail
    <3>. QED
      BY <1>1, <2>3, <3>1
  <2>4. ASSUME NEW d \in Distributors, DDeliver(d, n) PROVE Due(n, f)
    <3>1. held[d] = freed + 1 /\ Due(n, freed + 1)
      BY <1>0, <2>4 DEF DDeliver, Conservation, Walk
    <3>2. output'[n] = output[n] \/ output'[n] = Append(output[n], freed + 1)
      BY <1>0, <2>4, <3>1 DEF DDeliver, WithFrame, TypeOK
    <3>3. Elements(Append(output[n], freed + 1)) = Elements(output[n]) \cup {freed + 1}
      BY <2>1, ElementsOfAppend
    <3>. QED
      BY <1>1, <3>1, <3>2, <3>3
  <2>. QED
    BY <1>0, <2>2, <2>3, <2>4, OutputChanges
<1>. QED
  BY <1>2, <1>3, <1>4 DEF GivenDue, Given, Elements

\* At whatever rates a device and its subscribers run, the shared counter that
\* restarts every _device_fps frames never gives a name a frame that is not its turn,
\* not even where its queue is used under two mutexes.
THEOREM OnlyItsFrames == Spec => []OnlyDueFrames
<1>1. Init => DueInv
  <2>1. ASSUME Init PROVE GivenDue
    <3>1. ASSUME NEW n \in Names PROVE Elements(handed[n]) = {} /\ Elements(output[n]) = {}
      BY <2>1 DEF Init, Elements
    <3>. QED
      BY <2>1, <3>1 DEF Init, GivenDue, Given
  <2>. QED
    BY <2>1, CountInit DEF DueInv
<1>2. DueInv => OnlyDueFrames
  BY FeedElements DEF DueInv, CountInv, GivenDue, Given, OnlyDueFrames
<1>. QED
  BY <1>1, <1>2, DueStep, PTL DEF Spec

-----------------------------------------------------------------------------
(* No frame that is due is missing from a feed: a subscriber that is due   *)
(* the frame in hand has it or will still be visited.                      *)

Pass ==
    \A d \in Distributors : dpc[d] = "visit" =>
        \A n \in Names : OnFeed(n) /\ Due(n, freed + 1) =>
            n \in todo[d] \/ freed + 1 \in Elements(Feed(n))

SkipInv == WorkInv /\ MapInv /\ CountInv /\ NothingSkipped /\ Pass

LEMMA SkippedNothing ==
  ASSUME TypeOK
  PROVE  NothingSkipped <=>
            \A n \in Names : OnFeed(n) =>
                \A f \in (joined[n] + 1) .. freed : Due(n, f) => f \in Elements(Feed(n))
  BY DEF NothingSkipped, OnFeed, TypeOK

\* A subscription comes into force only with the emplace() calls of insert_event().
LEMMA OnShrinks ==
  ASSUME MixInv, MapInv, [Next]_vars, \A c \in Consumers : Insert(c) => ~InsertCommit(c),
         NEW n \in Names, OnFeed(n)'
  PROVE  OnFeed(n)
<1>0. TypeOK /\ (infoOwner = NoOne => rmStage = "idle")
  BY ThreadAssumption DEF MapInv, Holders
<1>1. n \notin mixed /\ thread_info'[n] # NoOne /\ n \in queues' /\ ~Draining(n)'
  BY <1>0, MixStep DEF OnFeed
<1>2. ASSUME NEW c \in Consumers, Insert(c) \/ Pop(c) \/ Quit(c)
      PROVE  /\ UNCHANGED <<queues, rmStage, rmName>>
             /\ thread_info'[n] = thread_info[n] \/ thread_info'[n] = NoOne
  BY <1>0, <1>2 DEF Insert, InsertRefused, InsertLock, mapVars, rmVars, Pop, PopSteps, PopCheck, PopFind, PopLock,
              PopTest, PopSleep, PopAwake, PopFront, PopDrop, PopErase, PopFault, Quit, Leave, TypeOK
<1>3. ASSUME NEW d \in Distributors, Distribute(d)
      PROVE  UNCHANGED <<queues, rmStage, rmName, thread_info>>
  BY <1>3 DEF Distribute, DPark, DTake, DLockInfo, DFinish, DExit, DDeliver, mapVars, rmVars
<1>4. CASE Push \/ Destroy \/ SpuriousWake \/ Fault \/ UNCHANGED vars
  <2>1. UNCHANGED <<queues, rmStage, rmName, thread_info>>
    BY <1>4 DEF Push, Destroy, SpuriousWake, Fault, vars, mapVars, rmVars
  <2>. QED
    BY <1>1, <2>1 DEF OnFeed, Draining
<1>5. CASE Remove \/ \E m \in Names : RemoveBegin(m)
  <2>1. /\ queues' \subseteq queues
        /\ thread_info'[n] = thread_info[n] \/ thread_info'[n] = NoOne
    BY <1>0, <1>5 DEF Remove, RemoveSteps, RemoveTouch, RemoveFront, RemoveDrop, RemoveQueue, RemoveStop,
                RemoveErase, RemoveBegin, RemoveLock, TypeOK
  <2>2. n \in queues' => Draining(n)' \/ ~Draining(n)
    <3>1. CASE RemoveFront \/ RemoveDrop \/ RemoveQueue
      BY <3>1 DEF RemoveFront, RemoveDrop, RemoveQueue, Draining
    <3>2. CASE ~(RemoveFront \/ RemoveDrop \/ RemoveQueue) /\ Remove
      BY <3>2 DEF Remove, RemoveSteps, RemoveTouch, RemoveStop, RemoveErase, Draining
    <3>. QED
      BY <1>0, <1>1, <1>5, <3>1, <3>2 DEF RemoveBegin, RemoveLock, Draining
  <2>. QED
    BY <1>1, <2>1, <2>2 DEF OnFeed
<1>6. CASE \E c \in Consumers : Insert(c) \/ Pop(c) \/ Quit(c)
  BY <1>1, <1>2, <1>6 DEF OnFeed, Draining
<1>7. CASE \E d \in Distributors : Distribute(d)
  BY <1>1, <1>3, <1>7 DEF OnFeed, Draining
<1>. QED
  BY <1>4, <1>5, <1>6, <1>7 DEF Next

\* Only a distributor changes the feed of a subscription in force.
LEMMA FeedKept ==
  ASSUME WorkInv, [Next]_vars, NEW n \in Names, OnFeed(n)',
         \A d \in Distributors : Distribute(d) => ~DDeliver(d, n)
  PROVE  Feed(n)' = Feed(n)
<1>0. TypeOK /\ n \notin mixed /\ ~Draining(n)'
  BY MixStep DEF WorkInv, OnFeed
<1>1. CASE \E c \in Consumers : Insert(c) \/ Pop(c) \/ Quit(c)
  BY <1>0, <1>1, ConsumersKeepFeed
<1>2. CASE ~ \E c \in Consumers : Insert(c) \/ Pop(c) \/ Quit(c)
  <2>1. handed' = handed
    BY <1>0, <1>2, OthersKeepConsumers DEF Next
  <2>2. CASE Remove
    <3>1. output'[n] = output[n] \/ output' = Popped(rmName)
      BY <2>2 DEF Remove, RemoveSteps, RemoveTouch, RemoveFront, RemoveDrop, RemoveQueue, RemoveStop,
                  RemoveErase
    <3>2. RemoveDrop => rmName # n
      BY <1>0 DEF RemoveDrop, Draining
    <3>3. rmName \in Names \cup {NoOne}
      BY <1>0 DEF TypeOK
    <3>4. output'[n] = output[n]
      BY <1>0, <2>2, <3>2, <3>3, PoppedType DEF Remove, RemoveSteps, RemoveTouch, RemoveFront, RemoveDrop,
                  RemoveQueue, RemoveStop, RemoveErase
    <3>. QED
      BY <2>1, <3>4 DEF Feed
  <2>3. CASE Push \/ Destroy \/ SpuriousWake \/ Fault \/ UNCHANGED vars \/ \E m \in Names : RemoveBegin(m)
    BY <2>1, <2>3 DEF Push, Destroy, SpuriousWake, Fault, vars, mapVars, RemoveBegin, RemoveLock, Feed
  <2>4. ASSUME NEW d \in Distributors, Distribute(d) PROVE output'[n] = output[n]
    <3>1. ASSUME NEW m \in Names \ {n}, DDeliver(d, m) PROVE output'[n] = output[n]
      BY <1>0, <3>1 DEF DDeliver, TypeOK
    <3>. QED
      BY <2>4, <3>1 DEF Distribute, DPark, DTake, DLockInfo, DFinish, DExit, mapVars
  <2>. QED
    BY <1>2, <2>1, <2>2, <2>3, <2>4 DEF Next, Feed
<1>. QED
  BY <1>1, <1>2

\* A step that leaves the pass alone.
LEMMA SkipQuiet ==
  ASSUME SkipInv, [Next]_vars, UNCHANGED <<freed, todo, joined>>,
         \A d \in Distributors : dpc'[d] = "visit" => dpc[d] = "visit",
         \A c \in Consumers : Insert(c) => ~InsertCommit(c),
         \A d \in Distributors, n \in Names : Distribute(d) => ~DDeliver(d, n)
  PROVE  NothingSkipped' /\ Pass'
<1>1. \A n \in Names : OnFeed(n)' => OnFeed(n) /\ Feed(n)' = Feed(n)
  BY OnShrinks, FeedKept DEF SkipInv, WorkInv
<1>2. TypeOK /\ TypeOK'
  BY TypeStep DEF SkipInv, WorkInv
<1>3. \A n \in Names : OnFeed(n) =>
          \A f \in (joined[n] + 1) .. freed : Due(n, f) => f \in Elements(Feed(n))
  BY <1>2, SkippedNothing DEF SkipInv
<1>4. \A n \in Names : OnFeed(n)' =>
          \A f \in (joined'[n] + 1) .. freed' : Due(n, f) => f \in Elements(Feed(n)')
  BY <1>1, <1>3
<1>5. NothingSkipped'
  BY <1>2, <1>4 DEF NothingSkipped, OnFeed, TypeOK, Elements
<1>6. Pass'
  BY <1>1 DEF SkipInv, Pass, Elements
<1>. QED
  BY <1>5, <1>6

LEMMA SkipDistribute ==
  ASSUME SkipInv, NEW d \in Distributors, Distribute(d), [Next]_vars PROVE NothingSkipped' /\ Pass'
<1>0. /\ UNCHANGED <<thread_info, queues, joined, handed>> /\ freed \in Nat
      /\ queues \subseteq Names /\ TypeOK /\ Conservation
  BY DEF Distribute, DPark, DTake, DLockInfo, DFinish, DExit, DDeliver, mapVars,
         SkipInv, MapInv, CountInv, TypeOK
<1>. DEFINE Same(n) == OnFeed(n)' => OnFeed(n) /\ Feed(n)' = Feed(n)
<1>a. \A n \in Names : OnFeed(n)' => OnFeed(n)
  <2>1. mixed \subseteq mixed' /\ UNCHANGED <<rmStage, rmName>>
    BY MixStep DEF SkipInv, WorkInv, Distribute, rmVars
  <2>. QED
    BY <1>0, <2>1 DEF OnFeed, Draining
<1>b. output' = output => \A n \in Names : Same(n)
  BY <1>0, <1>a DEF Feed
<1>c. \A n \in Names : OnFeed(n) =>
          \A f \in (joined[n] + 1) .. freed : Due(n, f) => f \in Elements(Feed(n))
  BY <1>0, SkippedNothing DEF SkipInv
<1>d. ASSUME \A n \in Names : OnFeed(n)' =>
                 \A f \in (joined'[n] + 1) .. freed' : Due(n, f) => f \in Elements(Feed(n)')
      PROVE  NothingSkipped'
  BY <1>0, <1>d, TypeStep DEF NothingSkipped, OnFeed, TypeOK, Elements
<1>1. CASE DLockInfo(d)
  <2>1. /\ UNCHANGED <<freed, output>> /\ inputOwner = d
        /\ todo'[d] = {n \in Names : thread_info[n] # NoOne /\ Takes(n, frameNo)}
        /\ \A e \in Distributors \ {d} : dpc'[e] = dpc[e] /\ todo'[e] = todo[e]
    BY <1>0, <1>1 DEF DLockInfo, Conservation, TypeOK, inputVars
  <2>2. frameNo = NumberOf(freed + 1)
    BY <1>0, <2>1, ThreadAssumption DEF SkipInv, CountInv, Counted, InHand
  <2>3. \A n \in Names : Same(n)
    BY <1>b, <2>1
  <2>4. NothingSkipped'
    BY <1>0, <1>c, <1>d, <2>1, <2>3
  <2>5. \A n \in Names : OnFeed(n) /\ Due(n, freed + 1) => n \in todo'[d]
    BY <1>0, <2>1, <2>2 DEF Takes, Due, OnFeed
  <2>6. Pass'
    BY <1>0, <2>1, <2>3, <2>5 DEF SkipInv, Pass, Elements
  <2>. QED
    BY <2>4, <2>6
<1>2. CASE DFinish(d)
  <2>1. /\ dpc[d] = "visit" /\ freed' = freed + 1 /\ output' = output
        /\ \A n \in todo[d] : thread_info[n] = NoOne
        /\ \A e \in Distributors : dpc'[e] # "visit"
    BY <1>0, <1>2 DEF DFinish, Conservation, TypeOK
  <2>2. \A n \in Names : Same(n)
    BY <1>b, <2>1
  <2>3. \A n \in Names : OnFeed(n) /\ Due(n, freed + 1) => freed + 1 \in Elements(Feed(n))
    BY <2>1 DEF SkipInv, Pass, OnFeed
  <2>4. \A n \in Names : joined[n] \in Nat
    BY <1>0 DEF TypeOK
  <2>5. ASSUME NEW n \in Names, OnFeed(n),
               NEW f \in (joined[n] + 1) .. (freed + 1), Due(n, f)
        PROVE  f \in Elements(Feed(n))
    <3>1. f \in (joined[n] + 1) .. freed \/ f = freed + 1
      BY <1>0, <2>4
    <3>. QED
      BY <1>c, <2>3, <2>5, <3>1
  <2>6. NothingSkipped'
    BY <1>0, <1>d, <2>1, <2>2, <2>5
  <2>. QED
    BY <2>1, <2>6 DEF Pass
<1>3. ASSUME NEW m \in Names, DDeliver(d, m) PROVE NothingSkipped' /\ Pass'
  <2>1. /\ UNCHANGED <<freed, dpc>> /\ todo'[d] = todo[d] \ {m}
        /\ \A e \in Distributors \ {d} : todo'[e] = todo[e]
    BY <1>0, <1>3 DEF DDeliver, TypeOK, inputVars
  <2>2. ASSUME NEW n \in Names, OnFeed(n)
        PROVE  /\ Elements(Feed(n)) \subseteq Elements(Feed(n)')
               /\ n = m => freed + 1 \in Elements(Feed(n)')
    <3>1. Feed(n) \in Seq(Nat) /\ n \in queues
      BY <1>0, <2>2, FeedType DEF OnFeed
    <3>2. IF n = m THEN Feed(n)' = Append(Feed(n), freed + 1) ELSE Feed(n)' = Feed(n)
      BY <1>0, <1>3, <3>1, DeliveryGrowsFeed
    <3>3. Elements(Append(Feed(n), freed + 1)) = Elements(Feed(n)) \cup {freed + 1}
      BY <1>0, <3>1, ElementsOfAppend
    <3>4. CASE n = m
      BY <3>2, <3>3, <3>4
    <3>5. CASE n # m
      BY <3>2, <3>5
    <3>. QED
      BY <3>4, <3>5
  <2>3. NothingSkipped'
    BY <1>0, <1>a, <1>c, <1>d, <2>1, <2>2
  <2>4. Pass'
    BY <1>0, <1>a, <2>1, <2>2 DEF SkipInv, Pass, Elements
  <2>. QED
    BY <2>3, <2>4
<1>4. CASE DPark(d) \/ DTake(d) \/ DExit(d)
  <2>1. /\ UNCHANGED <<freed, todo, output>>
        /\ \A e \in Distributors : dpc'[e] = "visit" => dpc[e] = "visit"
    BY <1>0, <1>4 DEF DPark, DTake, DExit, inputVars, mapVars, TypeOK
  <2>2. \A n \in Names : Same(n)
    BY <1>b, <2>1
  <2>3. NothingSkipped'
    BY <1>0, <1>c, <1>d, <2>1, <2>2
  <2>4. Pass'
    BY <1>0, <2>1, <2>2 DEF SkipInv, Pass, Elements
  <2>. QED
    BY <2>3, <2>4
<1>. QED
  BY <1>1, <1>2, <1>3, <1>4 DEF Distribute

\* A subscription begins when nobody walks through the subscribers, and is owed
\* only what is distributed from then on.
LEMMA SkipCommit ==
  ASSUME SkipInv, [Next]_vars, NEW c \in Consumers, Insert(c), InsertCommit(c)
  PROVE  NothingSkipped' /\ Pass'
<1>. DEFINE m == NameOf[c]
<1>0. /\ TypeOK /\ UNCHANGED <<freed, dpc, todo>> /\ freed \in Nat /\ m \in Names
  BY ConsumersKeepUpstream, ThreadAssumption
     DEF Upstream, inputVars, distVars, SkipInv, MapInv, TypeOK
<1>1. infoOwner = c
  BY DEF InsertCommit, SkipInv, MapInv, Holders
<1>2. \A d \in Distributors : dpc'[d] # "visit"
  BY <1>0, <1>1, ThreadAssumption DEF SkipInv, MapInv, Holders
<1>3. /\ queues' = queues \cup {m} /\ joined'[m] = freed /\ UNCHANGED <<rmStage, rmName>>
      /\ \A n \in Names \ {m} : thread_info'[n] = thread_info[n] /\ joined'[n] = joined[n]
      /\ \A n \in Names : Feed(n)' = Feed(n)
  BY <1>0 DEF Insert, InsertCommit, WithQueue, TypeOK, rmVars, Feed
<1>4. ASSUME NEW n \in Names \ {m}, OnFeed(n)' PROVE OnFeed(n)
  <2>1. n \notin mixed
    BY <1>4, MixStep DEF SkipInv, WorkInv, OnFeed
  <2>. QED
    BY <1>3, <1>4, <2>1 DEF OnFeed, Draining
<1>5. ASSUME NEW n \in Names, OnFeed(n)', NEW f \in (joined'[n] + 1) .. freed', Due(n, f)
      PROVE  f \in Elements(Feed(n)')
  <2>1. CASE n = m
    BY <1>0, <1>3, <1>5, <2>1
  <2>2. CASE n # m
    BY <1>0, <1>3, <1>4, <1>5, <2>2, SkippedNothing DEF SkipInv
  <2>. QED
    BY <2>1, <2>2
<1>6. NothingSkipped'
  BY <1>0, <1>5, TypeStep DEF NothingSkipped, OnFeed, TypeOK, Elements
<1>. QED
  BY <1>2, <1>6 DEF Pass

LEMMA SkipStep == SkipInv /\ [Next]_vars => SkipInv'
<1>. SUFFICES ASSUME SkipInv, [Next]_vars PROVE NothingSkipped' /\ Pass'
  BY WorkStep, MapStep, CountStep DEF SkipInv
<1>0. TypeOK
  BY DEF SkipInv, MapInv
<1>1. CASE \E d \in Distributors : Distribute(d)
  BY <1>1, SkipDistribute
<1>2. CASE \E c \in Consumers : Insert(c) /\ InsertCommit(c)
  BY <1>2, SkipCommit
<1>3. CASE /\ ~ \E d \in Distributors : Distribute(d)
           /\ ~ \E c \in Consumers : Insert(c) /\ InsertCommit(c)
  <2>1. UNCHANGED <<freed, todo, joined>> /\ \A d \in Distributors : dpc'[d] = "visit" => dpc[d] = "visit"
    <3>1. CASE Push \/ Destroy
      BY <1>0, <3>1, WakeUps DEF Push, Destroy, mapVars
    <3>2. CASE SpuriousWake
      BY <1>0, <3>2, SpuriousWakeUps DEF SpuriousWake, inputVars, mapVars
    <3>3. CASE Remove \/ Fault \/ (\E n \in Names : RemoveBegin(n)) \/ UNCHANGED vars
      BY <3>3 DEF Remove, Fault, RemoveBegin, vars, inputVars, distVars, mapVars
    <3>4. ASSUME NEW c \in Consumers, Insert(c) \/ Pop(c) \/ Quit(c) PROVE UNCHANGED <<freed, todo, joined, dpc>>
      BY <1>3, <3>4 DEF Insert, InsertRefused, InsertLock, Pop, Quit, inputVars, distVars, mapVars
    <3>. QED
      BY <1>3, <3>1, <3>2, <3>3, <3>4 DEF Next
  <2>. QED
    BY <1>3, <2>1, SkipQuiet
<1>. QED
  BY <1>1, <1>2, <1>3

LEMMA SkipInit == Init => SkipInv
<1>. SUFFICES ASSUME Init PROVE NothingSkipped /\ Pass
  BY WorkInit, MapInit, CountInit DEF SkipInv
<1>. QED
  BY ThreadAssumption DEF Init, NothingSkipped, Pass

\* For any number of threads, names and rates, a name that stays subscribed is given
\* every frame it is due from the moment it subscribed, whoever else subscribes,
\* leaves, is removed or pops meanwhile, as long as no pop() works on it under another
\* mutex than the one in force.
THEOREM NoFrameIsSkipped == Spec => []NothingSkipped
<1>1. SkipInv => NothingSkipped
  BY DEF SkipInv
<1>. QED
  BY <1>1, SkipInit, SkipStep, PTL DEF Spec

-----------------------------------------------------------------------------
(* The refinement: each step of the queue is a step of FrameFeed, seen     *)
(* through the mapping Promise, or none.                                   *)

Opening ==
    /\ \A c \in Consumers : cpc[c] = "inserting" => thread_info[NameOf[c]] = NoOne
    /\ \A n \in Names : joined[n] <= freed

FeedInv == OrderInv /\ SkipInv /\ Opening

LEMMA OpeningStep == FeedInv /\ [Next]_vars => Opening'
<1>. SUFFICES ASSUME FeedInv, [Next]_vars PROVE Opening'
  OBVIOUS
<1>0. /\ TypeOK /\ freed \in Nat /\ \A n \in Names : joined[n] \in Nat /\ joined[n] <= freed
      /\ \A c \in Consumers : NameOf[c] \in Names
  BY ThreadAssumption DEF FeedInv, OrderInv, WorkInv, Opening, TypeOK
<1>1. ASSUME NEW c \in Consumers, Insert(c) \/ Pop(c) \/ Quit(c) PROVE Opening'
  <2>1. freed' = freed /\ \A e \in Consumers \ {c} : cpc'[e] = cpc[e]
    BY <1>0, <1>1, ConsumersKeepOthers, ConsumersKeepUpstream DEF Upstream, inputVars
  <2>2. CASE InsertCommit(c)
    <3>1. infoOwner = c /\ cpc'[c] = "ready"
      BY <1>0, <2>2 DEF InsertCommit, FeedInv, SkipInv, MapInv, Holders, TypeOK
    <3>2. \A e \in Consumers \ {c} : cpc[e] # "inserting"
      BY <3>1 DEF FeedInv, SkipInv, MapInv, Holders
    <3>3. \A n \in Names : joined'[n] = joined[n] \/ joined'[n] = freed
      BY <1>0, <2>2 DEF InsertCommit, TypeOK
    <3>. QED
      BY <1>0, <2>1, <3>1, <3>2, <3>3 DEF Opening
  <2>3. CASE InsertLock(c)
    BY <1>0, <2>1, <2>3 DEF InsertLock, FeedInv, Opening
  <2>4. CASE ~InsertCommit(c) /\ ~InsertLock(c)
    <3>1. joined' = joined /\ (cpc'[c] = "inserting" => cpc[c] = "inserting")
      BY <1>0, <1>1, <2>4 DEF Insert, InsertRefused, mapVars, Pop, PopSteps, PopCheck, PopFind, PopLock,
         PopTest, PopSleep, PopAwake, PopFront, PopDrop, PopErase, PopFault, PopReturns, Quit, Leave, TypeOK
    <3>2. \A n \in Names : thread_info'[n] = thread_info[n] \/ thread_info'[n] = NoOne
      BY <1>0, <1>1, <2>4 DEF Insert, InsertRefused, mapVars, Pop, PopSteps, PopCheck, PopFind, PopLock,
         PopTest, PopSleep, PopAwake, PopFront, PopDrop, PopErase, PopFault, PopReturns, Quit, Leave, TypeOK
    <3>. QED
      BY <1>0, <2>1, <3>1, <3>2 DEF FeedInv, Opening
  <2>. QED
    BY <2>2, <2>3, <2>4
<1>2. ASSUME NEW d \in Distributors, Distribute(d) PROVE Opening'
  <2>1. UNCHANGED <<thread_info, joined>> /\ (freed' = freed \/ freed' = freed + 1)
    BY <1>2 DEF Distribute, DPark, DTake, DLockInfo, DFinish, DExit, DDeliver, mapVars, inputVars
  <2>2. \A c \in Consumers : cpc'[c] = "inserting" => cpc[c] = "inserting"
    BY <1>0, <1>2, OthersKeepConsumers DEF Woken
  <2>. QED
    BY <1>0, <2>1, <2>2 DEF FeedInv, Opening
<1>3. CASE Push \/ Destroy \/ Fault \/ SpuriousWake \/ UNCHANGED vars
  <2>1. /\ UNCHANGED <<thread_info, joined, freed>>
        /\ \A c \in Consumers : cpc'[c] = "inserting" => cpc[c] = "inserting"
    BY <1>0, <1>3, OthersKeepConsumers DEF Push, Destroy, Fault, SpuriousWake, vars, mapVars, inputVars, Woken
  <2>. QED
    BY <2>1 DEF FeedInv, Opening
<1>5. CASE Remove \/ \E n \in Names : RemoveBegin(n)
  <2>1. UNCHANGED <<joined, freed, cpc>>
    BY <1>5 DEF Remove, RemoveBegin, inputVars, consVars
  <2>2. \A n \in Names : thread_info'[n] = thread_info[n] \/ thread_info'[n] = NoOne
    BY <1>0, <1>5 DEF Remove, RemoveBegin, RemoveLock, RemoveSteps, RemoveTouch, RemoveFront, RemoveDrop,
                      RemoveQueue, RemoveStop, RemoveErase, TypeOK
  <2>. QED
    BY <1>0, <2>1, <2>2 DEF FeedInv, Opening
<1>. QED
  BY <1>1, <1>2, <1>3, <1>5 DEF Next

On      == [n \in Names |-> OnFeed(n)]
Last    == [n \in Names |-> IF OnFeed(n) THEN LastOf(n) ELSE 0]
Waiting == [n \in Names |-> IF n \in mixed THEN <<>> ELSE output[n]]
Taken   == [n \in Names |-> IF n \in mixed THEN <<>> ELSE handed[n]]

\* A step that concerns no name but n, as far as the promise goes: each other name
\* is mixed as before, or else has the same feed and the same subscription.
SameView(m) ==
    /\ OnFeed(m)' <=> OnFeed(m)
    /\ m \notin mixed => output'[m] = output[m] /\ handed'[m] = handed[m] /\ joined'[m] = joined[m]
Apart(n) ==
    /\ pushed' = pushed /\ mixed \subseteq mixed' /\ mixed' \subseteq Names
    /\ \A m \in Names \ {n} : (m \in mixed' <=> m \in mixed) /\ SameView(m)

LEMMA ViewAt ==
  ASSUME NEW m \in Names
  PROVE  /\ On[m] \in BOOLEAN /\ (On[m] <=> OnFeed(m)) /\ On'[m] \in BOOLEAN /\ (On'[m] <=> OnFeed(m)')
         /\ Last[m] = (IF OnFeed(m) THEN LastOf(m) ELSE 0)
         /\ Last'[m] = (IF OnFeed(m)' THEN LastOf(m)' ELSE 0)
         /\ Waiting[m] = (IF m \in mixed THEN <<>> ELSE output[m])
         /\ Waiting'[m] = (IF m \in mixed' THEN <<>> ELSE output'[m])
         /\ Taken[m] = (IF m \in mixed THEN <<>> ELSE handed[m])
         /\ Taken'[m] = (IF m \in mixed' THEN <<>> ELSE handed'[m])
<1>. DEFINE on(x) == OnFeed(x)
            last(x) == IF OnFeed(x) THEN LastOf(x) ELSE 0
<1>1. On[m] = on(m) /\ On'[m] = on(m)' /\ on(m) \in BOOLEAN /\ on(m)' \in BOOLEAN
  <2>1. On[m] = on(m) /\ On'[m] = on(m)'
    BY Zenon DEF On
  <2>2. on(m) \in BOOLEAN /\ on(m)' \in BOOLEAN
    BY DEF OnFeed
  <2>. QED
    BY <2>1, <2>2
<1>2. Last[m] = last(m) /\ Last'[m] = last(m)'
  BY Zenon DEF Last
<1>3. /\ Waiting[m] = (IF m \in mixed THEN <<>> ELSE output[m])
      /\ Waiting'[m] = (IF m \in mixed' THEN <<>> ELSE output'[m])
      /\ Taken[m] = (IF m \in mixed THEN <<>> ELSE handed[m])
      /\ Taken'[m] = (IF m \in mixed' THEN <<>> ELSE handed'[m])
  BY DEF Waiting, Taken
<1>. QED
  BY <1>1, <1>2, <1>3, Zenon

LEMMA ViewsAreFunctions ==
  /\ On = [x \in Names |-> On[x]] /\ On' = [x \in Names |-> On'[x]]
  /\ Last = [x \in Names |-> Last[x]] /\ Last' = [x \in Names |-> Last'[x]]
  /\ Waiting = [x \in Names |-> Waiting[x]] /\ Waiting' = [x \in Names |-> Waiting'[x]]
  /\ Taken = [x \in Names |-> Taken[x]] /\ Taken' = [x \in Names |-> Taken'[x]]
  BY Zenon DEF On, Last, Waiting, Taken

LEMMA ViewKept ==
  ASSUME NEW m \in Names, m \in mixed' <=> m \in mixed, SameView(m)
  PROVE  On'[m] = On[m] /\ Last'[m] = Last[m] /\ Waiting'[m] = Waiting[m] /\ Taken'[m] = Taken[m]
<1>1. OnFeed(m) => LastOf(m)' = LastOf(m)
  BY DEF OnFeed, LastOf, Feed, SameView
<1>2. On'[m] = On[m]
  BY ViewAt DEF SameView
<1>. QED
  BY <1>1, <1>2, ViewAt DEF SameView

\* What a step that concerns n alone makes of the view.
LEMMA ApartViews ==
  ASSUME NEW n \in Names, Apart(n)
  PROVE  /\ On' = [On EXCEPT ![n] = On'[n]] /\ Last' = [Last EXCEPT ![n] = Last'[n]]
         /\ Waiting' = [Waiting EXCEPT ![n] = Waiting'[n]] /\ Taken' = [Taken EXCEPT ![n] = Taken'[n]]
<1>1. \A m \in Names \ {n} :
         On'[m] = On[m] /\ Last'[m] = Last[m] /\ Waiting'[m] = Waiting[m] /\ Taken'[m] = Taken[m]
  BY ViewKept DEF Apart
<1>2. On' = [On EXCEPT ![n] = On'[n]]
  BY <1>1, ViewsAreFunctions
<1>3. Last' = [Last EXCEPT ![n] = Last'[n]]
  BY <1>1, ViewsAreFunctions
<1>4. Waiting' = [Waiting EXCEPT ![n] = Waiting'[n]]
  BY <1>1, ViewsAreFunctions
<1>5. Taken' = [Taken EXCEPT ![n] = Taken'[n]]
  BY <1>1, ViewsAreFunctions
<1>. QED
  BY <1>2, <1>3, <1>4, <1>5

LEMMA StutterMaps ==
  ASSUME Apart(NoOne) PROVE UNCHANGED Promise!vars
<1>1. \A m \in Names :
          On'[m] = On[m] /\ Last'[m] = Last[m] /\ Waiting'[m] = Waiting[m] /\ Taken'[m] = Taken[m]
  BY ViewKept, ThreadAssumption DEF Apart
<1>2. On' = On /\ Last' = Last /\ Waiting' = Waiting /\ Taken' = Taken
  BY <1>1, ViewsAreFunctions, Zenon
<1>3. mixed' = mixed /\ pushed' = pushed
  BY ThreadAssumption DEF Apart
<1>. QED
  BY <1>2, <1>3 DEF On, Last, Waiting, Taken, Promise!vars

\* From the step that mixes a name on, none of what becomes of it is seen.
LEMMA SpoilMaps ==
  ASSUME NEW n \in Names, Apart(n), n \in mixed'
  PROVE  Promise!Next \/ UNCHANGED Promise!vars
<1>1. CASE n \in mixed
  <2>1. SameView(n)
    BY <1>1 DEF SameView, OnFeed
  <2>. QED
    BY <1>1, <2>1, StutterMaps DEF Apart
<1>2. CASE n \notin mixed
  <2>1. /\ On' = [On EXCEPT ![n] = FALSE] /\ Last' = [Last EXCEPT ![n] = 0]
        /\ Waiting' = [Waiting EXCEPT ![n] = <<>>] /\ Taken' = [Taken EXCEPT ![n] = <<>>]
    <3>1. On'[n] = FALSE /\ Last'[n] = 0 /\ Waiting'[n] = <<>> /\ Taken'[n] = <<>>
      BY ViewAt DEF OnFeed
    <3>. QED
      BY <3>1, ApartViews
  <2>2. mixed' = mixed \cup {n} /\ pushed' = pushed
    BY DEF Apart
  <2>3. Promise!Spoil(n)
    BY <1>2, <2>1, <2>2 DEF On, Last, Waiting, Taken, Promise!Spoil
  <2>. QED
    BY <2>3 DEF Promise!Next
<1>. QED
  BY <1>1, <1>2

\* A step that ends the subscription of n, or leaves it and its feed alone.
LEMMA EndMaps ==
  ASSUME NEW n \in Names, Apart(n), n \notin mixed', OnFeed(n)' => OnFeed(n),
         output'[n] = output[n], handed'[n] = handed[n], joined'[n] = joined[n]
  PROVE  Promise!Next \/ UNCHANGED Promise!vars
<1>1. CASE OnFeed(n)' <=> OnFeed(n)
  <2>1. Apart(NoOne)
    BY <1>1 DEF Apart, SameView
  <2>. QED
    BY <2>1, StutterMaps
<1>2. CASE OnFeed(n) /\ ~OnFeed(n)'
  <2>1. mixed' = mixed /\ n \notin mixed /\ pushed' = pushed
    BY DEF Apart
  <2>2. On[n] /\ On' = [On EXCEPT ![n] = FALSE] /\ Last' = [Last EXCEPT ![n] = 0]
    <3>1. On[n] /\ On'[n] = FALSE /\ Last'[n] = 0
      BY <1>2, ViewAt
    <3>. QED
      BY <3>1, ApartViews
  <2>3. Waiting' = Waiting /\ Taken' = Taken
    <3>1. Waiting'[n] = Waiting[n] /\ Taken'[n] = Taken[n]
      BY <2>1, ViewAt
    <3>2. Waiting' = [Waiting EXCEPT ![n] = Waiting[n]] /\ Taken' = [Taken EXCEPT ![n] = Taken[n]]
      BY <3>1, ApartViews
    <3>. QED
      BY <3>2, ViewsAreFunctions
  <2>4. Promise!Unsubscribe(n)
    BY <2>1, <2>2, <2>3 DEF On, Last, Waiting, Taken, Promise!Unsubscribe
  <2>. QED
    BY <2>4 DEF Promise!Next
<1>. QED
  BY <1>1, <1>2

-----------------------------------------------------------------------------
(* Which name a step concerns.                                             *)

LEMMA NotMixedAnew ==
  ASSUME TypeOK, MixInv, [Next]_vars, NEW m \in Names,
         thread_info'[m] \in {thread_info[m], NoOne}, Draining(m)' => Draining(m),
         \A c \in Consumers : NameOf[c] = m /\ AtWork(c)' => AtWork(c) /\ at'[c] = at[c]
  PROVE  m \in mixed' <=> m \in mixed
<1>1. Contended(m)' => Contended(m)
  <2>. SUFFICES ASSUME NEW c \in Consumers, NameOf[c] = m, AtWork(c)',
                       thread_info'[m] \notin {NoOne, at'[c]} \/ Draining(m)'
                PROVE  Contended(m)
    BY DEF Contended
  <2>1. AtWork(c) /\ at'[c] = at[c]
    OBVIOUS
  <2>. QED
    BY <2>1 DEF Contended
<1>2. Contended(m) => m \in mixed
  BY DEF MixInv
<1>3. mixed' = mixed \/ mixed' = mixed \cup {n \in Names : Contended(n)'}
  BY DEF Next, Mix, vars
<1>. QED
  BY <1>1, <1>2, <1>3

LEMMA MixedStill ==
  ASSUME TypeOK, MixInv, [Next]_vars, UNCHANGED <<thread_info, at>>,
         \A c \in Consumers : Woken(c), \A m \in Names : Draining(m)' => Draining(m)
  PROVE  mixed' = mixed
<1>1. \A c \in Consumers : AtWork(c)' => AtWork(c) /\ at'[c] = at[c]
  BY DEF Woken, AtWork
<1>2. \A m \in Names : m \in mixed' <=> m \in mixed
  BY <1>1, NotMixedAnew
<1>. QED
  BY <1>2, TypeStep DEF TypeOK

\* Steps that concern no name.
LEMMA QuietApart ==
  ASSUME TypeOK, MixInv, [Next]_vars, UNCHANGED <<output, handed, thread_info, queues, joined, at>>,
         \A c \in Consumers : Woken(c), \A m \in Names : Draining(m)' <=> Draining(m)
  PROVE  mixed' = mixed /\ \A m \in Names : SameView(m)
<1>1. mixed' = mixed
  BY MixedStill
<1>. QED
  BY <1>1 DEF SameView, OnFeed

LEMMA ConsumerApart ==
  ASSUME TypeOK, MixInv, [Next]_vars, NEW c \in Consumers, Insert(c) \/ Pop(c) \/ Quit(c)
  PROVE  Apart(NameOf[c])
<1>0. NameOf[c] \in Names /\ UNCHANGED <<pushed, rmStage, rmName>>
  BY ThreadAssumption DEF Insert, Pop, Quit, inputVars, rmVars
<1>1. ASSUME NEW m \in Names \ {NameOf[c]}
      PROVE  /\ thread_info'[m] = thread_info[m] /\ joined'[m] = joined[m]
             /\ (m \in queues' <=> m \in queues)
  BY <1>0 DEF Insert, InsertRefused, InsertLock, InsertCommit, WithQueue, mapVars, Pop, PopSteps, PopCheck,
         PopFind, PopLock, PopTest, PopSleep, PopAwake, PopFront, PopDrop, PopErase, PopFault, Quit, Leave, TypeOK
<1>2. ASSUME NEW m \in Names \ {NameOf[c]} PROVE output'[m] = output[m] /\ handed'[m] = handed[m]
  <2>1. CASE PopDrop(c)
    BY <1>0, <2>1, PoppedType DEF PopDrop, TypeOK
  <2>2. CASE ~PopDrop(c)
    BY <2>2 DEF Insert, InsertRefused, InsertLock, InsertCommit, mapVars, Pop, PopSteps, PopCheck,
         PopFind, PopLock, PopTest, PopSleep, PopAwake, PopFront, PopErase, PopFault, Quit, Leave
  <2>. QED
    BY <2>1, <2>2
<1>3. ASSUME NEW m \in Names \ {NameOf[c]} PROVE m \in mixed' <=> m \in mixed
  <2>1. \A e \in Consumers : NameOf[e] = m => cpc'[e] = cpc[e] /\ at'[e] = at[e]
    BY ConsumersKeepOthers
  <2>2. Draining(m)' <=> Draining(m)
    BY <1>0 DEF Draining
  <2>. QED
    BY <1>1, <2>1, <2>2, NotMixedAnew DEF AtWork
<1>4. ASSUME NEW m \in Names \ {NameOf[c]} PROVE SameView(m)
  BY <1>0, <1>1, <1>2, <1>3 DEF SameView, OnFeed, Draining
<1>. QED
  BY <1>0, <1>3, <1>4, MixStep, TypeStep DEF Apart, TypeOK

LEMMA RemoveApart ==
  ASSUME TypeOK, MixInv, [Next]_vars, Remove PROVE Apart(rmName)
<1>0. rmName \in Names \cup {NoOne} /\ UNCHANGED <<pushed, joined, handed, cpc, at>>
  BY DEF Remove, inputVars, consVars, TypeOK
<1>1. ASSUME NEW m \in Names \ {rmName}
      PROVE  /\ thread_info'[m] = thread_info[m] /\ (m \in queues' <=> m \in queues)
             /\ output'[m] = output[m] /\ ~Draining(m) /\ ~Draining(m)'
  <2>1. CASE RemoveDrop
    BY <1>0, <2>1, PoppedType, ThreadAssumption DEF RemoveDrop, Draining
  <2>2. CASE ~RemoveDrop
    BY <2>2, ThreadAssumption DEF Remove, RemoveSteps, RemoveTouch, RemoveFront, RemoveQueue, RemoveStop,
         RemoveErase, Draining, TypeOK
  <2>. QED
    BY <2>1, <2>2
<1>2. ASSUME NEW m \in Names \ {rmName} PROVE m \in mixed' <=> m \in mixed
  BY <1>0, <1>1, NotMixedAnew DEF AtWork
<1>3. ASSUME NEW m \in Names \ {rmName} PROVE SameView(m)
  BY <1>0, <1>1, <1>2 DEF SameView, OnFeed
<1>. QED
  BY <1>0, <1>2, <1>3, MixStep, TypeStep DEF Apart, TypeOK

-----------------------------------------------------------------------------
(* What each step is a step of the feed.                                   *)

\* distribute_buffer() on one subscriber: the frame in hand is the next that is due.
LEMMA DeliverMaps ==
  ASSUME FeedInv, [Next]_vars, NEW d \in Distributors, Distribute(d), NEW n \in Names, DDeliver(d, n),
         n \in queues, n \notin mixed, mixed' = mixed
  PROVE  Promise!Deliver(n)
<1>. DEFINE f == freed + 1
            l == Len(Feed(n))
<1>0. /\ TypeOK /\ Conservation /\ freed \in Nat /\ f \in Nat /\ joined[n] \in Nat /\ joined[n] <= freed
      /\ Feed(n) \in Seq(Nat) /\ l \in Nat
  <2>1. TypeOK /\ Conservation /\ joined[n] <= freed
    BY DEF FeedInv, OrderInv, WorkInv, Opening
  <2>2. freed \in Nat /\ joined[n] \in Nat
    BY <2>1 DEF TypeOK
  <2>3. Feed(n) \in Seq(Nat)
    BY <2>1, FeedType
  <2>. QED
    BY <2>1, <2>2, <2>3
<1>1. /\ UNCHANGED <<pushed, handed, thread_info, queues, joined, rmStage, rmName>>
      /\ dpc[d] = "visit" /\ n \in todo[d]
      /\ thread_info[n] # NoOne /\ inputOwner = d /\ held[d] = f
      /\ \A e \in Distributors \ {d} : dpc[e] # "visit"
  BY <1>0 DEF Distribute, DDeliver, inputVars, rmVars, Conservation
<1>2. f <= pushed
  BY <1>0, <1>1, ThreadAssumption DEF Conservation, TypeOK
<1>3. Due(n, f)
  BY <1>1 DEF FeedInv, SkipInv, CountInv, Walk
<1>4. \A i \in 1 .. l : Feed(n)[i] \in Nat /\ Feed(n)[i] <= freed
  <2>1. \A i \in 1 .. l : Feed(n)[i] \in Nat
    BY <1>0, ElementOfSeq
  <2>2. \A i \in 1 .. l : Feed(n)[i] <= f /\ Feed(n)[i] # f
    BY <1>1 DEF FeedInv, OrderInv, FeedBound
  <2>. QED
    BY <1>0, <2>1, <2>2
<1>5. OnFeed(n) /\ LastOf(n) \in Nat /\ LastOf(n) <= freed /\ LastOf(n) >= joined[n]
  <2>1. Feed(n) # <<>> => l \in 1 .. l
    BY <1>0
  <2>2. ~Draining(n)
    BY <1>1, ThreadAssumption DEF FeedInv, SkipInv, MapInv, Holders, Draining
  <2>3. OnFeed(n)
    BY <1>1, <2>2 DEF OnFeed
  <2>. QED
    BY <1>0, <1>1, <1>4, <2>1, <2>3 DEF LastOf
<1>6. ASSUME NEW g \in (LastOf(n) + 1) .. (f - 1), Due(n, g) PROVE FALSE
  <2>1. g \in (joined[n] + 1) .. freed /\ g > LastOf(n)
    BY <1>0, <1>5
  <2>2. g \in Elements(Feed(n))
    BY <1>0, <1>5, <1>6, <2>1, SkippedNothing DEF FeedInv, SkipInv
  <2>3. PICK i \in 1 .. l : Feed(n)[i] = g
    BY <2>2 DEF Elements
  <2>4. l \in 1 .. l /\ Feed(n) # <<>> /\ (i = l \/ i < l)
    BY <1>0, <2>3
  <2>5. g <= Feed(n)[l]
    BY <1>4, <2>1, <2>3, <2>4 DEF FeedInv, OrderInv, InOrder
  <2>6. Feed(n)[l] <= LastOf(n)
    BY <1>0, <1>4, <2>4 DEF LastOf
  <2>. QED
    BY <1>4, <1>5, <2>1, <2>4, <2>5, <2>6
<1>7. /\ Feed(n)' = Append(Feed(n), f) /\ output'[n] = Append(output[n], f)
      /\ \A m \in Names \ {n} : output'[m] = output[m]
  <2>1. output' = [output EXCEPT ![n] = Append(output[n], f)]
    BY <1>1 DEF DDeliver, WithFrame
  <2>2. output'[n] = Append(output[n], f) /\ \A m \in Names \ {n} : output'[m] = output[m]
    BY <1>0, <2>1 DEF TypeOK
  <2>3. Feed(n)' = Append(Feed(n), f)
    BY <1>0, <1>1, DeliveryGrowsFeed
  <2>. QED
    BY <2>2, <2>3
<1>8. LastOf(n)' = f
  <2>1. Len(Feed(n)') = l + 1 /\ Feed(n)'[l + 1] = f /\ Feed(n)' # <<>>
    BY <1>0, <1>7
  <2>. QED
    BY <1>0, <1>1, <2>1 DEF LastOf
<1>. HIDE DEF f, l
<1>9. Apart(n) /\ (OnFeed(n)' <=> OnFeed(n))
  BY <1>0, <1>1, <1>7 DEF Apart, SameView, OnFeed, Draining, TypeOK
<1>10. /\ On[n] = TRUE /\ On'[n] = TRUE /\ Last[n] = LastOf(n) /\ Last'[n] = f
       /\ Waiting[n] = output[n] /\ Waiting'[n] = Append(output[n], f) /\ Taken'[n] = Taken[n]
  BY <1>1, <1>5, <1>7, <1>8, <1>9, ViewAt
<1>11. /\ On' = On /\ Last' = [Last EXCEPT ![n] = f]
       /\ Waiting' = [Waiting EXCEPT ![n] = Append(Waiting[n], f)] /\ Taken' = Taken
  <2>1. /\ On' = [On EXCEPT ![n] = On[n]] /\ Last' = [Last EXCEPT ![n] = f]
        /\ Waiting' = [Waiting EXCEPT ![n] = Append(Waiting[n], f)]
        /\ Taken' = [Taken EXCEPT ![n] = Taken[n]]
    BY <1>9, <1>10, ApartViews
  <2>. QED
    BY <2>1, ViewsAreFunctions
<1>12. f \in (Last[n] + 1) .. pushed /\ \A g \in (Last[n] + 1) .. (f - 1) : ~Due(n, g)
  BY <1>0, <1>2, <1>5, <1>6, <1>10 DEF TypeOK, f
<1>. QED
  BY <1>1, <1>3, <1>10, <1>11, <1>12 DEF On, Last, Waiting, Taken, Promise!Deliver

\* The two emplace() calls of insert_event().
LEMMA CommitMaps ==
  ASSUME FeedInv, [Next]_vars, NEW c \in Consumers, Insert(c), InsertCommit(c), NameOf[c] \notin mixed'
  PROVE  Promise!Subscribe(NameOf[c])
<1>. DEFINE n == NameOf[c]
<1>0. /\ TypeOK /\ MixInv /\ freed \in Nat /\ pushed \in Nat /\ freed <= pushed /\ n \in Names /\ c # NoOne
      /\ Feed(n) \in Seq(Nat) /\ Len(Feed(n)) \in Nat /\ Apart(n) /\ n \notin mixed
  <2>1. TypeOK /\ MixInv /\ Conservation /\ n \in Names /\ c # NoOne
    BY ThreadAssumption DEF FeedInv, OrderInv, WorkInv
  <2>2. freed \in Nat /\ pushed \in Nat /\ Len(input) \in Nat
    BY <2>1 DEF TypeOK
  <2>3. freed <= pushed
    BY <2>1, <2>2 DEF Conservation
  <2>5. Apart(n) /\ n \notin mixed
    BY <2>1, ConsumerApart DEF Apart
  <2>. HIDE DEF n
  <2>4. Feed(n) \in Seq(Nat)
    BY <2>1, FeedType
  <2>. QED
    BY <2>1, <2>2, <2>3, <2>4, <2>5
<1>1. /\ UNCHANGED <<pushed, output, handed, rmStage, rmName>> /\ thread_info[n] = NoOne
      /\ thread_info' = [thread_info EXCEPT ![n] = c] /\ queues' = queues \cup {n}
      /\ joined' = [joined EXCEPT ![n] = freed] /\ infoOwner = c
  BY DEF Insert, InsertCommit, WithQueue, inputVars, rmVars, FeedInv, Opening, SkipInv, MapInv, Holders
<1>2. Feed(n)' = Feed(n)
  BY <1>1 DEF Feed
<1>3. \A i \in 1 .. Len(Feed(n)) : Feed(n)[i] \in Nat /\ Feed(n)[i] <= freed
  <2>1. \A d \in Distributors : dpc[d] # "visit"
    BY <1>1, ThreadAssumption DEF FeedInv, SkipInv, MapInv, Holders
  <2>2. \A i \in 1 .. Len(Feed(n)) : Feed(n)[i] <= freed + 1 /\ Feed(n)[i] # freed + 1
    BY <1>0, <2>1 DEF FeedInv, OrderInv, FeedBound
  <2>3. \A i \in 1 .. Len(Feed(n)) : Feed(n)[i] \in Nat
    BY <1>0, ElementOfSeq
  <2>. QED
    BY <1>0, <2>2, <2>3
<1>4. OnFeed(n)' /\ ~OnFeed(n) /\ LastOf(n)' = freed
  <2>1. Feed(n) # <<>> => Len(Feed(n)) \in 1 .. Len(Feed(n))
    BY <1>0
  <2>2. joined'[n] = freed /\ thread_info'[n] = c
    BY <1>0, <1>1 DEF TypeOK
  <2>3. ~(Feed(n) # <<>> /\ Feed(n)[Len(Feed(n))] > freed)
    BY <1>0, <1>3, <2>1
  <2>4. ~Draining(n)'
    BY <1>1, ThreadAssumption DEF FeedInv, SkipInv, MapInv, Holders, Draining
  <2>. QED
    BY <1>0, <1>1, <1>2, <2>2, <2>3, <2>4 DEF OnFeed, LastOf
<1>5. /\ On[n] = FALSE /\ On'[n] = TRUE /\ Last'[n] = freed
      /\ Waiting[n] = output[n] /\ Taken[n] = handed[n]
      /\ Waiting'[n] = Waiting[n] /\ Taken'[n] = Taken[n]
  BY <1>0, <1>1, <1>4, ViewAt
<1>6. On' = [On EXCEPT ![n] = TRUE] /\ Last' = [Last EXCEPT ![n] = freed] /\ Waiting' = Waiting /\ Taken' = Taken
  <2>1. /\ On' = [On EXCEPT ![n] = TRUE] /\ Last' = [Last EXCEPT ![n] = freed]
        /\ Waiting' = [Waiting EXCEPT ![n] = Waiting[n]] /\ Taken' = [Taken EXCEPT ![n] = Taken[n]]
    BY <1>0, <1>5, ApartViews
  <2>. QED
    BY <2>1, ViewsAreFunctions
<1>7. \A g \in Elements(Taken[n]) \cup Elements(Waiting[n]) : g <= freed
  <2>1. Elements(Feed(n)) = Elements(handed[n]) \cup Elements(output[n])
    BY <1>0, FeedElements
  <2>2. Elements(Taken[n]) \cup Elements(Waiting[n]) = Elements(Feed(n))
    BY <1>5, <2>1
  <2>3. \A g \in Elements(Feed(n)) : g <= freed
    BY <1>3 DEF Elements
  <2>. QED
    BY <2>2, <2>3
<1>8. freed \in 0 .. pushed /\ mixed' = mixed
  BY <1>0 DEF TypeOK, Apart
<1>. HIDE DEF n
<1>9. Promise!Subscribe(n)
  BY <1>0, <1>1, <1>5, <1>6, <1>7, <1>8
     DEF On, Last, Waiting, Taken, Elements, Promise!Subscribe, Promise!FramesOf
<1>. QED
  BY <1>9 DEF n

\* pop() takes the oldest frame: the one that front() gave is still the first.
LEMMA TakeMaps ==
  ASSUME FeedInv, [Next]_vars, NEW c \in Consumers, Pop(c), PopDrop(c), NameOf[c] \notin mixed'
  PROVE  Promise!Take(NameOf[c])
<1>. DEFINE n == NameOf[c]
<1>0. WorkInv /\ TypeOK /\ n \in Names /\ Apart(n) /\ n \notin mixed
  BY ConsumerApart, ThreadAssumption DEF FeedInv, OrderInv, WorkInv, Apart
<1>1. output[n] # <<>> /\ got[c] = Head(output[n])
  BY <1>0 DEF PopDrop, WorkInv, SeenInv, Seen
<1>2. /\ UNCHANGED <<thread_info, queues, joined, rmStage, rmName>>
      /\ handed'[n] = Append(handed[n], Head(output[n])) /\ output'[n] = Tail(output[n])
  BY <1>0, <1>1, PoppedType DEF Pop, PopDrop, rmVars, TypeOK
<1>3. (OnFeed(n)' <=> OnFeed(n)) /\ LastOf(n)' = LastOf(n)
  <2>1. Feed(n)' = Feed(n)
    BY <1>0, ConsumersKeepFeed
  <2>. QED
    BY <1>0, <1>2, <2>1 DEF OnFeed, Draining, LastOf
<1>4. /\ On'[n] = On[n] /\ Last'[n] = Last[n] /\ Waiting[n] = output[n] /\ Waiting'[n] = Tail(output[n])
      /\ Taken'[n] = Append(Taken[n], Head(output[n]))
  BY <1>0, <1>2, <1>3, ViewAt
<1>5. /\ On' = On /\ Last' = Last /\ Waiting' = [Waiting EXCEPT ![n] = Tail(Waiting[n])]
      /\ Taken' = [Taken EXCEPT ![n] = Append(Taken[n], Head(Waiting[n]))]
  <2>1. /\ On' = [On EXCEPT ![n] = On[n]] /\ Last' = [Last EXCEPT ![n] = Last[n]]
        /\ Waiting' = [Waiting EXCEPT ![n] = Tail(Waiting[n])]
        /\ Taken' = [Taken EXCEPT ![n] = Append(Taken[n], Head(Waiting[n]))]
    BY <1>0, <1>4, ApartViews
  <2>. QED
    BY <2>1, ViewsAreFunctions
<1>6. Waiting[n] # <<>> /\ pushed' = pushed /\ mixed' = mixed
  BY <1>0, <1>1, <1>4 DEF Apart
<1>. HIDE DEF n
<1>7. Promise!Take(n)
  BY <1>5, <1>6 DEF On, Last, Waiting, Taken, Promise!Take
<1>. QED
  BY <1>7 DEF n

\* remove_event() drops the oldest frame of a name it has taken from its consumers.
LEMMA DropMaps ==
  ASSUME FeedInv, [Next]_vars, Remove, RemoveDrop, rmName \in Names, rmName \notin mixed'
  PROVE  Promise!Next \/ UNCHANGED Promise!vars
<1>. SUFFICES ASSUME NEW n \in Names, rmName = n
              PROVE  Promise!Next \/ UNCHANGED Promise!vars
  OBVIOUS
<1>0. TypeOK /\ Apart(n) /\ n \notin mixed /\ n \notin mixed' /\ output[n] \in Seq(Nat)
  BY RemoveApart DEF FeedInv, OrderInv, WorkInv, Apart, TypeOK
<1>1. /\ handed' = handed /\ joined' = joined /\ rmName' = n
      /\ output'[n] = IF output[n] = <<>> THEN <<>> ELSE Tail(output[n])
  BY <1>0, PoppedType DEF Remove, RemoveDrop, consVars
<1>2. ~OnFeed(n) /\ ~(OnFeed(n)')
  BY <1>1 DEF RemoveDrop, OnFeed, Draining
<1>3. CASE output[n] = <<>>
  BY <1>0, <1>1, <1>2, <1>3, EndMaps
<1>4. CASE output[n] # <<>>
  <2>1. /\ On[n] = FALSE /\ On'[n] = On[n] /\ Last'[n] = Last[n] /\ Taken'[n] = Taken[n]
        /\ Waiting[n] = output[n] /\ Waiting'[n] = Tail(output[n])
    BY <1>0, <1>1, <1>2, <1>4, ViewAt
  <2>2. /\ On' = On /\ Last' = Last /\ Taken' = Taken
        /\ Waiting' = [Waiting EXCEPT ![n] = Tail(Waiting[n])]
    <3>1. /\ On' = [On EXCEPT ![n] = On[n]] /\ Last' = [Last EXCEPT ![n] = Last[n]]
          /\ Taken' = [Taken EXCEPT ![n] = Taken[n]]
          /\ Waiting' = [Waiting EXCEPT ![n] = Tail(Waiting[n])]
      BY <1>0, <2>1, ApartViews
    <3>. QED
      BY <3>1, ViewsAreFunctions
  <2>3. Waiting[n] # <<>> /\ pushed' = pushed /\ mixed' = mixed
    BY <1>0, <1>4, <2>1 DEF Apart
  <2>4. Promise!Drop(n)
    BY <2>1, <2>2, <2>3 DEF On, Last, Waiting, Taken, Promise!Drop
  <2>. QED
    BY <2>4 DEF Promise!Next
<1>. QED
  BY <1>3, <1>4

LEMMA ConsumeMaps ==
  ASSUME FeedInv, [Next]_vars, NEW c \in Consumers, Insert(c) \/ Pop(c) \/ Quit(c)
  PROVE  Promise!Next \/ UNCHANGED Promise!vars
<1>. DEFINE n == NameOf[c]
<1>0. n \in Names /\ WorkInv /\ TypeOK /\ MixInv /\ MapInv /\ Apart(n)
  BY ThreadAssumption, ConsumerApart DEF FeedInv, OrderInv, WorkInv, SkipInv
<1>1. CASE n \in mixed'
  BY <1>0, <1>1, SpoilMaps
<1>2. CASE n \notin mixed' /\ Insert(c) /\ InsertCommit(c)
  <2>1. Promise!Subscribe(n)
    BY <1>2, CommitMaps
  <2>. QED
    BY <1>0, <2>1 DEF Promise!Next
<1>3. CASE n \notin mixed' /\ Pop(c) /\ PopDrop(c)
  <2>1. Promise!Take(n)
    BY <1>3, TakeMaps
  <2>. QED
    BY <1>0, <2>1 DEF Promise!Next
<1>4. CASE n \notin mixed' /\ ~(Insert(c) /\ InsertCommit(c)) /\ ~(Pop(c) /\ PopDrop(c))
  <2>1. UNCHANGED <<output, handed, joined, queues, rmStage, rmName>>
    BY <1>4 DEF Insert, InsertRefused, InsertLock, mapVars, rmVars, Pop, PopSteps, PopCheck, PopFind, PopLock,
         PopTest, PopSleep, PopAwake, PopFront, PopErase, PopFault, Quit, Leave
  <2>2. thread_info'[n] = thread_info[n] \/ thread_info'[n] = NoOne
    BY <1>0, <1>4 DEF Insert, InsertRefused, InsertLock, mapVars, Pop, PopSteps, PopCheck, PopFind, PopLock,
         PopTest, PopSleep, PopAwake, PopFront, PopErase, PopFault, Quit, Leave, TypeOK
  <2>3. OnFeed(n)' => OnFeed(n)
    <3>1. n \notin mixed
      BY <1>0, <1>4, MixStep
    <3>. QED
      BY <2>1, <2>2, <3>1 DEF OnFeed, Draining
  <2>. HIDE DEF n
  <2>. QED
    BY <1>0, <1>4, <2>1, <2>3, EndMaps
<1>. QED
  BY <1>1, <1>2, <1>3, <1>4

LEMMA NobodyMaps ==
  ASSUME FeedInv, [Next]_vars,
         UNCHANGED <<pushed, output, handed, thread_info, queues, joined, at>>,
         \A c \in Consumers : Woken(c), \A m \in Names : Draining(m)' <=> Draining(m)
  PROVE  UNCHANGED Promise!vars
<1>1. mixed' = mixed /\ mixed \subseteq Names /\ \A m \in Names : SameView(m)
  BY QuietApart DEF FeedInv, OrderInv, WorkInv, TypeOK
<1>2. Apart(NoOne)
  BY <1>1 DEF Apart
<1>. QED
  BY <1>2, StutterMaps

LEMMA DistributeMaps ==
  ASSUME FeedInv, [Next]_vars, NEW d \in Distributors, Distribute(d)
  PROVE  Promise!Next \/ UNCHANGED Promise!vars
<1>0. TypeOK /\ MixInv /\ mixed \subseteq Names /\ \A c \in Consumers : Woken(c)
  BY OthersKeepConsumers DEF FeedInv, OrderInv, WorkInv, TypeOK
<1>1. UNCHANGED <<pushed, thread_info, queues, joined, at, handed, rmStage, rmName>>
  BY DEF Distribute, DPark, DTake, DLockInfo, DFinish, DExit, DDeliver, mapVars, inputVars, rmVars
<1>2. \A m \in Names : Draining(m)' <=> Draining(m)
  BY <1>1 DEF Draining
<1>3. mixed' = mixed
  BY <1>0, <1>1, <1>2, MixedStill
<1>4. ASSUME NEW n \in Names, DDeliver(d, n), n \in queues, n \notin mixed
      PROVE  Promise!Next
  BY <1>3, <1>4, DeliverMaps DEF Promise!Next
<1>5. ASSUME NEW n \in Names, DDeliver(d, n), n \in mixed
      PROVE  Promise!Next \/ UNCHANGED Promise!vars
  <2>1. \A m \in Names \ {n} : output'[m] = output[m]
    BY <1>0, <1>5 DEF DDeliver, TypeOK
  <2>2. Apart(n)
    BY <1>0, <1>1, <1>2, <1>3, <2>1 DEF Apart, SameView, OnFeed
  <2>. QED
    BY <1>3, <1>5, <2>2, SpoilMaps
<1>6. CASE ~ \E n \in Names : DDeliver(d, n) /\ (n \in queues \/ n \in mixed)
  <2>1. output' = output
    BY <1>6 DEF Distribute, DPark, DTake, DLockInfo, DFinish, DExit, DDeliver, mapVars
  <2>. QED
    BY <1>0, <1>1, <1>2, <2>1, NobodyMaps
<1>. QED
  BY <1>4, <1>5, <1>6

LEMMA RemoveMaps ==
  ASSUME FeedInv, [Next]_vars, Remove PROVE Promise!Next \/ UNCHANGED Promise!vars
<1>. SUFFICES ASSUME NEW n \in Names \cup {NoOne}, rmName = n
              PROVE  Promise!Next \/ UNCHANGED Promise!vars
  BY DEF FeedInv, OrderInv, WorkInv, TypeOK
<1>0. TypeOK /\ MixInv /\ MapInv /\ UNCHANGED <<handed, joined>>
  BY DEF FeedInv, OrderInv, WorkInv, SkipInv, Remove, consVars
<1>1. Apart(n)
  BY <1>0, RemoveApart DEF Apart
<1>2. CASE n = NoOne
  BY <1>1, <1>2, StutterMaps
<1>3. CASE n \in Names /\ n \in mixed'
  BY <1>1, <1>3, SpoilMaps
<1>4. CASE n \in Names /\ n \notin mixed' /\ RemoveDrop
  BY <1>4, DropMaps
<1>5. CASE n \in Names /\ n \notin mixed' /\ ~RemoveDrop
  <2>1. output' = output
    BY <1>5 DEF Remove, RemoveSteps, RemoveTouch, RemoveFront, RemoveQueue, RemoveStop, RemoveErase
  <2>2. rmStage' # rmStage
    BY DEF Remove, RemoveSteps, RemoveTouch, RemoveFront, RemoveDrop, RemoveQueue, RemoveStop, RemoveErase
  <2>3. \A c \in Consumers : Insert(c) => ~InsertCommit(c)
    BY <2>2 DEF Insert, rmVars
  <2>4. OnFeed(n)' => OnFeed(n)
    BY <1>0, <1>5, <2>3, OnShrinks
  <2>. QED
    BY <1>0, <1>1, <1>5, <2>1, <2>4, EndMaps
<1>. QED
  BY <1>2, <1>3, <1>4, <1>5

LEMMA BeginMaps ==
  ASSUME FeedInv, [Next]_vars, NEW n \in Names, RemoveBegin(n) PROVE UNCHANGED Promise!vars
<1>1. TypeOK /\ rmStage = "idle" /\ rmStage' = "touch"
  BY ThreadAssumption DEF FeedInv, OrderInv, WorkInv, SkipInv, MapInv, Holders, TypeOK, RemoveBegin, RemoveLock
<1>2. UNCHANGED <<pushed, output, handed, thread_info, queues, joined, at>>
  BY DEF RemoveBegin, RemoveLock, inputVars, consVars
<1>3. \A m \in Names : Draining(m)' <=> Draining(m)
  BY <1>1 DEF Draining
<1>4. \A c \in Consumers : Woken(c)
  BY <1>1, OthersKeepConsumers
<1>. QED
  BY <1>2, <1>3, <1>4, NobodyMaps

LEMMA PushMaps ==
  ASSUME FeedInv, [Next]_vars, Push PROVE Promise!Push
<1>0. /\ TypeOK /\ MixInv /\ pushed < MaxFrames /\ pushed' = pushed + 1
      /\ UNCHANGED <<output, handed, thread_info, queues, joined, at, rmStage, rmName>>
  BY DEF FeedInv, OrderInv, WorkInv, Push, mapVars, consVars, rmVars
<1>1. \A c \in Consumers : Woken(c)
  BY <1>0, OthersKeepConsumers
<1>2. mixed' = mixed /\ \A m \in Names : SameView(m)
  BY <1>0, <1>1, QuietApart DEF Draining
<1>3. \A m \in Names :
          On'[m] = On[m] /\ Last'[m] = Last[m] /\ Waiting'[m] = Waiting[m] /\ Taken'[m] = Taken[m]
  BY <1>2, ViewKept
<1>4. On' = On /\ Last' = Last /\ Waiting' = Waiting /\ Taken' = Taken
  BY <1>3, ViewsAreFunctions, Zenon
<1>. QED
  BY <1>0, <1>2, <1>4 DEF On, Last, Waiting, Taken, Promise!Push

LEMMA StepMaps == FeedInv /\ [Next]_vars => [Promise!Next]_(Promise!vars)
<1>. SUFFICES ASSUME FeedInv, [Next]_vars PROVE Promise!Next \/ UNCHANGED Promise!vars
  OBVIOUS
<1>0. TypeOK
  BY DEF FeedInv, OrderInv, WorkInv
<1>1. CASE Destroy \/ Fault \/ SpuriousWake \/ UNCHANGED vars
  <2>1. UNCHANGED <<pushed, output, handed, thread_info, queues, joined, at, rmStage, rmName>>
    BY <1>1 DEF Destroy, Fault, SpuriousWake, vars, mapVars, inputVars, consVars, rmVars
  <2>2. \A c \in Consumers : Woken(c)
    BY <1>0, <1>1, OthersKeepConsumers
  <2>. QED
    BY <2>1, <2>2, NobodyMaps DEF Draining
<1>2. CASE Push
  BY <1>2, PushMaps DEF Promise!Next
<1>. QED
  BY <1>1, <1>2, DistributeMaps, ConsumeMaps, RemoveMaps, BeginMaps DEF Next

LEMMA InitMaps == Init => Promise!Init
<1>. SUFFICES ASSUME Init PROVE Promise!Init
  OBVIOUS
<1>1. \A n \in Names : OnFeed(n) \in BOOLEAN /\ LastOf(n) = 0
  BY DEF Init, OnFeed, LastOf, Feed
<1>. QED
  BY <1>1 DEF Init, Promise!Init

\* Whatever its threads interleave, step by step and with the races between them, the
\* queue does to each subscription only what the abstract feed may do: it starts it
\* after all it has been given, adds the next frame that is due, hands out the oldest,
\* and drops what is left when it ends.  The one exception is a name that a pop()
\* works on under a mutex no longer the subscription's, or while remove_event()
\* drains it: from that moment on the name is spoilt, and nothing is promised.
THEOREM QueueImplementsFeed == Spec => ImplementsFeed
<1>1. Init => FeedInv
  <2>1. Init => OrderInv
    <3>1. ASSUME Init, NEW n \in Names PROVE Feed(n) = <<>>
      BY <3>1 DEF Init, Feed
    <3>. QED
      BY <3>1, WorkInit, CountInit DEF CountInv, OrderInv, InOrder, FeedBound
  <2>2. Init => Opening
    BY DEF Init, Opening
  <2>. QED
    BY <2>1, <2>2, SkipInit DEF FeedInv
<1>2. FeedInv /\ [Next]_vars => FeedInv'
  BY OrderStep, SkipStep, OpeningStep DEF FeedInv
<1>. QED
  BY <1>1, <1>2, InitMaps, StepMaps, PTL DEF Spec, ImplementsFeed, Promise!Spec
=============================================================================
