-------------------------- MODULE VideoQueueProofs --------------------------
(***************************************************************************)
(* Proofs about VideoQueue, for any number of distributors, consumers,     *)
(* names and frames.                                                       *)
(***************************************************************************)
EXTENDS VideoQueue, SequenceTheorems, TLAPS

LEMMA TypeInit == Init => TypeOK
<1> SUFFICES ASSUME Init PROVE TypeOK
  OBVIOUS
<1> USE DEF Init
<1>1. thread_info \in [Names -> Consumers \cup {NoOne}]
  BY ThreadAssumption
<1>2. isRun \in [Consumers -> BOOLEAN]
  OBVIOUS
<1>3. queues \subseteq Names
  BY ThreadAssumption
<1>4. frameNo \in 0 .. DeviceFps
  BY RateAssumption
<1>5. output \in [Names -> Seq(Nat)] /\ handed \in [Names -> Seq(Nat)]
  <2>1. <<>> \in Seq(Nat)
    OBVIOUS
  <2> QED
    BY <2>1
<1>6. /\ at \in [Consumers -> Consumers \cup {NoOne}]
      /\ cv \in [Consumers -> Consumers \cup {NoOne}]
      /\ itemOwner \in [Consumers -> Consumers \cup {NoOne}]
      /\ got \in [Consumers -> Nat] /\ mixed \subseteq Names
  OBVIOUS
<1>7. /\ input \in Seq(Nat) /\ pushed \in Nat /\ freed \in Nat
      /\ inputOwner = NoOne /\ infoOwner = NoOne
  OBVIOUS
<1>10. /\ enabled \in BOOLEAN /\ crashed \in BOOLEAN
       /\ rmStage = "idle" /\ rmName = NoOne /\ rmItem = NoOne
  BY Zenon
<1>8. /\ joined \in [Names -> Nat]
      /\ dpc \in [Distributors -> {"top", "parked", "took", "visit", "done"}]
      /\ held \in [Distributors -> Nat] /\ todo \in [Distributors -> SUBSET Names]
  OBVIOUS
<1>9. cpc \in [Consumers -> {"new", "inserting", "ready", "find", "lock", "test",
                             "sleep", "parked", "check", "front", "drop", "erase", "ended"}]
  OBVIOUS
<1> HIDE DEF Init
<1> QED
  BY <1>1, <1>2, <1>3, <1>4, <1>5, <1>6, <1>7, <1>8, <1>9, <1>10 DEF TypeOK

\* The bookkeeping of mixed, which every step does.
LEMMA MixGrows == ASSUME TypeOK, Mix PROVE mixed' \subseteq Names /\ mixed \subseteq mixed'
  BY DEF Mix, TypeOK

LEMMA PoppedType ==
  ASSUME TypeOK, NEW n \in Names \cup {NoOne}
  PROVE  /\ Popped(n) \in [Names -> Seq(Nat)]
         /\ n \in Names =>
               Popped(n)[n] = IF output[n] = <<>> THEN <<>> ELSE Tail(output[n])
         /\ \A m \in Names \ {n} : Popped(n)[m] = output[m]
<1>1. CASE n \in Names
  <2>1. output[n] \in Seq(Nat) /\ (output[n] # <<>> => Tail(output[n]) \in Seq(Nat))
    BY <1>1 DEF TypeOK
  <2>. QED
    BY <1>1, <2>1 DEF Popped, TypeOK
<1>2. CASE n \notin Names
  BY <1>2 DEF Popped, TypeOK
<1>. QED
  BY <1>1, <1>2

LEMMA TypeDistribute ==
  ASSUME TypeOK, NEW d \in Distributors, Distribute(d), mixed' \subseteq Names
  PROVE  TypeOK'
<1> USE DEF TypeOK, inputVars, mapVars, itemVars, rmVars
<1>1. UNCHANGED <<itemVars, at, cv, got, handed, rmVars, crashed>>
  BY DEF Distribute
<1>2. CASE DPark(d)
  BY <1>1, <1>2 DEF DPark
<1>3. CASE DTake(d)
  <2>1. Head(input) \in Nat /\ Tail(input) \in Seq(Nat)
    BY <1>3 DEF DTake
  <2>2. NextFrameNo(frameNo) \in 0 .. DeviceFps
    BY RateAssumption DEF NextFrameNo
  <2> QED
    BY <1>1, <1>3, <2>1, <2>2 DEF DTake
<1>4. CASE DLockInfo(d)
  BY <1>1, <1>4 DEF DLockInfo
<1>5. CASE DFinish(d)
  BY <1>1, <1>5 DEF DFinish
<1>6. CASE DExit(d)
  BY <1>1, <1>6 DEF DExit
<1>7. ASSUME NEW n \in Names, DDeliver(d, n) PROVE TypeOK'
  <2>1. WithFrame(n, held[d]) \in Seq(Nat)
    BY DEF WithFrame
  <2> QED
    BY <1>1, <1>7, <2>1 DEF DDeliver, WakeWaiters
<1> QED
  BY <1>2, <1>3, <1>4, <1>5, <1>6, <1>7 DEF Distribute

LEMMA HeadType == ASSUME NEW s \in Seq(Nat), s # <<>> PROVE Head(s) \in Nat
<1>1. Len(s) \in Nat /\ Len(s) > 0 /\ Head(s) = s[1]
  OBVIOUS
<1>2. 1 \in 1 .. Len(s)
  BY <1>1
<1> QED
  BY <1>1, <1>2, ElementOfSeq

LEMMA TypeConsume ==
  ASSUME TypeOK, NEW c \in Consumers, Insert(c) \/ Pop(c) \/ Quit(c), mixed' \subseteq Names
  PROVE  TypeOK'
<1> USE ThreadAssumption DEF TypeOK, inputVars, mapVars, itemVars, distVars, rmVars
<1>1. CASE Insert(c)
  <2>1. UNCHANGED <<inputVars, itemVars, distVars, at, cv, got, handed, rmVars, crashed>>
    BY <1>1 DEF Insert
  <2>2. CASE InsertRefused(c)
    BY <2>1, <2>2 DEF InsertRefused
  <2>3. CASE InsertLock(c)
    BY <2>1, <2>3 DEF InsertLock
  <2>4. CASE InsertCommit(c)
    <3>1. c \in Consumers /\ NameOf[c] \in Names /\ freed \in Nat
      OBVIOUS
    <3>2. /\ thread_info' \in [Names -> Consumers \cup {NoOne}] /\ queues' \subseteq Names
          /\ output' = output
      BY <2>4, <3>1 DEF InsertCommit, WithQueue
    <3>3. joined' \in [Names -> Nat]
      BY <2>4, <3>1 DEF InsertCommit
    <3>4. infoOwner' = NoOne /\ cpc' = [cpc EXCEPT ![c] = "ready"]
      BY <2>4 DEF InsertCommit
    <3> QED
      BY <2>1, <3>2, <3>3, <3>4
  <2> QED
    BY <1>1, <2>2, <2>3, <2>4 DEF Insert
<1>2. CASE Quit(c)
  BY <1>2 DEF Quit, Leave
<1>3. CASE Pop(c)
  <2>1. UNCHANGED <<inputVars, queues, joined, infoOwner, isRun, distVars, rmVars>>
    BY <1>3 DEF Pop
  <2>2. CASE PopCheck(c)
    BY <2>1, <2>2 DEF PopCheck
  <2>3. CASE PopFind(c)
    BY <2>1, <2>3 DEF PopFind
  <2>4. CASE PopLock(c)
    BY <2>1, <2>4 DEF PopLock
  <2>5. CASE PopTest(c)
    BY <2>1, <2>5 DEF PopTest
  <2>10. CASE PopSleep(c)
    BY <2>1, <2>10 DEF PopSleep
  <2>11. CASE PopAwake(c)
    BY <2>1, <2>11 DEF PopAwake
  <2>6. CASE PopFront(c)
    <3>1. output[NameOf[c]] # <<>> => Head(output[NameOf[c]]) \in Nat
      <4>1. output[NameOf[c]] \in Seq(Nat)
        OBVIOUS
      <4> QED
        BY <4>1, HeadType
    <3>2. got' \in [Consumers -> Nat]
      BY <2>6, <3>1 DEF PopFront
    <3>3. /\ cpc' = [cpc EXCEPT ![c] = "drop"]
          /\ UNCHANGED <<thread_info, output, itemOwner, at, cv, handed, crashed>>
      BY <2>6 DEF PopFront
    <3> QED
      BY <2>1, <3>2, <3>3
  <2>7. CASE PopDrop(c)
    <3>1. Append(handed[NameOf[c]], got[c]) \in Seq(Nat) /\ NameOf[c] \in Names
      OBVIOUS
    <3>2. output' \in [Names -> Seq(Nat)]
      BY <2>7, <3>1, PoppedType DEF PopDrop
    <3>3. handed' \in [Names -> Seq(Nat)]
      BY <2>7, <3>1 DEF PopDrop
    <3>4. /\ UNCHANGED <<thread_info, crashed>> /\ got' = [got EXCEPT ![c] = 0]
          /\ itemOwner' = [itemOwner EXCEPT ![at[c]] = NoOne]
          /\ at' = [at EXCEPT ![c] = NoOne] /\ cv' = [cv EXCEPT ![c] = NoOne]
          /\ cpc' = [cpc EXCEPT ![c] = "ready"]
      BY <2>7 DEF PopDrop, PopReturns
    <3> QED
      BY <2>1, <3>2, <3>3, <3>4
  <2>8. CASE PopErase(c)
    BY <2>1, <2>8 DEF PopErase, PopReturns
  <2>9. CASE PopFault(c)
    BY <2>1, <2>9 DEF PopFault
  <2> QED
    BY <1>3, <2>2, <2>3, <2>4, <2>5, <2>6, <2>7, <2>8, <2>9, <2>10, <2>11 DEF Pop, PopSteps
<1> QED
  BY <1>1, <1>2, <1>3

LEMMA TypeStep == TypeOK /\ [Next]_vars => TypeOK'
<1> SUFFICES ASSUME TypeOK, [Next]_vars PROVE TypeOK'
  OBVIOUS
<1> USE DEF inputVars, mapVars, itemVars, distVars, consVars, rmVars
<1>0. mixed' \subseteq Names
  BY MixGrows DEF Next, vars, TypeOK
<1>1. CASE UNCHANGED vars
  BY <1>1 DEF vars, TypeOK
<1>2. CASE Push
  <2>1. Append(input, pushed + 1) \in Seq(Nat)
    BY DEF TypeOK
  <2>2. dpc' \in [Distributors -> {"top", "parked", "took", "visit", "done"}]
    BY <1>2 DEF Push, NotifyOne, Parked, TypeOK
  <2> QED
    BY <1>0, <1>2, <2>1, <2>2 DEF Push, TypeOK
<1>3. CASE Destroy
  BY <1>0, <1>3 DEF Destroy, NotifyAll, Parked, TypeOK
<1>4. CASE Remove
  <2>1. UNCHANGED <<inputVars, joined, itemOwner, distVars, consVars, crashed>>
    BY <1>4 DEF Remove
  <2>2. CASE RemoveTouch \/ RemoveFront \/ RemoveQueue
    BY <1>0, <2>1, <2>2 DEF RemoveTouch, RemoveFront, RemoveQueue, TypeOK
  <2>3. CASE RemoveDrop
    <3>1. output' \in [Names -> Seq(Nat)]
      BY <2>3, PoppedType DEF RemoveDrop, TypeOK
    <3> QED
      BY <1>0, <2>1, <2>3, <3>1 DEF RemoveDrop, TypeOK
  <2>4. CASE RemoveStop
    BY <1>0, <2>1, <2>4 DEF RemoveStop, TypeOK
  <2>5. CASE RemoveErase
    BY <1>0, <2>1, <2>5 DEF RemoveErase, TypeOK
  <2> QED
    BY <1>4, <2>2, <2>3, <2>4, <2>5 DEF Remove, RemoveSteps
<1>5. CASE Fault
  BY <1>0, <1>5 DEF Fault, TypeOK
<1>6. CASE SpuriousWake
  BY <1>0, <1>6 DEF SpuriousWake, Parked, TypeOK
<1>7. ASSUME NEW n \in Names, RemoveBegin(n) PROVE TypeOK'
  BY <1>0, <1>7 DEF RemoveBegin, RemoveLock, TypeOK
<1> QED
  BY <1>0, <1>1, <1>2, <1>3, <1>4, <1>5, <1>6, <1>7, TypeDistribute, TypeConsume DEF Next

\* Every variable of the queue keeps its type.
THEOREM TypeCorrect == Spec => []TypeOK
  BY TypeInit, TypeStep, PTL DEF Spec
-----------------------------------------------------------------------------

\* The distributors' side of the queue is left alone by every other thread, but
\* for wake-ups.
Upstream == <<inputVars, distVars>>

LEMMA ConsumersKeepUpstream ==
  ASSUME NEW c \in Consumers, Insert(c) \/ Pop(c) \/ Quit(c)
  PROVE  UNCHANGED Upstream
  BY DEF Insert, Pop, Quit, Upstream

LEMMA OthersKeepUpstream ==
  ASSUME Remove \/ Fault \/ (\E n \in Names : RemoveBegin(n)) \/ UNCHANGED vars
  PROVE  UNCHANGED Upstream
  BY DEF Remove, Fault, RemoveBegin, vars, Upstream

\* A wake-up moves distributors from the wait to the top of the loop, no more.
LEMMA WakeUps ==
  ASSUME TypeOK, NotifyOne \/ NotifyAll
  PROVE  \A d \in Distributors :
            dpc'[d] = dpc[d] \/ (dpc[d] = "parked" /\ dpc'[d] = "top")
  BY DEF NotifyOne, NotifyAll, Parked, TypeOK

LEMMA SpuriousWakeUps ==
  ASSUME TypeOK, SpuriousWake
  PROVE  /\ UNCHANGED <<inputVars, held, todo>>
         /\ \A d \in Distributors :
               dpc'[d] = dpc[d] \/ (dpc[d] = "parked" /\ dpc'[d] = "top")
  BY DEF SpuriousWake, Parked, TypeOK

LEMMA ConservationStep == TypeOK /\ Conservation /\ [Next]_vars => Conservation'
<1> SUFFICES ASSUME TypeOK, Conservation, [Next]_vars PROVE Conservation'
  OBVIOUS
<1> USE DEF Conservation, inputVars
<1>1. CASE Push
  <2>1. /\ Len(input') = Len(input) + 1
        /\ \A i \in 1 .. Len(input) : input'[i] = input[i]
        /\ input'[Len(input) + 1] = pushed + 1
    BY <1>1 DEF Push, TypeOK
  <2>2. \A d \in Distributors : dpc'[d] \in {"took", "visit"} => dpc'[d] = dpc[d]
    BY <1>1, WakeUps DEF Push
  <2>3. UNCHANGED <<inputOwner, freed, held>> /\ pushed' = pushed + 1 /\ inputOwner = NoOne
    BY <1>1 DEF Push, InputFree
  <2>4. ASSUME NEW i \in 1 .. Len(input') PROVE input'[i] = pushed' - Len(input') + i
    <3>1. i \in 1 .. Len(input) \/ i = Len(input) + 1
      BY <2>1 DEF TypeOK
    <3> QED
      BY <2>1, <2>3, <3>1 DEF TypeOK
  <2>5. pushed' = freed' + (IF inputOwner' = NoOne THEN 0 ELSE 1) + Len(input')
    BY <2>1, <2>3 DEF TypeOK
  <2>6. \A d \in Distributors :
          dpc'[d] \in {"took", "visit"} => inputOwner' = d /\ held'[d] = freed' + 1
    BY <2>2, <2>3
  <2> QED
    BY <2>4, <2>5, <2>6
<1>2. CASE Destroy
  BY <1>2, WakeUps DEF Destroy, TypeOK
<1>3. CASE SpuriousWake
  BY <1>3, SpuriousWakeUps DEF TypeOK
<1>4. ASSUME NEW d \in Distributors, Distribute(d) PROVE Conservation'
  <2>1. CASE DPark(d)
    BY <2>1 DEF DPark, TypeOK
  <2>2. CASE DTake(d)
    <3>1. /\ Len(input) > 0 /\ Len(input') = Len(input) - 1
          /\ held'[d] = input[1]
          /\ \A i \in 1 .. Len(input') : input'[i] = input[i + 1]
      BY <2>2 DEF DTake, TypeOK
    <3>2. inputOwner = NoOne /\ inputOwner' = d /\ UNCHANGED <<pushed, freed>>
      BY <2>2 DEF DTake, InputFree
    <3>3. \A e \in Distributors \ {d} : dpc'[e] \notin {"took", "visit"}
      BY <2>2, <3>2, ThreadAssumption DEF DTake, TypeOK
    <3>4. held'[d] = freed' + 1
      BY <3>1, <3>2 DEF TypeOK
    <3>5. \A i \in 1 .. Len(input') : input'[i] = pushed' - Len(input') + i
      BY <3>1, <3>2 DEF TypeOK
    <3>6. inputOwner' # NoOne
      BY <3>2, ThreadAssumption
    <3> QED
      BY <3>1, <3>2, <3>3, <3>4, <3>5, <3>6 DEF TypeOK
  <2>3. CASE DLockInfo(d)
    BY <2>3 DEF DLockInfo, TypeOK
  <2>4. CASE DFinish(d)
    <3>1. inputOwner = d /\ inputOwner' = NoOne /\ freed' = freed + 1
      BY <2>4 DEF DFinish
    <3>2. \A e \in Distributors : dpc'[e] \notin {"took", "visit"}
      BY <2>4, <3>1 DEF DFinish, TypeOK
    <3> QED
      BY <2>4, <3>1, <3>2, ThreadAssumption DEF DFinish, TypeOK
  <2>5. CASE DExit(d)
    BY <2>5 DEF DExit, TypeOK
  <2>6. ASSUME NEW n \in Names, DDeliver(d, n) PROVE Conservation'
    BY <2>6 DEF DDeliver
  <2> QED
    BY <1>4, <2>1, <2>2, <2>3, <2>4, <2>5, <2>6 DEF Distribute
<1>5. CASE UNCHANGED Upstream
  BY <1>5 DEF Upstream, distVars
<1> QED
  BY <1>1, <1>2, <1>3, <1>4, <1>5, ConsumersKeepUpstream, OthersKeepUpstream DEF Next

\* For any number of distributor threads, every frame pushed is at any moment in
\* exactly one place: the input queue, one distributor's hands, or deleted.
THEOREM FramesConserved == Spec => []Conservation
<1>1. Init => Conservation
  BY DEF Init, Conservation
<1> QED
  BY <1>1, TypeInit, TypeStep, ConservationStep, PTL DEF Spec
-----------------------------------------------------------------------------
(* The mutexes of pop(): what a consumer may rely on while it holds one.   *)

Holding(c) == AtWork(c) \/ cpc[c] = "erase"

\* A consumer holds the mutex of the ThreadInfo it looked up.
LockInv ==
    \A c \in Consumers :
        /\ cpc[c] \in {"lock", "parked"} \/ Holding(c) => at[c] \in Consumers
        /\ Holding(c) => itemOwner[at[c]] = c

\* A ThreadInfo nobody has subscribed yet is known to its own thread only.
AllocInv ==
    \A c \in Consumers : cpc[c] \in {"new", "inserting"} =>
        /\ \A n \in Names : thread_info[n] # c
        /\ \A e \in Consumers : at[e] # c /\ cv[e] # c

\* mixed has every name that pop() works on under another mutex than the one in
\* force, or while it is drained.
MixInv == \A n \in Names : Contended(n) => n \in mixed

\* Beyond the test of the predicate.
Sure(c) == cpc[c] \in {"sleep", "check", "front", "drop"}

\* At most one consumer of a name is beyond the test ...
OneSure ==
    \A c, e \in Consumers :
        NameOf[c] = NameOf[e] /\ NameOf[c] \notin mixed /\ Sure(c) /\ Sure(e) => c = e

\* ... and what it has seen of the queue is still so.
Seen(c) ==
    LET n == NameOf[c] IN
    /\ cpc[c] = "check" /\ Running(n) => n \in queues /\ output[n] # <<>>
    /\ cpc[c] \in {"front", "drop"} => n \in queues /\ output[n] # <<>>
    /\ cpc[c] = "drop" => got[c] = Head(output[n])

SeenInv == \A c \in Consumers : NameOf[c] \notin mixed => Seen(c)

WorkInv == TypeOK /\ LockInv /\ AllocInv /\ MixInv /\ OneSure /\ SeenInv

\* What a step may do to a consumer that does not take it.
Woken(c) == cpc'[c] = cpc[c] \/ (cpc[c] = "parked" /\ cpc'[c] = "lock")

LEMMA OthersKeepConsumers ==
  ASSUME TypeOK, Push \/ Destroy \/ Remove \/ Fault \/ SpuriousWake \/ UNCHANGED vars
                 \/ (\E d \in Distributors : Distribute(d)) \/ (\E n \in Names : RemoveBegin(n))
  PROVE  UNCHANGED <<itemOwner, at, cv, got, handed>> /\ \A c \in Consumers : Woken(c)
<1>1. UNCHANGED <<itemOwner, at, cv, got, handed>>
  BY DEF Push, Destroy, Remove, Fault, SpuriousWake, Distribute, RemoveBegin, vars, consVars, itemVars
<1>2. CASE Push \/ Destroy \/ Remove \/ Fault \/ UNCHANGED vars \/ \E n \in Names : RemoveBegin(n)
  BY <1>1, <1>2 DEF Push, Destroy, Remove, Fault, RemoveBegin, vars, consVars, Woken
<1>3. CASE SpuriousWake
  BY <1>1, <1>3 DEF SpuriousWake, Woken, TypeOK
<1>4. ASSUME NEW d \in Distributors, Distribute(d) PROVE \A c \in Consumers : Woken(c)
  BY <1>4 DEF Distribute, DPark, DTake, DLockInfo, DFinish, DExit, DDeliver, WakeWaiters, Woken
<1>. QED
  BY <1>1, <1>2, <1>3, <1>4

\* What a consumer's own step may do to the others.
LEMMA ConsumersKeepOthers ==
  ASSUME TypeOK, NEW c \in Consumers, Insert(c) \/ Pop(c) \/ Quit(c), NEW e \in Consumers \ {c}
  PROVE  cpc'[e] = cpc[e] /\ at'[e] = at[e] /\ cv'[e] = cv[e] /\ got'[e] = got[e]
<1>. USE DEF TypeOK
<1>1. CASE Insert(c)
  BY <1>1 DEF Insert, InsertRefused, InsertLock, InsertCommit
<1>2. CASE Quit(c)
  BY <1>2 DEF Quit, Leave
<1>3. CASE Pop(c)
  <2>1. CASE PopCheck(c) \/ PopFind(c) \/ PopLock(c) \/ PopTest(c) \/ PopSleep(c)
    BY <2>1 DEF PopCheck, PopFind, PopLock, PopTest, PopSleep
  <2>2. CASE PopAwake(c) \/ PopFront(c) \/ PopDrop(c) \/ PopErase(c) \/ PopFault(c)
    BY <2>2 DEF PopAwake, PopFront, PopDrop, PopErase, PopFault, PopReturns
  <2>. QED
    BY <1>3, <2>1, <2>2 DEF Pop, PopSteps
<1>. QED
  BY <1>1, <1>2, <1>3

LEMMA LockStep == TypeOK /\ LockInv /\ [Next]_vars => LockInv'
<1>. SUFFICES ASSUME TypeOK, LockInv, [Next]_vars PROVE LockInv'
  OBVIOUS
<1>. USE ThreadAssumption DEF LockInv, Holding, AtWork
<1>1. CASE Push \/ Destroy \/ Remove \/ Fault \/ SpuriousWake \/ UNCHANGED vars
           \/ (\E d \in Distributors : Distribute(d)) \/ (\E n \in Names : RemoveBegin(n))
  BY <1>1, OthersKeepConsumers DEF Woken
<1>2. ASSUME NEW c \in Consumers, Insert(c) \/ Quit(c) PROVE LockInv'
  <2>1. /\ UNCHANGED <<itemOwner, at>> /\ cpc'[c] \in {"ready", "inserting", "ended"}
        /\ \A e \in Consumers \ {c} : cpc'[e] = cpc[e]
    BY <1>2 DEF Insert, InsertRefused, InsertLock, InsertCommit, Quit, Leave, itemVars, TypeOK
  <2>. QED
    BY <2>1
<1>3. ASSUME NEW c \in Consumers, Pop(c) PROVE LockInv'
  <2>1. \A e \in Consumers \ {c} : cpc'[e] = cpc[e] /\ at'[e] = at[e]
    BY <1>3, ConsumersKeepOthers
  <2>2. ASSUME UNCHANGED itemOwner,
               cpc'[c] \in {"lock", "parked"} \/ Holding(c)' => at'[c] \in Consumers,
               Holding(c)' => itemOwner[at'[c]] = c
        PROVE  LockInv'
    BY <2>1, <2>2
  <2>3. CASE PopCheck(c) \/ PopFind(c)
    <3>1. UNCHANGED itemOwner /\ cpc'[c] \in {"ended", "find", "lock"}
      BY <2>3 DEF PopCheck, PopFind, TypeOK
    <3>2. cpc'[c] = "lock" => at'[c] \in Consumers
      BY <2>3 DEF PopCheck, PopFind, TypeOK
    <3>. QED
      BY <2>2, <3>1, <3>2
  <2>4. CASE PopLock(c)
    <3>1. /\ cpc[c] = "lock" /\ itemOwner[at[c]] = NoOne /\ at'[c] = at[c] /\ at[c] \in Consumers
          /\ itemOwner' = [itemOwner EXCEPT ![at[c]] = c]
      BY <2>4 DEF PopLock, ItemFree
    <3>2. itemOwner'[at[c]] = c
      BY <3>1 DEF TypeOK
    <3>3. ASSUME NEW e \in Consumers \ {c}, Holding(e) PROVE itemOwner'[at[e]] = e
      BY <3>1, <3>3 DEF TypeOK
    <3>. QED
      BY <2>1, <3>1, <3>2, <3>3
  <2>5. CASE PopTest(c) \/ PopAwake(c) \/ PopFront(c) \/ PopFault(c)
    <3>1. UNCHANGED <<itemOwner, at>>
      BY <2>5 DEF PopTest, PopAwake, PopFront, PopFault
    <3>2. cpc'[c] = cpc[c] \/ Holding(c)
      BY <2>5 DEF PopTest, PopAwake, PopFront, PopFault
    <3>. QED
      BY <2>2, <3>1, <3>2
  <2>6. CASE PopSleep(c) \/ PopDrop(c) \/ PopErase(c)
    <3>1. /\ Holding(c) /\ cpc'[c] \in {"parked", "ready", "ended"}
          /\ cpc'[c] = "parked" => at'[c] = at[c]
          /\ itemOwner' = [itemOwner EXCEPT ![at[c]] = NoOne]
      BY <2>6 DEF PopSleep, PopDrop, PopErase, PopReturns, TypeOK
    <3>2. ASSUME NEW e \in Consumers \ {c}, Holding(e) PROVE itemOwner'[at[e]] = e
      BY <3>1, <3>2 DEF TypeOK
    <3>. QED
      BY <2>1, <3>1, <3>2
  <2>. QED
    BY <1>3, <2>3, <2>4, <2>5, <2>6 DEF Pop, PopSteps
<1>. QED
  BY <1>1, <1>2, <1>3 DEF Next

\* The ThreadInfo a name has changes to none, or to that of the consumer that
\* subscribes.
LEMMA ThreadInfoChanges ==
  ASSUME TypeOK, [Next]_vars, NEW n \in Names
  PROVE  \/ thread_info'[n] = thread_info[n]
         \/ thread_info'[n] = NoOne
         \/ \E c \in Consumers : InsertCommit(c) /\ NameOf[c] = n /\ thread_info'[n] = c
<1>. USE DEF TypeOK
<1>1. CASE Push \/ Destroy \/ Fault \/ SpuriousWake \/ UNCHANGED vars
           \/ \E m \in Names : RemoveBegin(m)
  BY <1>1 DEF Push, Destroy, Fault, SpuriousWake, vars, mapVars, RemoveBegin, RemoveLock
<1>2. CASE Remove
  BY <1>2 DEF Remove, RemoveSteps, RemoveTouch, RemoveFront, RemoveDrop, RemoveQueue, RemoveStop,
              RemoveErase
<1>3. ASSUME NEW d \in Distributors, Distribute(d) PROVE thread_info' = thread_info
  BY <1>3 DEF Distribute, DPark, DTake, DLockInfo, DFinish, DExit, DDeliver, mapVars
<1>4. ASSUME NEW c \in Consumers, Insert(c), ~InsertCommit(c) PROVE thread_info' = thread_info
  BY <1>4 DEF Insert, InsertRefused, InsertLock, mapVars
<1>5. ASSUME NEW c \in Consumers, InsertCommit(c)
      PROVE  thread_info'[n] = thread_info[n] \/ (NameOf[c] = n /\ thread_info'[n] = c)
  BY <1>5 DEF InsertCommit
<1>6. ASSUME NEW c \in Consumers, Pop(c) \/ Quit(c)
      PROVE  thread_info'[n] = thread_info[n] \/ thread_info'[n] = NoOne
  BY <1>6 DEF Pop, PopSteps, PopCheck, PopFind, PopLock, PopTest, PopSleep, PopAwake, PopFront, PopDrop,
              PopErase, PopFault, Quit, Leave
<1>. QED
  BY <1>1, <1>2, <1>3, <1>4, <1>5, <1>6 DEF Next

LEMMA AllocStep == TypeOK /\ AllocInv /\ [Next]_vars => AllocInv'
<1>. SUFFICES ASSUME TypeOK, AllocInv, [Next]_vars, NEW c \in Consumers,
                     cpc'[c] \in {"new", "inserting"}
              PROVE  /\ \A n \in Names : thread_info'[n] # c
                     /\ \A e \in Consumers : at'[e] # c /\ cv'[e] # c
  BY DEF AllocInv
<1>. USE ThreadAssumption
<1>1. cpc[c] \in {"new", "inserting"} /\ ~InsertCommit(c)
  <2>1. CASE Push \/ Destroy \/ Remove \/ Fault \/ SpuriousWake \/ UNCHANGED vars
             \/ (\E d \in Distributors : Distribute(d)) \/ (\E n \in Names : RemoveBegin(n))
    <3>1. cpc'[c] = cpc[c]
      BY <2>1, OthersKeepConsumers DEF Woken
    <3>. QED
      BY <3>1 DEF InsertCommit, TypeOK
  <2>2. ASSUME NEW e \in Consumers \ {c}, Insert(e) \/ Pop(e) \/ Quit(e) PROVE cpc'[c] = cpc[c]
    BY <2>2, ConsumersKeepOthers
  <2>3. (~Quit(c) /\ ~Pop(c)) \/ cpc'[c] = cpc[c]
    BY DEF Quit, Leave, Pop, PopSteps, PopCheck, PopFind, PopLock, PopTest, PopSleep, PopAwake, PopFront,
           PopDrop, PopErase, PopFault, PopReturns, TypeOK
  <2>4. Insert(c) => InsertLock(c) /\ cpc[c] = "new"
    BY DEF Insert, InsertRefused, InsertLock, InsertCommit, TypeOK
  <2>5. ~InsertCommit(c)
    BY DEF InsertCommit, TypeOK
  <2>. QED
    BY <2>1, <2>2, <2>3, <2>4, <2>5 DEF Next
<1>2. ASSUME NEW n \in Names PROVE thread_info[n] # c /\ thread_info'[n] # c
  BY <1>1, ThreadInfoChanges DEF AllocInv
<1>3. ASSUME NEW e \in Consumers PROVE at'[e] # c /\ cv'[e] # c
  <2>1. at[e] # c /\ cv[e] # c
    BY <1>1 DEF AllocInv
  <2>2. CASE at'[e] = at[e] /\ cv'[e] = cv[e]
    BY <2>1, <2>2
  <2>3. CASE Pop(e)
    <3>1. CASE PopCheck(e) \/ PopTest(e) \/ PopSleep(e) \/ PopAwake(e) \/ PopFront(e) \/ PopFault(e)
      BY <2>2, <3>1 DEF PopCheck, PopTest, PopSleep, PopAwake, PopFront, PopFault
    <3>2. CASE PopFind(e) \/ PopLock(e)
      BY <1>2, <2>1, <3>2 DEF PopFind, PopLock, TypeOK
    <3>3. CASE PopDrop(e) \/ PopErase(e)
      BY <3>3 DEF PopDrop, PopErase, PopReturns, TypeOK
    <3>. QED
      BY <2>3, <3>1, <3>2, <3>3 DEF Pop, PopSteps
  <2>4. ASSUME NEW f \in Consumers \ {e}, Insert(f) \/ Pop(f) \/ Quit(f)
        PROVE  at'[e] = at[e] /\ cv'[e] = cv[e]
    BY <2>4, ConsumersKeepOthers
  <2>5. CASE Insert(e) \/ Quit(e)
    BY <2>2, <2>5 DEF Insert, Quit, Leave
  <2>. QED
    BY <2>2, <2>3, <2>4, <2>5, OthersKeepConsumers DEF Next
<1>. QED
  BY <1>2, <1>3

LEMMA MixStep == TypeOK /\ MixInv /\ [Next]_vars => MixInv' /\ mixed \subseteq mixed'
<1>1. ASSUME Mix PROVE MixInv' /\ mixed \subseteq mixed'
  BY <1>1 DEF Mix, MixInv
<1>2. ASSUME MixInv, UNCHANGED vars PROVE MixInv' /\ mixed \subseteq mixed'
  BY <1>2 DEF MixInv, Contended, AtWork, Draining, vars, mapVars, consVars, rmVars
<1>. QED
  BY <1>1, <1>2 DEF Next

LEMMA SureStep ==
  ASSUME TypeOK, [Next]_vars, NEW c \in Consumers, Sure(c)'
  PROVE  (Sure(c) /\ cpc[c] \notin {"lock", "parked"}) \/ PopTest(c)
<1>. USE DEF Sure, TypeOK
<1>1. CASE Push \/ Destroy \/ Remove \/ Fault \/ SpuriousWake \/ UNCHANGED vars
           \/ (\E d \in Distributors : Distribute(d)) \/ (\E n \in Names : RemoveBegin(n))
  BY <1>1, OthersKeepConsumers DEF Woken
<1>2. ASSUME NEW e \in Consumers \ {c}, Insert(e) \/ Pop(e) \/ Quit(e) PROVE Sure(c)
  BY <1>2, ConsumersKeepOthers
<1>3. ~Insert(c) /\ ~Quit(c)
  BY DEF Insert, InsertRefused, InsertLock, InsertCommit, Quit, Leave
<1>4. CASE Pop(c)
  BY <1>4 DEF Pop, PopSteps, PopCheck, PopFind, PopLock, PopSleep, PopAwake, PopFront, PopDrop, PopErase,
              PopFault, PopReturns
<1>. QED
  BY <1>1, <1>2, <1>3, <1>4 DEF Next

\* A pop() at work on a name that is not mixed holds the mutex in force, if any.
LEMMA MutexInForce ==
  ASSUME TypeOK, MixInv, NEW c \in Consumers, AtWork(c), NameOf[c] \notin mixed
  PROVE  thread_info[NameOf[c]] \in {NoOne, at[c]} /\ ~Draining(NameOf[c])
  BY ThreadAssumption DEF MixInv, Contended

LEMMA OneSureStep == WorkInv /\ [Next]_vars => OneSure'
<1>. SUFFICES ASSUME WorkInv, [Next]_vars, NEW c \in Consumers, NEW e \in Consumers,
                     NameOf[c] = NameOf[e], NameOf[c] \notin mixed', Sure(c)', Sure(e)', c # e
              PROVE  FALSE
  BY DEF OneSure
<1>1. NameOf[c] \notin mixed
  BY MixStep DEF WorkInv
<1>2. ASSUME NEW a \in Consumers, NEW b \in Consumers, a # b, NameOf[a] = NameOf[c], NameOf[b] = NameOf[c],
             PopTest(a), Sure(b)
      PROVE  FALSE
  <2>1. AtWork(a) /\ AtWork(b) /\ thread_info[NameOf[c]] # NoOne
    BY <1>2 DEF PopTest, Sure, AtWork, Stopped, Running
  <2>2. at[a] = at[b]
    BY <1>1, <1>2, <2>1, MutexInForce DEF WorkInv
  <2>. QED
    BY <1>2, <2>1, <2>2 DEF WorkInv, LockInv, Holding
<1>3. ~(Sure(c) /\ Sure(e))
  BY <1>1 DEF WorkInv, OneSure
<1>4. ~(PopTest(c) /\ PopTest(e))
  BY DEF PopTest, WorkInv, TypeOK
<1>. QED
  BY <1>2, <1>3, <1>4, SureStep DEF WorkInv

\* Nobody else takes from, drains or deletes a queue that a consumer has seen.
LEMMA QueueKept ==
  ASSUME WorkInv, [Next]_vars, NEW e \in Consumers, NameOf[e] \notin mixed, Sure(e), ~PopDrop(e),
         NameOf[e] \in queues, output[NameOf[e]] # <<>>
  PROVE  /\ NameOf[e] \in queues' /\ output'[NameOf[e]] # <<>>
         /\ Head(output'[NameOf[e]]) = Head(output[NameOf[e]])
<1>. DEFINE n == NameOf[e]
<1>0. n \in Names /\ TypeOK /\ output[n] \in Seq(Nat)
  BY ThreadAssumption DEF WorkInv, TypeOK
<1>1. CASE UNCHANGED <<output, queues>>
  BY <1>1
<1>2. CASE Push \/ Destroy \/ Fault \/ SpuriousWake \/ UNCHANGED vars \/ (\E m \in Names : RemoveBegin(m))
  BY <1>1, <1>2 DEF Push, Destroy, Fault, SpuriousWake, vars, mapVars, RemoveBegin, RemoveLock
<1>3. CASE Remove
  <2>1. CASE RemoveTouch \/ RemoveFront \/ RemoveStop \/ RemoveErase
    BY <1>1, <2>1 DEF RemoveTouch, RemoveFront, RemoveStop, RemoveErase
  <2>2. CASE RemoveDrop \/ RemoveQueue
    <3>1. ~Draining(n)
      BY <1>0, MutexInForce DEF WorkInv, Sure, AtWork
    <3>2. rmName # n /\ rmName \in Names \cup {NoOne}
      BY <1>0, <2>2, <3>1 DEF RemoveDrop, RemoveQueue, Draining, TypeOK
    <3>3. output'[n] = output[n]
      BY <1>0, <2>2, <3>2, PoppedType DEF RemoveDrop, RemoveQueue
    <3>4. n \in queues'
      BY <2>2, <3>2 DEF RemoveDrop, RemoveQueue
    <3>. QED
      BY <3>3, <3>4
  <2>. QED
    BY <1>3, <2>1, <2>2 DEF Remove, RemoveSteps
<1>4. ASSUME NEW d \in Distributors, Distribute(d) PROVE queues' = queues
  BY <1>4 DEF Distribute, DPark, DTake, DLockInfo, DFinish, DExit, DDeliver, mapVars
<1>5. ASSUME NEW d \in Distributors, Distribute(d)
      PROVE  output'[n] # <<>> /\ Head(output'[n]) = Head(output[n])
  <2>1. CASE UNCHANGED output
    BY <2>1
  <2>2. ASSUME NEW m \in Names, DDeliver(d, m) PROVE output'[n] # <<>> /\ Head(output'[n]) = Head(output[n])
    <3>1. output'[n] = output[n] \/ output'[n] = Append(output[n], held[d])
      BY <1>0, <2>2 DEF DDeliver, WithFrame, TypeOK
    <3>2. held[d] \in Nat
      BY <1>0 DEF TypeOK
    <3>3. LET s == Append(output[n], held[d]) IN s # <<>> /\ Head(s) = Head(output[n])
      BY <1>0, <3>2
    <3>. QED
      BY <3>1, <3>3
  <2>. QED
    BY <1>5, <2>1, <2>2 DEF Distribute, DPark, DTake, DLockInfo, DFinish, DExit, mapVars
<1>6. ASSUME NEW c \in Consumers, Insert(c) \/ Pop(c) \/ Quit(c), ~PopDrop(c)
      PROVE  n \in queues' /\ UNCHANGED output
  BY <1>6 DEF Insert, InsertRefused, InsertLock, InsertCommit, WithQueue, mapVars, Pop, PopSteps, PopCheck,
              PopFind, PopLock, PopTest, PopSleep, PopAwake, PopFront, PopErase, PopFault, Quit, Leave
<1>7. ASSUME NEW c \in Consumers, Pop(c), PopDrop(c) PROVE UNCHANGED queues /\ output'[n] = output[n]
  <2>1. c # e /\ Sure(c)
    BY <1>7 DEF PopDrop, Sure
  <2>2. NameOf[c] # n /\ NameOf[c] \in Names
    BY <2>1, ThreadAssumption DEF WorkInv, OneSure
  <2>. QED
    BY <1>0, <1>7, <2>2, PoppedType DEF Pop, PopDrop
<1>8. ASSUME NEW c \in Consumers, PopDrop(c), Insert(c) \/ Quit(c) PROVE FALSE
  BY <1>0, <1>8 DEF PopDrop, Insert, InsertRefused, InsertLock, InsertCommit, Quit, Leave
<1>. QED
  BY <1>1, <1>2, <1>3, <1>4, <1>5, <1>6, <1>7, <1>8 DEF Next

\* A subscription in force stays in force, or is removed for good, under a consumer
\* at work on it; and a subscription is never started again.
LEMMA StaysStopped ==
  ASSUME WorkInv, [Next]_vars, NEW e \in Consumers, AtWork(e), AtWork(e)', at'[e] = at[e],
         NameOf[e] \notin mixed', Running(NameOf[e])'
  PROVE  Running(NameOf[e])
<1>. DEFINE n == NameOf[e]
<1>0. n \in Names /\ TypeOK /\ TypeOK'
  BY TypeStep, ThreadAssumption DEF WorkInv
<1>1. MixInv'
  BY MixStep DEF WorkInv
<1>2. thread_info'[n] = at[e] /\ thread_info'[n] \in Consumers
  BY <1>0, <1>1 DEF MixInv, Contended, Running, TypeOK
<1>3. thread_info'[n] = thread_info[n]
  BY <1>0, <1>2, ThreadInfoChanges, ThreadAssumption DEF WorkInv, AllocInv, InsertCommit
<1>4. \A t \in Consumers : isRun'[t] => isRun[t]
  <2>1. CASE UNCHANGED isRun
    BY <2>1
  <2>2. CASE Remove
    BY <1>0, <2>2 DEF Remove, RemoveSteps, RemoveTouch, RemoveFront, RemoveDrop, RemoveQueue, RemoveStop,
                RemoveErase, TypeOK
  <2>. QED
    BY <2>1, <2>2 DEF Next, Push, Destroy, Fault, SpuriousWake, vars, itemVars, RemoveBegin, RemoveLock,
                      Distribute, Insert, Pop, Quit
<1>. QED
  BY <1>2, <1>3, <1>4 DEF Running

LEMMA SeenStep == WorkInv /\ [Next]_vars => SeenInv'
<1>. SUFFICES ASSUME WorkInv, [Next]_vars, NEW e \in Consumers, NameOf[e] \notin mixed' PROVE Seen(e)'
  BY DEF SeenInv
<1>. DEFINE n == NameOf[e]
<1>0. TypeOK /\ n \in Names /\ n \notin mixed /\ Seen(e)
  BY MixStep, ThreadAssumption DEF WorkInv, SeenInv
<1>1. CASE Pop(e)
  <2>1. UNCHANGED <<queues, isRun>>
    BY <1>1 DEF Pop
  <2>2. CASE PopTest(e)
    BY <1>0, <2>1, <2>2 DEF PopTest, Seen, MayReturn, Running, Stopped, TypeOK
  <2>3. CASE PopAwake(e)
    BY <1>0, <2>1, <2>3 DEF PopAwake, Seen, Running, Stopped, TypeOK
  <2>4. CASE PopFront(e)
    BY <1>0, <2>1, <2>4 DEF PopFront, Seen, TypeOK
  <2>5. CASE PopFault(e)
    BY <1>0, <2>1, <2>5 DEF PopFault, Seen, Running
  <2>6. CASE PopCheck(e) \/ PopFind(e) \/ PopLock(e) \/ PopSleep(e) \/ PopDrop(e) \/ PopErase(e)
    <3>1. cpc'[e] \notin {"check", "front", "drop"}
      BY <1>0, <2>6 DEF PopCheck, PopFind, PopLock, PopSleep, PopDrop, PopErase, PopReturns, TypeOK
    <3>. QED
      BY <3>1 DEF Seen
  <2>. QED
    BY <1>1, <2>2, <2>3, <2>4, <2>5, <2>6 DEF Pop, PopSteps
<1>2. CASE ~Pop(e)
  <2>. SUFFICES ASSUME cpc'[e] \in {"check", "front", "drop"} PROVE Seen(e)'
    BY DEF Seen
  <2>1. cpc'[e] = cpc[e] /\ at'[e] = at[e] /\ got'[e] = got[e]
    <3>1. ASSUME NEW c \in Consumers \ {e}, Insert(c) \/ Pop(c) \/ Quit(c)
          PROVE  cpc'[e] = cpc[e] /\ at'[e] = at[e] /\ got'[e] = got[e]
      BY <1>0, <3>1, ConsumersKeepOthers
    <3>2. ~Insert(e) /\ ~Quit(e)
      BY <1>0 DEF Insert, InsertRefused, InsertLock, InsertCommit, Quit, Leave, TypeOK
    <3>. QED
      BY <1>0, <1>2, <3>1, <3>2, OthersKeepConsumers DEF Next, Woken
  <2>2. Sure(e) /\ AtWork(e) /\ AtWork(e)'
    BY <2>1 DEF Sure, AtWork
  <2>3. ~PopDrop(e)
    BY <1>0, <2>1, <2>2 DEF PopDrop, PopReturns, Sure, TypeOK
  <2>4. Running(n)' => Running(n)
    BY <2>1, <2>2, StaysStopped
  <2>5. n \in queues /\ output[n] # <<>> =>
           n \in queues' /\ output'[n] # <<>> /\ Head(output'[n]) = Head(output[n])
    BY <1>0, <2>2, <2>3, QueueKept
  <2>. QED
    BY <1>0, <2>1, <2>4, <2>5 DEF Seen
<1>. QED
  BY <1>1, <1>2

LEMMA WorkInit == Init => WorkInv
<1>. SUFFICES ASSUME Init PROVE WorkInv
  OBVIOUS
<1>1. \A c \in Consumers : cpc[c] \in {"ready", "new"} /\ at[c] = NoOne /\ cv[c] = NoOne
  BY DEF Init
<1>2. LockInv /\ OneSure /\ SeenInv
  BY <1>1 DEF LockInv, Holding, AtWork, OneSure, Sure, SeenInv, Seen
<1>3. MixInv
  BY <1>1 DEF MixInv, Contended, AtWork
<1>4. AllocInv
  <2>1. \A n \in Names : thread_info[n] \in Subscribed \cup {NoOne}
    BY DEF Init
  <2>2. \A c \in Consumers : cpc[c] = "new" => c \notin Subscribed
    BY DEF Init
  <2>. QED
    BY <1>1, <2>1, <2>2, ThreadAssumption DEF AllocInv
<1>. QED
  BY <1>2, <1>3, <1>4, TypeInit DEF WorkInv

LEMMA WorkStep == WorkInv /\ [Next]_vars => WorkInv'
  BY TypeStep, LockStep, AllocStep, MixStep, OneSureStep, SeenStep DEF WorkInv
-----------------------------------------------------------------------------
(* The order of delivery.                                                  *)

LEMMA TakeKeepsFeed ==
  ASSUME NEW s \in Seq(Nat), NEW t \in Seq(Nat), t # <<>>
  PROVE  Append(s, Head(t)) \o Tail(t) = s \o t
<1>1. Len(t) \in Nat /\ Len(t) > 0 /\ Len(s) \in Nat
  OBVIOUS
<1>2. /\ Append(s, Head(t)) \o Tail(t) \in Seq(Nat)
      /\ Len(Append(s, Head(t)) \o Tail(t)) = Len(s) + Len(t)
  BY <1>1
<1>3. s \o t \in Seq(Nat) /\ Len(s \o t) = Len(s) + Len(t)
  OBVIOUS
<1>4. ASSUME NEW i \in 1 .. (Len(s) + Len(t))
      PROVE  (Append(s, Head(t)) \o Tail(t))[i] = (s \o t)[i]
  <2>1. CASE i <= Len(s)
    BY <1>1, <2>1
  <2>2. CASE i = Len(s) + 1
    BY <1>1, <2>2
  <2>3. CASE i > Len(s) + 1
    BY <1>1, <2>3
  <2> QED
    BY <1>1, <2>1, <2>2, <2>3
<1> QED
  BY <1>2, <1>3, <1>4, SeqEqual

LEMMA GrowsAtTheEnd ==
  ASSUME NEW s \in Seq(Nat), NEW t \in Seq(Nat), NEW x \in Nat
  PROVE  s \o Append(t, x) = Append(s \o t, x)
<1>1. Len(t) \in Nat /\ Len(s) \in Nat
  OBVIOUS
<1>2. s \o Append(t, x) \in Seq(Nat) /\ Len(s \o Append(t, x)) = Len(s) + Len(t) + 1
  BY <1>1
<1>3. Append(s \o t, x) \in Seq(Nat) /\ Len(Append(s \o t, x)) = Len(s) + Len(t) + 1
  BY <1>1
<1>4. ASSUME NEW i \in 1 .. (Len(s) + Len(t) + 1)
      PROVE  (s \o Append(t, x))[i] = Append(s \o t, x)[i]
  <2>1. CASE i <= Len(s)
    BY <1>1, <2>1
  <2>2. CASE i > Len(s) /\ i <= Len(s) + Len(t)
    BY <1>1, <2>2
  <2>3. CASE i = Len(s) + Len(t) + 1
    BY <1>1, <2>3
  <2> QED
    BY <1>1, <2>1, <2>2, <2>3
<1> QED
  BY <1>2, <1>3, <1>4, SeqEqual

\* A sequence that loses an element in the middle.
LEMMA TailThins ==
  ASSUME NEW s \in Seq(Nat), NEW t \in Seq(Nat), t # <<>>
  PROVE  LET u == s \o t
             v == s \o Tail(t)
         IN  /\ v \in Seq(Nat) /\ Len(s) \in Nat /\ Len(v) + 1 = Len(u)
             /\ \A i \in 1 .. Len(v) : v[i] = IF i <= Len(s) THEN u[i] ELSE u[i + 1]
<1>1. /\ Len(t) \in Nat /\ Len(t) > 0 /\ Len(s) \in Nat
      /\ Tail(t) \in Seq(Nat) /\ Len(Tail(t)) = Len(t) - 1
  OBVIOUS
<1>2. s \o Tail(t) \in Seq(Nat) /\ Len(s \o Tail(t)) = Len(s) + Len(t) - 1 /\ Len(s \o t) = Len(s) + Len(t)
  BY <1>1
<1>3. ASSUME NEW i \in 1 .. (Len(s) + Len(t) - 1)
      PROVE  (s \o Tail(t))[i] = IF i <= Len(s) THEN (s \o t)[i] ELSE (s \o t)[i + 1]
  <2>1. CASE i <= Len(s)
    BY <1>1, <2>1
  <2>2. CASE i > Len(s)
    BY <1>1, <2>2
  <2>. QED
    BY <1>1, <2>1, <2>2
<1>. QED
  BY <1>1, <1>2, <1>3

\* A strictly increasing sequence stays so when a larger number is appended.
LEMMA AppendKeepsOrder ==
  ASSUME NEW s \in Seq(Nat), NEW x \in Nat,
         \A i, j \in 1 .. Len(s) : i < j => s[i] < s[j],
         \A i \in 1 .. Len(s) : s[i] < x
  PROVE  LET t == Append(s, x)
         IN  /\ \A i, j \in 1 .. Len(t) : i < j => t[i] < t[j]
             /\ \A i \in 1 .. Len(t) : t[i] <= x
<1> DEFINE t == Append(s, x)
<1>1. Len(s) \in Nat /\ Len(t) = Len(s) + 1
  OBVIOUS
<1>2. \A i \in 1 .. Len(s) : t[i] = s[i] /\ s[i] \in Nat
  BY <1>1
<1>3. t[Len(s) + 1] = x
  BY <1>1
<1> HIDE DEF t
<1>4. ASSUME NEW i \in 1 .. Len(t) PROVE t[i] <= x
  <2>1. CASE i <= Len(s)
    BY <1>1, <1>2, <2>1
  <2>2. CASE i = Len(s) + 1
    BY <1>3, <2>2
  <2> QED
    BY <1>1, <2>1, <2>2
<1>5. ASSUME NEW i \in 1 .. Len(t), NEW j \in 1 .. Len(t), i < j PROVE t[i] < t[j]
  <2>1. i \in 1 .. Len(s)
    BY <1>1, <1>5
  <2>2. CASE j <= Len(s)
    BY <1>1, <1>2, <1>5, <2>1, <2>2
  <2>3. CASE j = Len(s) + 1
    BY <1>2, <1>3, <2>1, <2>3
  <2> QED
    BY <1>1, <2>2, <2>3
<1> QED
  BY <1>4, <1>5 DEF t

LEMMA FeedType ==
  ASSUME TypeOK, NEW n \in Names
  PROVE  /\ handed[n] \in Seq(Nat) /\ output[n] \in Seq(Nat)
         /\ Feed(n) \in Seq(Nat) /\ Len(Feed(n)) = Len(handed[n]) + Len(output[n])
  BY DEF TypeOK, Feed

\* A consumer moves a frame from one half of its feed to the other.
LEMMA ConsumersKeepFeed ==
  ASSUME WorkInv, NEW c \in Consumers, Insert(c) \/ Pop(c) \/ Quit(c), NEW n \in Names, n \notin mixed
  PROVE  Feed(n)' = Feed(n)
<1>0. TypeOK /\ NameOf[c] \in Names
  BY ThreadAssumption DEF WorkInv
<1>1. CASE PopDrop(c)
  <2>1. CASE n = NameOf[c]
    <3>1. output[n] # <<>> /\ got[c] = Head(output[n])
      BY <1>1, <2>1 DEF PopDrop, WorkInv, SeenInv, Seen
    <3>2. handed'[n] = Append(handed[n], Head(output[n]))
      BY <1>0, <1>1, <2>1, <3>1 DEF PopDrop, TypeOK
    <3>3. output'[n] = Tail(output[n])
      BY <1>0, <1>1, <2>1, <3>1, PoppedType DEF PopDrop
    <3> QED
      BY <1>0, <3>1, <3>2, <3>3, FeedType, TakeKeepsFeed DEF Feed
  <2>2. CASE n # NameOf[c]
    <3>1. handed'[n] = handed[n] /\ output'[n] = output[n]
      BY <1>0, <1>1, <2>2, PoppedType DEF PopDrop, TypeOK
    <3> QED
      BY <3>1 DEF Feed
  <2> QED
    BY <2>1, <2>2
<1>2. CASE ~PopDrop(c)
  <2>1. UNCHANGED <<output, handed>>
    BY <1>2 DEF Insert, InsertRefused, InsertLock, InsertCommit, mapVars, Pop, PopSteps,
                PopCheck, PopFind, PopLock, PopTest, PopSleep, PopAwake, PopFront, PopErase, PopFault,
                Quit, Leave
  <2> QED
    BY <2>1 DEF Feed
<1> QED
  BY <1>1, <1>2

\* remove_event() drops the oldest frame not yet taken, and nothing else.
Thinned(n) == output[n] # <<>> /\ Feed(n)' = handed[n] \o Tail(output[n])

LEMMA RemoveThinsFeed ==
  ASSUME TypeOK, Remove \/ Fault \/ (\E m \in Names : RemoveBegin(m)) \/ UNCHANGED vars,
         NEW n \in Names
  PROVE  Feed(n)' = Feed(n) \/ Thinned(n)
<1>1. UNCHANGED handed
  BY DEF Remove, Fault, RemoveBegin, vars, consVars
<1>2. output'[n] = output[n] \/ (output[n] # <<>> /\ output'[n] = Tail(output[n]))
  <2>1. CASE RemoveDrop
    <3>1. rmName \in Names \cup {NoOne}
      BY DEF TypeOK
    <3>. QED
      BY <2>1, <3>1, PoppedType DEF RemoveDrop
  <2>2. CASE ~RemoveDrop
    BY <2>2 DEF Remove, RemoveSteps, RemoveTouch, RemoveFront, RemoveQueue, RemoveStop, RemoveErase,
                Fault, RemoveBegin, RemoveLock, vars, mapVars
  <2> QED
    BY <2>1, <2>2
<1> QED
  BY <1>1, <1>2 DEF Feed, Thinned

\* A feed holds frames up to the last one fully distributed; the frame in hand
\* is there only if the distributor's pass is beyond this name.
FeedBound ==
    \A n \in Names \ mixed : \A i \in 1 .. Len(Feed(n)) :
        /\ Feed(n)[i] <= freed + 1
        /\ Feed(n)[i] = freed + 1 =>
              \E d \in Distributors : dpc[d] = "visit" /\ n \notin todo[d]

OrderInv == WorkInv /\ Conservation /\ InOrder /\ FeedBound

\* A step that leaves the distributors in their pass and thins feeds at most.
LEMMA OrderCut ==
  ASSUME OrderInv, UNCHANGED <<freed, todo>>, mixed \subseteq mixed',
         \A d \in Distributors : dpc[d] = "visit" => dpc'[d] = "visit",
         \A n \in Names \ mixed' : Feed(n)' = Feed(n) \/ Thinned(n)
  PROVE  InOrder' /\ FeedBound'
<1> SUFFICES ASSUME NEW n \in Names \ mixed'
             PROVE  /\ \A i, j \in 1 .. Len(Feed(n)') : i < j => Feed(n)'[i] < Feed(n)'[j]
                    /\ \A i \in 1 .. Len(Feed(n)') :
                          /\ Feed(n)'[i] <= freed + 1
                          /\ Feed(n)'[i] = freed + 1 =>
                                \E d \in Distributors : dpc'[d] = "visit" /\ n \notin todo[d]
  BY DEF InOrder, FeedBound
<1>0. n \in Names \ mixed /\ TypeOK
  BY DEF OrderInv, WorkInv
<1>1. PICK k \in Nat :
         /\ \A i \in 1 .. Len(Feed(n)') :
              /\ i \in 1 .. Len(Feed(n)) /\ (i > k => i + 1 \in 1 .. Len(Feed(n)))
              /\ Feed(n)'[i] = IF i <= k THEN Feed(n)[i] ELSE Feed(n)[i + 1]
  <2>1. CASE Feed(n)' = Feed(n)
    <3>1. Len(Feed(n)) \in Nat
      BY <1>0, FeedType
    <3>. WITNESS Len(Feed(n)) \in Nat
    <3>. QED
      BY <2>1, <3>1
  <2>2. CASE Thinned(n)
    <3>1. handed[n] \in Seq(Nat) /\ output[n] \in Seq(Nat) /\ output[n] # <<>>
      BY <1>0, <2>2, FeedType DEF Thinned
    <3>4. Feed(n)' = handed[n] \o Tail(output[n]) /\ Feed(n) = handed[n] \o output[n]
      BY <2>2 DEF Thinned, Feed
    <3>5. LET u == handed[n] \o output[n]
              v == handed[n] \o Tail(output[n])
          IN  /\ v \in Seq(Nat) /\ Len(handed[n]) \in Nat /\ Len(v) + 1 = Len(u)
              /\ \A i \in 1 .. Len(v) : v[i] = IF i <= Len(handed[n]) THEN u[i] ELSE u[i + 1]
      BY <3>1, TailThins
    <3>2. /\ Len(handed[n]) \in Nat /\ Feed(n)' \in Seq(Nat) /\ Len(Feed(n)') + 1 = Len(Feed(n))
          /\ \A i \in 1 .. Len(Feed(n)') :
                Feed(n)'[i] = IF i <= Len(handed[n]) THEN Feed(n)[i] ELSE Feed(n)[i + 1]
      BY <3>4, <3>5, Zenon
    <3>3. Len(Feed(n)') \in Nat
      BY <3>2
    <3>. WITNESS Len(handed[n]) \in Nat
    <3>. QED
      BY <3>2, <3>3
  <2> QED
    BY <1>0, <2>1, <2>2
<1>. DEFINE at0(i) == IF i <= k THEN i ELSE i + 1
<1>2. \A i \in 1 .. Len(Feed(n)') : at0(i) \in 1 .. Len(Feed(n)) /\ Feed(n)'[i] = Feed(n)[at0(i)]
  BY <1>1
<1>4. \A i, j \in 1 .. Len(Feed(n)') : i < j => at0(i) < at0(j)
  BY <1>1
<1>. HIDE DEF at0
<1>5. \A i, j \in 1 .. Len(Feed(n)) : i < j => Feed(n)[i] < Feed(n)[j]
  BY <1>0 DEF OrderInv, InOrder
<1>6. \A i \in 1 .. Len(Feed(n)) :
          /\ Feed(n)[i] <= freed + 1
          /\ Feed(n)[i] = freed + 1 => \E d \in Distributors : dpc[d] = "visit" /\ n \notin todo[d]
  BY <1>0 DEF OrderInv, FeedBound
<1> QED
  BY <1>2, <1>4, <1>5, <1>6

LEMMA OrderDistribute ==
  ASSUME OrderInv, NEW d \in Distributors, Distribute(d), mixed \subseteq mixed'
  PROVE  InOrder' /\ FeedBound'
<1>0. UNCHANGED handed /\ TypeOK
  BY DEF Distribute, OrderInv, WorkInv
<1>1. CASE DPark(d) \/ DTake(d) \/ DLockInfo(d) \/ DExit(d)
  <2>1. UNCHANGED <<output, freed>>
    BY <1>1 DEF DPark, DTake, DLockInfo, DExit, inputVars, mapVars
  <2>2. \A n \in Names : Feed(n)' = Feed(n)
    BY <1>0, <2>1 DEF Feed
  <2>3. CASE DLockInfo(d)
    <3>1. dpc[d] = "took" /\ inputOwner = d
      BY <2>3 DEF DLockInfo, OrderInv, Conservation
    <3>2. \A e \in Distributors : dpc[e] # "visit"
      BY <3>1 DEF OrderInv, Conservation
    <3> QED
      BY <2>1, <2>2, <3>2 DEF OrderInv, InOrder, FeedBound
  <2>4. CASE ~DLockInfo(d)
    <3>1. UNCHANGED todo /\ \A e \in Distributors : dpc[e] = "visit" => dpc'[e] = "visit"
      BY <1>0, <1>1, <2>4 DEF DPark, DTake, DExit, TypeOK
    <3> QED
      BY <2>1, <2>2, <3>1, OrderCut
  <2> QED
    BY <2>3, <2>4
<1>2. CASE DFinish(d)
  <2>1. freed' = freed + 1 /\ \A n \in Names : Feed(n)' = Feed(n)
    BY <1>0, <1>2 DEF DFinish, Feed
  <2>2. \A n \in Names : \A i \in 1 .. Len(Feed(n)) : Feed(n)[i] \in Nat
    BY <1>0, FeedType, ElementOfSeq
  <2>3. freed \in Nat
    BY <1>0 DEF TypeOK
  <2>4. \A n \in Names \ mixed : \A i \in 1 .. Len(Feed(n)) : Feed(n)[i] < freed' + 1
    BY <2>1, <2>2, <2>3 DEF OrderInv, FeedBound
  <2>5. \A n \in Names \ mixed : \A i \in 1 .. Len(Feed(n)) : Feed(n)[i] <= freed' + 1 /\ Feed(n)[i] # freed' + 1
    BY <2>1, <2>2, <2>3, <2>4
  <2>6. FeedBound'
    BY <2>1, <2>5 DEF FeedBound
  <2>7. InOrder'
    BY <2>1 DEF OrderInv, InOrder
  <2> QED
    BY <2>6, <2>7
<1>3. ASSUME NEW m \in Names, DDeliver(d, m) PROVE InOrder' /\ FeedBound'
  <2>1. /\ dpc[d] = "visit" /\ m \in todo[d] /\ held[d] = freed + 1 /\ UNCHANGED <<freed, dpc>>
        /\ todo'[d] = todo[d] \ {m} /\ \A e \in Distributors \ {d} : dpc[e] # "visit"
    BY <1>0, <1>3 DEF DDeliver, OrderInv, Conservation, TypeOK, inputVars
  <2>2. \A n \in Names \ {m} : Feed(n)' = Feed(n)
    BY <1>0, <1>3 DEF DDeliver, Feed, TypeOK
  <2>3. Feed(m)' = Feed(m) \/ Feed(m)' = Append(Feed(m), freed + 1)
    <3>1. output'[m] = output[m] \/ output'[m] = Append(output[m], freed + 1)
      BY <1>0, <1>3, <2>1 DEF DDeliver, WithFrame, TypeOK
    <3>2. handed[m] \o Append(output[m], freed + 1) = Append(handed[m] \o output[m], freed + 1)
      <4>1. handed[m] \in Seq(Nat) /\ output[m] \in Seq(Nat) /\ freed + 1 \in Nat
        BY <1>0, FeedType DEF TypeOK
      <4> QED
        BY <4>1, GrowsAtTheEnd
    <3> QED
      BY <1>0, <3>1, <3>2 DEF Feed
  <2>4. Feed(m) \in Seq(Nat) /\ freed \in Nat
    BY <1>0, FeedType DEF TypeOK
  <2>5. m \notin mixed => \A i \in 1 .. Len(Feed(m)) : Feed(m)[i] \in Nat /\ Feed(m)[i] < freed + 1
    <3>1. \A i \in 1 .. Len(Feed(m)) : Feed(m)[i] \in Nat
      BY <2>4, ElementOfSeq
    <3>2. m \notin mixed =>
             \A i \in 1 .. Len(Feed(m)) : Feed(m)[i] <= freed + 1 /\ Feed(m)[i] # freed + 1
      BY <2>1 DEF OrderInv, FeedBound
    <3> QED
      BY <2>4, <3>1, <3>2
  <2>6. m \notin mixed => \A i, j \in 1 .. Len(Feed(m)) : i < j => Feed(m)[i] < Feed(m)[j]
    BY DEF OrderInv, InOrder
  <2>7. ASSUME m \notin mixed
        PROVE  /\ \A i, j \in 1 .. Len(Feed(m)') : i < j => Feed(m)'[i] < Feed(m)'[j]
               /\ \A i \in 1 .. Len(Feed(m)') : Feed(m)'[i] <= freed + 1
    <3>1. CASE Feed(m)' = Feed(m)
      BY <2>4, <2>5, <2>6, <2>7, <3>1
    <3>2. CASE Feed(m)' = Append(Feed(m), freed + 1)
      BY <2>4, <2>5, <2>6, <2>7, <3>2, AppendKeepsOrder
    <3> QED
      BY <2>3, <3>1, <3>2
  <2>8. InOrder'
    BY <2>2, <2>7 DEF OrderInv, InOrder
  <2>9. ASSUME NEW n \in Names \ mixed, NEW i \in 1 .. Len(Feed(n)')
        PROVE  /\ Feed(n)'[i] <= freed + 1
               /\ Feed(n)'[i] = freed + 1 =>
                     \E e \in Distributors : dpc[e] = "visit" /\ n \notin todo'[e]
    <3>1. CASE n = m
      BY <2>1, <2>7, <3>1
    <3>2. CASE n # m
      BY <2>1, <2>2, <3>2 DEF OrderInv, FeedBound
    <3> QED
      BY <3>1, <3>2
  <2> QED
    BY <2>1, <2>8, <2>9 DEF FeedBound
<1> QED
  BY <1>1, <1>2, <1>3 DEF Distribute

LEMMA OrderStep == OrderInv /\ [Next]_vars => OrderInv'
<1> SUFFICES ASSUME OrderInv, [Next]_vars PROVE InOrder' /\ FeedBound'
  BY WorkStep, ConservationStep DEF OrderInv, WorkInv
<1>0. mixed \subseteq mixed' /\ TypeOK
  BY MixStep DEF OrderInv, WorkInv
<1>1. CASE Push \/ Destroy \/ SpuriousWake
  <2>1. /\ UNCHANGED <<freed, todo, output, handed>>
        /\ \A d \in Distributors : dpc[d] = "visit" => dpc'[d] = "visit"
    <3>1. CASE Push \/ Destroy
      BY <1>0, <3>1, WakeUps DEF Push, Destroy, mapVars, consVars
    <3>2. CASE SpuriousWake
      BY <1>0, <3>2, SpuriousWakeUps DEF SpuriousWake, inputVars, mapVars
    <3> QED
      BY <1>1, <3>1, <3>2
  <2>2. \A n \in Names : Feed(n)' = Feed(n)
    BY <2>1 DEF Feed
  <2> QED
    BY <1>0, <2>1, <2>2, OrderCut
<1>2. ASSUME NEW c \in Consumers, Insert(c) \/ Pop(c) \/ Quit(c) PROVE InOrder' /\ FeedBound'
  BY <1>0, <1>2, ConsumersKeepUpstream, ConsumersKeepFeed, OrderCut
     DEF Upstream, inputVars, distVars, OrderInv
<1>3. CASE Remove \/ Fault \/ (\E n \in Names : RemoveBegin(n)) \/ UNCHANGED vars
  BY <1>0, <1>3, OthersKeepUpstream, RemoveThinsFeed, OrderCut DEF Upstream, inputVars, distVars
<1> QED
  BY <1>0, <1>1, <1>2, <1>3, OrderDistribute DEF Next

\* For any number of distributors, consumers and names, pop() hands out the frames
\* of a name in the order the camera pushed them and never twice, whatever
\* insert_event() and remove_event() do meanwhile, as long as no pop() works on the
\* name under another mutex than the one in force, or while it is being drained.
THEOREM DeliveryInOrder == Spec => []InOrder
<1>1. Init => OrderInv
  <2>1. Init => Conservation
    BY DEF Init, Conservation
  <2>2. ASSUME Init, NEW n \in Names PROVE Feed(n) = <<>>
    BY <2>2 DEF Init, Feed
  <2> QED
    BY <2>1, <2>2, WorkInit DEF OrderInv, InOrder, FeedBound
<1>2. OrderInv => InOrder
  BY DEF OrderInv
<1> QED
  BY <1>1, <1>2, OrderStep, PTL DEF Spec
-----------------------------------------------------------------------------
(* No undefined behaviour while subscriptions neither come nor go.  The    *)
(* condition is on the instance: every consumer pops a name that is        *)
(* subscribed before the threads run, at a rate the camera can give, and   *)
(* nobody stops it, leaves it, disables it or ends the process.  Each part *)
(* excludes a fault that the model has: a map changed under a reader, a    *)
(* step of zero, or a queue destroyed under its distributors.              *)

Undisturbed ==
    /\ ~MayExit /\ Stoppable = {} /\ Streams = {} /\ Disabled = {}
    /\ \A c \in Consumers :
        /\ StepOf(NameOf[c]) # 0
        /\ \E e \in Subscribed : NameOf[e] = NameOf[c]

\* A consumer is never beyond the loop of pop(), and the mutex it takes is that of
\* the subscription in force: nobody else can take the frame that it has seen, though
\* several pop the same name.
Popping(c) ==
    /\ thread_info[NameOf[c]] # NoOne /\ NameOf[c] \in queues
    /\ cpc[c] \in {"new", "ready", "find", "lock", "parked"} \/ AtWork(c)
    /\ cpc[c] \in {"lock", "parked"} \/ AtWork(c) => at[c] = thread_info[NameOf[c]]

SteadyInv ==
    /\ enabled /\ ~crashed /\ rmStage = "idle" /\ infoOwner \notin Consumers
    /\ \A c \in Consumers : isRun[c] /\ Popping(c)
    /\ \A n \in Names : thread_info[n] # NoOne \/ n \in queues
                            => \E c \in Consumers : NameOf[c] = n

\* Nor is any name ever mixed then.
Steady == SteadyInv /\ mixed = {}

LEMMA SteadyInit == ASSUME Undisturbed, Init PROVE Steady
<1> USE ThreadAssumption
<1>1. ASSUME NEW c \in Consumers PROVE isRun[c] /\ Popping(c)
  <2>1. isRun[c]
    BY DEF Undisturbed, Init
  <2>2. PICK e \in Subscribed : NameOf[e] = NameOf[c]
    BY DEF Undisturbed
  <2>3. thread_info[NameOf[c]] \in Subscribed
    BY <2>2 DEF Init
  <2>4. thread_info[NameOf[c]] # NoOne
    BY <2>3
  <2>5. NameOf[c] \in queues
    BY <2>2 DEF Init
  <2>6. cpc[c] \in {"ready", "new"}
    BY DEF Init
  <2>. QED
    BY <2>1, <2>4, <2>5, <2>6 DEF Popping, AtWork
<1>2. ASSUME NEW n \in Names, thread_info[n] # NoOne \/ n \in queues
      PROVE  \E c \in Consumers : NameOf[c] = n
  BY <1>2 DEF Init
<1>3. enabled /\ ~crashed /\ rmStage = "idle" /\ infoOwner = NoOne /\ mixed = {}
  BY DEF Init
<1>. QED
  BY <1>1, <1>2, <1>3 DEF SteadyInv, Steady

LEMMA NotContended == ASSUME SteadyInv, NEW n \in Names PROVE ~Contended(n)
  BY DEF SteadyInv, Popping, Contended, Draining

LEMMA SteadyIsSound == ASSUME Undisturbed, WorkInv, Steady PROVE Sound
<1>1. ~MapRace
  BY DEF MapRace, Unlinking, Steady, SteadyInv, Popping, AtWork
<1>2. ~QueueRace
  <2>1. ASSUME NEW c \in Consumers, cpc[c] \in {"front", "drop"} PROVE output[NameOf[c]] # <<>>
    BY <2>1 DEF WorkInv, SeenInv, Seen, Steady
  <2>. QED
    BY <2>1, NotContended DEF QueueRace, Steady
<1>3. ~DivisionByZero
  BY DEF DivisionByZero, Steady, SteadyInv, Popping, AtWork, Undisturbed
<1>. QED
  BY <1>1, <1>2, <1>3 DEF Sound, UseAfterDestroy, Steady, SteadyInv

\* A step that leaves the subscriptions alone and moves a consumer at most from its
\* sleep to the mutex.
LEMMA SteadyKept ==
  ASSUME SteadyInv,
         UNCHANGED <<enabled, crashed, rmStage, thread_info, queues, isRun, at>>,
         infoOwner' \notin Consumers, \A c \in Consumers : Woken(c)
  PROVE  SteadyInv'
<1>1. ASSUME NEW c \in Consumers PROVE Popping(c)'
  BY DEF SteadyInv, Popping, Woken, AtWork
<1>. QED
  BY <1>1 DEF SteadyInv

LEMMA SteadyDistribute ==
  ASSUME TypeOK, SteadyInv, NEW d \in Distributors, Distribute(d) PROVE SteadyInv'
<1>1. UNCHANGED <<crashed, rmStage, isRun, at>>
  BY DEF Distribute, itemVars, rmVars
<1>2. UNCHANGED <<enabled, thread_info, queues>>
  BY DEF Distribute, DPark, DTake, DLockInfo, DFinish, DExit, DDeliver, inputVars, mapVars
<1>3. infoOwner' \notin Consumers
  BY ThreadAssumption
     DEF Distribute, DPark, DTake, DLockInfo, DFinish, DExit, DDeliver, inputVars, mapVars, SteadyInv
<1>. QED
  BY <1>1, <1>2, <1>3, OthersKeepConsumers, SteadyKept

\* One consumer moves, and the others keep what they have.
LEMMA SteadyPop ==
  ASSUME Undisturbed, WorkInv, Steady, NEW c \in Consumers, Insert(c) \/ Pop(c) \/ Quit(c)
  PROVE  SteadyInv'
<1>. DEFINE n == NameOf[c]
<1>0. TypeOK /\ n \in Names /\ SteadyInv
  BY ThreadAssumption DEF WorkInv, Steady
<1>1. /\ thread_info[n] \in Consumers /\ isRun[thread_info[n]] /\ n \in queues
      /\ Running(n) /\ ~Stopped(n)
  BY <1>0 DEF SteadyInv, Popping, TypeOK, Running, Stopped
<1>2. /\ cpc[c] \notin {"inserting", "erase"} /\ n \notin Streams /\ Popping(c)
      /\ thread_info[n] # NoOne
  BY <1>0 DEF SteadyInv, Popping, AtWork, Undisturbed
<1>3. ~InsertLock(c) /\ ~InsertCommit(c) /\ ~Quit(c) /\ ~PopErase(c)
  BY <1>2 DEF InsertLock, InsertCommit, Quit, Leave, PopErase
<1>4. ~PopFault(c)
  BY <1>1, <1>2 DEF PopFault
<1>5. \/ InsertRefused(c) /\ UNCHANGED <<inputVars, itemVars, at, rmVars, crashed>>
      \/ /\ PopCheck(c) \/ PopFind(c) \/ PopLock(c) \/ PopTest(c) \/ PopSleep(c) \/ PopAwake(c)
            \/ PopFront(c) \/ PopDrop(c)
         /\ UNCHANGED <<inputVars, queues, infoOwner, isRun, rmVars>>
  BY <1>3, <1>4 DEF Insert, Pop, PopSteps
<1>6. UNCHANGED <<enabled, rmStage, isRun, infoOwner, thread_info, queues, crashed>>
  BY <1>5 DEF InsertRefused, PopCheck, PopFind, PopLock, PopTest, PopSleep, PopAwake, PopFront, PopDrop,
              inputVars, itemVars, mapVars, rmVars
<1>7. ASSUME NEW e \in Consumers \ {c} PROVE Popping(e)'
  <2>1. cpc'[e] = cpc[e] /\ at'[e] = at[e]
    BY <1>0, ConsumersKeepOthers
  <2>2. Popping(e)
    BY <1>0 DEF SteadyInv
  <2>. QED
    BY <1>6, <2>1, <2>2 DEF Popping, AtWork
<1>8. Popping(c)'
  <2>1. ASSUME cpc'[c] \in {"ready", "find"} PROVE Popping(c)'
    BY <1>1, <1>2, <1>6, <2>1 DEF Popping, AtWork
  <2>2. ASSUME cpc'[c] = "parked" \/ AtWork(c)', at'[c] = at[c], cpc[c] = "lock" \/ AtWork(c)
        PROVE  Popping(c)'
    BY <1>1, <1>2, <1>6, <2>2 DEF Popping, AtWork
  <2>3. CASE InsertRefused(c) \/ PopCheck(c) \/ PopDrop(c)
    <3>1. cpc'[c] \in {"ready", "find"}
      BY <1>0, <1>1, <1>2, <2>3 DEF InsertRefused, PopCheck, PopDrop, PopReturns, TypeOK
    <3>. QED
      BY <2>1, <3>1
  <2>4. CASE PopFind(c)
    BY <1>0, <1>1, <1>2, <1>6, <2>4 DEF PopFind, Popping, AtWork, TypeOK
  <2>5. CASE PopLock(c) \/ PopTest(c) \/ PopSleep(c) \/ PopFront(c)
    BY <1>0, <2>2, <2>5 DEF PopLock, PopTest, PopSleep, PopFront, AtWork, TypeOK
  <2>6. CASE PopAwake(c)
    BY <1>0, <1>1, <2>2, <2>6 DEF PopAwake, AtWork, TypeOK
  <2>. QED
    BY <1>5, <2>3, <2>4, <2>5, <2>6
<1>. QED
  BY <1>0, <1>6, <1>7, <1>8 DEF SteadyInv

\* A consumer that waits, with the others, for a frame of a subscription that lasts
\* meets no race, no stale mutex, no empty queue and no division by zero: for any
\* number of distributors, names and consumers of a name, distribute_buffer() and
\* pop() are sound as long as subscriptions neither come nor go.
THEOREM LastingSubscriptionsAreSound == ASSUME Undisturbed PROVE Spec => []Sound
<1>1. WorkInv /\ Steady /\ [Next]_vars => Steady'
  <2>. SUFFICES ASSUME WorkInv, Steady, [Next]_vars PROVE Steady'
    OBVIOUS
  <2>0. TypeOK /\ SteadyInv
    BY DEF WorkInv, Steady
  <2>1. ASSUME Push \/ SpuriousWake \/ UNCHANGED vars PROVE SteadyInv'
    <3>1. UNCHANGED <<enabled, crashed, rmStage, infoOwner, thread_info, queues, isRun, at>>
      BY <2>1 DEF Push, SpuriousWake, vars, inputVars, mapVars, itemVars, consVars, rmVars
    <3>. QED
      BY <2>0, <2>1, <3>1, SteadyKept, OthersKeepConsumers DEF SteadyInv
  <2>2. ~Destroy /\ ~Remove
    BY DEF Destroy, Undisturbed, Remove, RemoveSteps, RemoveTouch, RemoveFront, RemoveDrop, RemoveQueue,
           RemoveStop, RemoveErase, Steady, SteadyInv
  <2>3. ~Fault
    BY SteadyIsSound DEF Fault, Sound
  <2>4. ASSUME NEW n \in Names PROVE ~RemoveBegin(n)
    BY <2>0 DEF RemoveBegin, RemoveLock, MayRemove, SteadyInv, Popping, AtWork, Undisturbed
  <2>5. SteadyInv'
    BY <2>0, <2>1, <2>2, <2>3, <2>4, SteadyDistribute, SteadyPop DEF Next
  <2>6. ASSUME NEW n \in Names PROVE ~Contended(n)'
    BY <2>5 DEF SteadyInv, Popping, Contended, Draining
  <2>7. mixed' = {}
    BY <2>6 DEF Next, Mix, vars, Steady
  <2>. QED
    BY <2>5, <2>7 DEF Steady
<1>2. WorkInv /\ Steady => Sound
  BY SteadyIsSound
<1>. QED
  BY <1>1, <1>2, SteadyInit, WorkInit, WorkStep, PTL DEF Spec
=============================================================================
