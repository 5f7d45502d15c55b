------------------------- MODULE EventProgramsProofs -------------------------
(***************************************************************************)
(* The threads of the programs, for any number of programs, requests,      *)
(* threads and addresses.  Stopping one program spares the others: as long *)
(* as no name is stopped twice, an entry of _event_thread that is going to *)
(* be used is not stale.  Whatever is stopped, the process dies only of    *)
(* the causes that CrashExplained names.  As long as a name has had one    *)
(* ThreadInfo, a frame is run once at most and every frame from the first  *)
(* on is given to the program.                                             *)
(***************************************************************************)
EXTENDS EventPrograms, FiniteSetTheorems, TLAPS

Places == {"idle", "emplace", "lookup", "delete"}
ThreadPlaces == {"none", "begin", "loop", "test", "parked", "exec", "ended"}
Processor == [name : AllNames, rate : Rates, enable : {"on", "off"},
              loaded : BOOLEAN, live : BOOLEAN]
Ask == [what : {"start", "stop"}, name : AllNames]

\* The types of what the argument is about, and that a pointer to a processor in
\* use points to one.
Shape ==
    /\ dir \in [AllNames -> Directory] /\ objects \in [Addresses -> Processor]
    /\ event_thread \in [AllNames -> Nat] /\ stops \in [AllNames -> Nat]
    /\ asked \in [Requests -> Ask] /\ name \in [Callers -> AllNames]
    /\ place \in [Callers -> Places] /\ ptr \in [Callers -> Nat] /\ toStart \subseteq Names
    /\ self \in [Threads -> Nat] /\ arg \in [Threads -> AllNames] /\ tpc \in [Threads -> ThreadPlaces]
    /\ \A c \in Callers : place[c] = "emplace" => ptr[c] \in Addresses
    /\ \A t \in Threads : tpc[t] # "none" => self[t] \in Addresses

IsProgram(p, n) == p \in Addresses /\ objects[p].live /\ objects[p].name = n
Stopping(r) == place[r] \in {"lookup", "delete"}
Once == \A n \in AllNames : stops[n] <= 1

\* What a caller is about to enter in the map is the program of its name.
Made == \A c \in Callers : place[c] = "emplace" => IsProgram(ptr[c], name[c])

\* So is an entry of the map until its name is stopped, and then until it is deleted.
Entries ==
    /\ \A n \in AllNames : event_thread[n] # 0 /\ stops[n] = 0 => IsProgram(event_thread[n], n)
    /\ \A r \in Requests : place[r] = "lookup" /\ event_thread[name[r]] # 0
                                => IsProgram(event_thread[name[r]], name[r])
    /\ \A r \in Requests : place[r] = "delete" => IsProgram(ptr[r], name[r])

\* A name is being stopped by one request at most.
OneStopper ==
    /\ \A r \in Requests : Stopping(r) => stops[name[r]] = 1
    /\ \A r, q \in Requests : Stopping(r) /\ Stopping(q) /\ name[r] = name[q] => r = q

\* What a caller is about to enter in the map nobody else can reach.
Apart ==
    \A c \in Callers : place[c] = "emplace" =>
        /\ \A n \in AllNames : stops[n] = 0 => event_thread[n] # ptr[c]
        /\ \A r \in Requests : place[r] = "lookup" => event_thread[name[r]] # ptr[c]
        /\ \A r \in Requests : place[r] = "delete" => ptr[r] # ptr[c]
        /\ \A d \in Callers : place[d] = "emplace" /\ ptr[d] = ptr[c] => d = c

\* A thread's processor is deleted only if its name was stopped, and as long as the
\* name the thread goes by was not, it is the program of that name.
Threading ==
    \A t \in Threads : tpc[t] # "none" =>
        /\ ~objects[self[t]].live => stops[objects[self[t]].name] # 0
        /\ tpc[t] # "ended" /\ stops[arg[t]] = 0 => IsProgram(self[t], arg[t])

Safe == Made /\ Entries /\ OneStopper /\ Apart /\ Threading

OnceInv == Shape /\ (Once => Safe)

LEMMA InitHolds == Init => OnceInv
<1>. SUFFICES ASSUME Init PROVE Shape /\ Safe
  BY DEF OnceInv
<1>1. Gone \in Directory /\ Blank \in Processor /\ OnDisk \subseteq Directory
  BY ProgramAssumption DEF Gone, Blank, Directory, Processor, Rates, AllNames
<1>2. asked \in [Requests -> Ask]
  BY ProgramAssumption DEF Init, Ask, AllNames
<1>3. dir \in [AllNames -> Directory] /\ objects \in [Addresses -> Processor]
  BY <1>1 DEF Init
<1>4. toStart \subseteq Names /\ NoName \in AllNames
  BY ProgramAssumption DEF Init, AllNames
<1>5. Shape
  BY <1>2, <1>3, <1>4 DEF Init, Shape, Places, ThreadPlaces
<1>6. Safe
  BY DEF Init, Safe, Made, Entries, OneStopper, Apart, Threading, Stopping, Callers
<1>. QED
  BY <1>5, <1>6

-----------------------------------------------------------------------------
(* Steps that leave the processors, the map and the callers alone.         *)

Still == UNCHANGED <<objects, event_thread, stops, asked, name, place, ptr, toStart, self>>

LEMMA QuietStep ==
  ASSUME OnceInv, Still, arg' = arg, dir' \in [AllNames -> Directory],
         tpc' \in [Threads -> ThreadPlaces],
         \A t \in Threads : (tpc'[t] = "none" <=> tpc[t] = "none")
                            /\ (tpc[t] = "ended" => tpc'[t] = "ended")
  PROVE  OnceInv'
<1>1. Shape'
  BY DEF OnceInv, Shape, Still
<1>2. ASSUME Once' PROVE Safe'
  <2>1. Once /\ Safe
    BY <1>2 DEF OnceInv, Once, Still
  <2>2. Made' /\ Entries' /\ OneStopper' /\ Apart'
    BY <2>1 DEF Safe, Made, Entries, OneStopper, Apart, Stopping, IsProgram, Still
  <2>3. Threading'
    BY <2>1 DEF Safe, Threading, IsProgram, Still
  <2>. QED
    BY <2>2, <2>3 DEF Safe
<1>. QED
  BY <1>1, <1>2 DEF OnceInv

LEMMA UploadStep ==
  ASSUME OnceInv, NEW n \in Uploaded, Upload(n) PROVE OnceInv'
<1>1. n \in AllNames /\ Gone \in Directory
  BY ProgramAssumption DEF AllNames, Gone, Directory
<1>2. dir' \in [AllNames -> Directory]
  <2>1. dir \in [AllNames -> Directory]
    BY DEF OnceInv, Shape
  <2>2. CASE UploadClear(n)
    <3>1. Remains(dir[n]) \subseteq Directory
      BY <1>1, <2>1 DEF Remains, Directory
    <3>2. \E d \in Directory : dir' = [dir EXCEPT ![n] = d]
      BY <1>1, <2>2, <3>1 DEF UploadClear
    <3>. QED
      BY <1>1, <2>1, <3>2
  <2>3. CASE UploadRate(n)
    BY <1>1, <2>1, <2>3, ProgramAssumption DEF UploadRate, Directory
  <2>4. CASE UploadEnable(n)
    BY <1>1, <2>1, <2>4 DEF UploadEnable, Directory
  <2>5. CASE UploadFails(n)
    BY <1>1, <2>1, <2>5 DEF UploadFails
  <2>. QED
    BY <2>2, <2>3, <2>4, <2>5 DEF Upload
<1>3. Still /\ arg' = arg /\ tpc' = tpc
  BY DEF Upload, Still, callVars, threadVars
<1>. QED
  BY <1>2, <1>3, QuietStep DEF OnceInv, Shape

LEMMA PushStep ==
  ASSUME OnceInv, Push PROVE OnceInv'
<1>1. Still /\ arg' = arg /\ dir' = dir
  BY DEF Push, Still, callVars, dirVars
<1>2. \A t \in Threads : tpc'[t] = tpc[t] \/ (tpc[t] = "parked" /\ tpc'[t] = "test")
  BY DEF Push, Sleepers
<1>3. tpc' \in [Threads -> ThreadPlaces]
  BY DEF Push, OnceInv, Shape, ThreadPlaces
<1>. QED
  BY <1>1, <1>2, <1>3, QuietStep DEF OnceInv, Shape

LEMMA WakeStep ==
  ASSUME OnceInv, NEW t \in Threads, SpuriousWake(t) PROVE OnceInv'
<1>1. Still /\ arg' = arg /\ dir' = dir
  BY DEF SpuriousWake, Still, callVars, dirVars
<1>2. tpc[t] = "parked" /\ tpc' = [tpc EXCEPT ![t] = "test"] /\ tpc \in [Threads -> ThreadPlaces]
  BY DEF SpuriousWake, OnceInv, Shape
<1>. QED
  BY <1>1, <1>2, QuietStep DEF OnceInv, Shape, ThreadPlaces

-----------------------------------------------------------------------------
(* A thread moves from one of its places to another; only at the start of  *)
(* pop() does it take another name, that of its processor.                 *)

LEMMA LoopStep ==
  ASSUME OnceInv, NEW t \in Threads, Loop(t) PROVE OnceInv'
<1>1. Still /\ dir' = dir
  BY DEF Loop, Still, callVars, dirVars
<1>2. tpc \in [Threads -> ThreadPlaces] /\ dir \in [AllNames -> Directory]
  BY DEF OnceInv, Shape
<1>3. CASE PopCheck(t)
  <2>1. /\ tpc[t] = "loop" /\ arg' = [arg EXCEPT ![t] = objects[self[t]].name]
        /\ \E p \in {"ended", "test"} : tpc' = [tpc EXCEPT ![t] = p]
    BY <1>3 DEF PopCheck, This
  <2>2. objects[self[t]].name \in AllNames
    BY <2>1 DEF OnceInv, Shape, Processor
  <2>3. tpc' \in [Threads -> ThreadPlaces] /\ tpc'[t] # "none"
    BY <1>2, <2>1 DEF ThreadPlaces
  <2>4. \A u \in Threads \ {t} : tpc'[u] = tpc[u] /\ arg'[u] = arg[u]
    BY <1>2, <2>1 DEF OnceInv, Shape
  <2>5. arg'[t] = objects[self[t]].name
    BY <2>1 DEF OnceInv, Shape
  <2>6. Shape'
    BY <1>1, <1>2, <2>1, <2>2, <2>3, <2>4 DEF OnceInv, Shape, Still
  <2>7. ASSUME Once' PROVE Safe'
    <3>1. Once /\ Safe
      BY <1>1, <2>7 DEF OnceInv, Once, Still
    <3>2. Made' /\ Entries' /\ OneStopper' /\ Apart'
      BY <1>1, <3>1 DEF Safe, Made, Entries, OneStopper, Apart, Stopping, IsProgram, Still
    <3>3. ASSUME NEW u \in Threads, tpc'[u] # "none"
          PROVE  /\ ~objects[self[u]].live => stops[objects[self[u]].name] # 0
                 /\ tpc'[u] # "ended" /\ stops[arg'[u]] = 0 => IsProgram(self[u], arg'[u])
      <4>1. CASE u = t
        BY <2>1, <2>5, <3>1, <4>1 DEF Safe, Threading, IsProgram, OnceInv, Shape
      <4>2. CASE u # t
        BY <2>4, <3>1, <3>3, <4>2 DEF Safe, Threading
      <4>. QED
        BY <4>1, <4>2
    <3>4. Threading'
      BY <1>1, <3>3 DEF Threading, IsProgram, Still
    <3>. QED
      BY <3>2, <3>4 DEF Safe
  <2>. QED
    BY <2>6, <2>7 DEF OnceInv
<1>4. CASE ~PopCheck(t)
  <2>1. arg' = arg
    BY <1>4 DEF Loop, Begin, Exec, Fault
  <2>2. \/ tpc' = tpc
        \/ /\ tpc[t] \in {"begin", "test", "exec"}
           /\ \E p \in {"loop", "ended", "exec", "parked"} : tpc' = [tpc EXCEPT ![t] = p]
    BY <1>4 DEF Loop, Begin, Exec, Fault, PopTest, PopStopped, PopTake, PopPark
  <2>3. tpc' \in [Threads -> ThreadPlaces]
    BY <1>2, <2>2 DEF ThreadPlaces
  <2>4. \A u \in Threads : (tpc'[u] = "none" <=> tpc[u] = "none")
                           /\ (tpc[u] = "ended" => tpc'[u] = "ended")
    BY <1>2, <2>2
  <2>. QED
    BY <1>1, <1>2, <2>1, <2>3, <2>4, QuietStep
<1>. QED
  BY <1>3, <1>4

-----------------------------------------------------------------------------
(* A new processor takes memory that no entry in use points to.            *)

LEMMA ConstructStep ==
  ASSUME OnceInv, NEW c \in Callers, place[c] = "idle", Construct(c),
         NEW n \in AllNames, name' = [name EXCEPT ![c] = n], toStart' \subseteq Names,
         UNCHANGED <<dirVars, asked, threadVars>>
  PROVE  OnceInv'
<1>1. UNCHANGED <<dir, asked, event_thread, stops, self, tpc, arg>>
  BY DEF Construct, dirVars, threadVars
<1>2. PICK a \in Addresses, p \in Processor :
        /\ ~objects[a].live /\ p.live /\ p.name = n
        /\ objects' = [objects EXCEPT ![a] = p] /\ ptr' = [ptr EXCEPT ![c] = a]
  <2>1. name'[c] = n /\ dir[n] \in Directory
    BY DEF OnceInv, Shape
  <2>2. PICK a \in Free, r \in IF dir[n].rate = "none" THEN Rates ELSE {dir[n].rate},
             e \in IF dir[n].enable = "none" THEN {"on", "off"} ELSE {Enabled(dir[n].enable)} :
             /\ objects' = [objects EXCEPT ![a] = [name |-> n, rate |-> r, enable |-> e,
                                                  loaded |-> dir[n].so, live |-> TRUE]]
             /\ ptr' = [ptr EXCEPT ![c] = a]
    BY <2>1 DEF Construct
  <2>3. r \in Rates /\ e \in {"on", "off"} /\ dir[n].so \in BOOLEAN
    BY <2>1, <2>2 DEF Directory, Enabled
  <2>. DEFINE p == [name |-> n, rate |-> r, enable |-> e, loaded |-> dir[n].so, live |-> TRUE]
  <2>4. p \in Processor /\ p.live /\ p.name = n
    BY <2>3 DEF Processor
  <2>5. a \in Addresses /\ ~objects[a].live
    BY DEF Free
  <2>6. objects' = [objects EXCEPT ![a] = p] /\ ptr' = [ptr EXCEPT ![c] = a]
    BY <2>2
  <2>. HIDE DEF p
  <2>. QED
    BY <2>4, <2>5, <2>6
<1>3. place' = [place EXCEPT ![c] = "emplace"]
  BY DEF Construct, Goto
<1>4. Shape'
  <2>1. objects' \in [Addresses -> Processor] /\ ptr' \in [Callers -> Nat]
    BY <1>2 DEF OnceInv, Shape, Addresses
  <2>2. place' \in [Callers -> Places] /\ name' \in [Callers -> AllNames]
    BY <1>3 DEF OnceInv, Shape, Places
  <2>3. \A d \in Callers : place'[d] = "emplace" => ptr'[d] \in Addresses
    BY <1>2, <1>3 DEF OnceInv, Shape
  <2>4. toStart' \subseteq Names
    OBVIOUS
  <2>. QED
    BY <1>1, <2>1, <2>2, <2>3, <2>4 DEF OnceInv, Shape
<1>5. /\ name'[c] = n /\ place'[c] = "emplace" /\ ptr'[c] = a
      /\ \A d \in Callers \ {c} : name'[d] = name[d] /\ place'[d] = place[d] /\ ptr'[d] = ptr[d]
      /\ objects'[a].live /\ objects'[a].name = n
      /\ \A b \in Addresses \ {a} : objects'[b] = objects[b]
  BY <1>2, <1>3 DEF OnceInv, Shape
<1>6. ASSUME Once' PROVE Safe'
  <2>1. Safe
    BY <1>1, <1>6 DEF OnceInv, Once
  <2>2. ASSUME NEW b, NEW m, IsProgram(b, m) PROVE b # a /\ IsProgram(b, m)'
    BY <1>2, <1>5, <2>2 DEF IsProgram
  <2>3. \A d \in Callers \ {c} : place'[d] = "emplace" => IsProgram(ptr[d], name[d])
    BY <1>5, <2>1 DEF Safe, Made
  <2>4. \A r \in Requests : r \in Callers /\ (place'[r] \in {"lookup", "delete"} => r # c)
    BY <1>5 DEF Callers
  <2>5. Made'
    BY <1>5, <2>2, <2>3 DEF Made, IsProgram
  <2>6. Entries'
    BY <1>1, <1>5, <2>1, <2>2, <2>4 DEF Safe, Entries
  <2>7. OneStopper'
    BY <1>1, <1>5, <2>1, <2>4 DEF Safe, OneStopper, Stopping
  <2>8. Apart'
    <3>1. a # 0
      BY DEF Addresses
    <3>2. ASSUME NEW d \in Callers, place'[d] = "emplace"
          PROVE  /\ \A m \in AllNames : stops[m] = 0 => event_thread[m] # ptr'[d]
                 /\ \A r \in Requests : place'[r] = "lookup" => event_thread[name'[r]] # ptr'[d]
                 /\ \A r \in Requests : place'[r] = "delete" => ptr'[r] # ptr'[d]
                 /\ \A e \in Callers : place'[e] = "emplace" /\ ptr'[e] = ptr'[d] => e = d
      <4>1. CASE d = c
        BY <1>5, <2>1, <2>2, <2>3, <2>4, <3>1, <4>1 DEF Safe, Entries
      <4>2. CASE d # c
        BY <1>5, <2>1, <2>2, <2>3, <2>4, <3>2, <4>2 DEF Safe, Apart
      <4>. QED
        BY <4>1, <4>2
    <3>. QED
      BY <1>1, <3>2 DEF Apart
  <2>9. Threading'
    <3>1. ASSUME NEW t \in Threads, tpc[t] # "none"
          PROVE  /\ ~objects'[self[t]].live => stops[objects'[self[t]].name] # 0
                 /\ tpc[t] # "ended" /\ stops[arg[t]] = 0 => IsProgram(self[t], arg[t])'
      <4>1. self[t] \in Addresses
        BY <3>1 DEF OnceInv, Shape
      <4>2. tpc[t] # "ended" /\ stops[arg[t]] = 0 => IsProgram(self[t], arg[t])'
        BY <1>1, <2>1, <2>2, <3>1 DEF Safe, Threading, IsProgram
      <4>. QED
        BY <1>5, <2>1, <3>1, <4>1, <4>2 DEF Safe, Threading
    <3>. QED
      BY <1>1, <3>1 DEF Threading
  <2>. QED
    BY <2>5, <2>6, <2>7, <2>8, <2>9 DEF Safe
<1>. QED
  BY <1>4, <1>6 DEF OnceInv

\* It is entered in the map, and a thread begins to use it.
LEMMA EmplaceStep ==
  ASSUME OnceInv, NEW c \in Callers, Emplace(c) PROVE OnceInv'
<1>. DEFINE t == Cardinality(Started) + 1
            n == name[c]
<1>1. /\ UNCHANGED <<dir, objects, asked, name, toStart, stops>>
      /\ place[c] = "emplace" /\ place' = [place EXCEPT ![c] = "idle"]
      /\ ptr' = [ptr EXCEPT ![c] = 0]
      /\ \/ event_thread' = [event_thread EXCEPT ![n] = IF @ = 0 THEN ptr[c] ELSE @]
         \/ event_thread' = event_thread
      /\ self' = [self EXCEPT ![t] = ptr[c]] /\ arg' = [arg EXCEPT ![t] = n]
      /\ tpc' = [tpc EXCEPT ![t] = "begin"]
  BY DEF Emplace, Emplaced, Goto, dirVars
<1>2. n \in AllNames /\ ptr[c] \in Addresses /\ ptr[c] \in Nat /\ ptr[c] # 0
  BY <1>1 DEF OnceInv, Shape, Addresses
<1>3. /\ self' \in [Threads -> Nat] /\ arg' \in [Threads -> AllNames]
      /\ tpc' \in [Threads -> ThreadPlaces]
      /\ \A u \in Threads : u = t => self'[u] = ptr[c] /\ arg'[u] = n
      /\ \A u \in Threads : u # t => self'[u] = self[u] /\ arg'[u] = arg[u] /\ tpc'[u] = tpc[u]
  <2>. HIDE DEF t
  <2>. QED
    BY <1>1, <1>2 DEF OnceInv, Shape, ThreadPlaces
<1>. HIDE DEF t
<1>4. /\ event_thread' \in [AllNames -> Nat]
      /\ \A m \in AllNames : \/ event_thread'[m] = event_thread[m]
                             \/ m = n /\ event_thread[m] = 0 /\ event_thread'[m] = ptr[c]
  BY <1>1, <1>2 DEF OnceInv, Shape
<1>5. /\ place'[c] = "idle"
      /\ \A d \in Callers \ {c} : place'[d] = place[d] /\ ptr'[d] = ptr[d]
      /\ place' \in [Callers -> Places] /\ ptr' \in [Callers -> Nat]
  BY <1>1 DEF OnceInv, Shape, Places
<1>6. Shape'
  BY <1>1, <1>2, <1>3, <1>4, <1>5 DEF OnceInv, Shape
<1>7. ASSUME Once' PROVE Safe'
  <2>1. Safe
    BY <1>1, <1>7 DEF OnceInv, Once
  <2>2. IsProgram(ptr[c], n)
    BY <1>1, <2>1 DEF Safe, Made
  <2>3. Requests \subseteq Callers /\ \A r \in Requests : name[r] \in AllNames
    BY DEF Callers, OnceInv, Shape
  <2>4. Made'
    BY <1>1, <1>5, <2>1 DEF Safe, Made, IsProgram
  <2>5. Entries'
    BY <1>1, <1>4, <1>5, <2>1, <2>2, <2>3 DEF Safe, Entries, IsProgram
  <2>6. OneStopper'
    BY <1>1, <1>5, <2>1, <2>3 DEF Safe, OneStopper, Stopping
  <2>7. Apart'
    BY <1>1, <1>4, <1>5, <2>1, <2>3 DEF Safe, Apart
  <2>8. Threading'
    BY <1>1, <1>3, <2>1, <2>2 DEF Safe, Threading, IsProgram
  <2>. QED
    BY <2>4, <2>5, <2>6, <2>7, <2>8 DEF Safe
<1>. QED
  BY <1>6, <1>7 DEF OnceInv

-----------------------------------------------------------------------------
(* The three steps of stop_event(): it is announced, ...                   *)

LEMMA RemoveStep ==
  ASSUME OnceInv, NEW r \in Requests, place[r] = "idle", RemoveEvent(r),
         name' = [name EXCEPT ![r] = asked[r].name],
         UNCHANGED <<dirVars, asked, toStart, threadVars>>
  PROVE  OnceInv'
<1>. DEFINE n == asked[r].name
<1>1. /\ UNCHANGED <<dir, asked, toStart, self, tpc, arg, ptr, objects, event_thread>>
      /\ place' = [place EXCEPT ![r] = "lookup"]
  BY DEF RemoveEvent, Goto, dirVars, threadVars
<1>2. r \in Callers /\ n \in AllNames /\ Requests \subseteq Callers
  BY DEF OnceInv, Shape, Ask, Callers
<1>3. name'[r] = n /\ stops' = [stops EXCEPT ![n] = @ + 1]
  BY <1>2 DEF OnceInv, Shape, RemoveEvent
<1>4. stops \in [AllNames -> Nat]
  BY DEF OnceInv, Shape
<1>. HIDE DEF n
<1>5. /\ stops' \in [AllNames -> Nat] /\ stops'[n] = stops[n] + 1
      /\ \A m \in AllNames \ {n} : stops'[m] = stops[m]
  BY <1>2, <1>3, <1>4
<1>6. /\ place'[r] = "lookup"
      /\ \A d \in Callers \ {r} : name'[d] = name[d] /\ place'[d] = place[d]
      /\ place' \in [Callers -> Places] /\ name' \in [Callers -> AllNames]
  BY <1>1, <1>2 DEF OnceInv, Shape, Places, n
<1>7. Shape'
  BY <1>1, <1>5, <1>6 DEF OnceInv, Shape
<1>8. ASSUME Once' PROVE Safe'
  <2>1. stops[n] = 0 /\ stops'[n] = 1 /\ \A m \in AllNames : stops'[m] = 0 => stops[m] = 0 /\ m # n
    BY <1>2, <1>4, <1>5, <1>8 DEF Once
  <2>2. Once
    BY <1>4, <1>5, <1>8, <2>1 DEF Once
  <2>3. Safe
    BY <2>2 DEF OnceInv
  <2>4. event_thread[n] # 0 => IsProgram(event_thread[n], n)
    BY <1>2, <2>1, <2>3 DEF Safe, Entries
  <2>5. \A q \in Requests : q # r /\ Stopping(q) => name[q] \in AllNames \ {n}
    BY <1>2, <2>1, <2>3 DEF Safe, OneStopper, OnceInv, Shape
  <2>6. Made'
    BY <1>1, <1>6, <2>3 DEF Safe, Made, IsProgram
  <2>7. Entries'
    BY <1>1, <1>2, <1>3, <1>6, <2>1, <2>3, <2>4 DEF Safe, Entries, IsProgram
  <2>8. OneStopper'
    BY <1>2, <1>3, <1>5, <1>6, <2>1, <2>3, <2>5 DEF Safe, OneStopper, Stopping
  <2>9. Apart'
    BY <1>1, <1>2, <1>3, <1>6, <2>1, <2>3 DEF Safe, Apart
  <2>10. Threading'
    <3>1. ASSUME NEW t \in Threads, tpc[t] # "none"
          PROVE  /\ ~objects[self[t]].live => stops'[objects[self[t]].name] # 0
                 /\ tpc[t] # "ended" /\ stops'[arg[t]] = 0 => IsProgram(self[t], arg[t])
      <4>1. arg[t] \in AllNames /\ objects[self[t]].name \in AllNames
        BY <3>1 DEF OnceInv, Shape, Processor
      <4>. QED
        BY <2>1, <2>3, <3>1, <4>1 DEF Safe, Threading
    <3>. QED
      BY <1>1, <3>1 DEF Threading, IsProgram
  <2>. QED
    BY <2>6, <2>7, <2>8, <2>9, <2>10 DEF Safe
<1>. QED
  BY <1>7, <1>8 DEF OnceInv

\* ... the processor is found, ...
LEMMA LookupStep ==
  ASSUME OnceInv, NEW r \in Requests, Lookup(r) PROVE OnceInv'
<1>. DEFINE e == event_thread[name[r]]
<1>1. /\ UNCHANGED <<dir, objects, asked, name, toStart, event_thread, stops, self, tpc, arg>>
      /\ place[r] = "lookup"
      /\ \/ place' = place /\ ptr' = ptr
         \/ /\ e # 0 /\ ptr' = [ptr EXCEPT ![r] = e] /\ place' = [place EXCEPT ![r] = "delete"]
  BY DEF Lookup, Found, Goto, dirVars, threadVars
<1>2. r \in Callers /\ name[r] \in AllNames /\ e \in Nat /\ Requests \subseteq Callers
  BY DEF OnceInv, Shape, Callers
<1>3. CASE place' = place /\ ptr' = ptr
  BY <1>1, <1>3, QuietStep DEF Still, OnceInv, Shape
<1>4. CASE e # 0 /\ ptr' = [ptr EXCEPT ![r] = e] /\ place' = [place EXCEPT ![r] = "delete"]
  <2>1. /\ place'[r] = "delete" /\ ptr'[r] = e
        /\ \A d \in Callers \ {r} : place'[d] = place[d] /\ ptr'[d] = ptr[d]
        /\ place' \in [Callers -> Places] /\ ptr' \in [Callers -> Nat]
    BY <1>2, <1>4 DEF OnceInv, Shape, Places
  <2>2. Shape'
    BY <1>1, <2>1 DEF OnceInv, Shape
  <2>3. ASSUME Once' PROVE Safe'
    <3>1. Safe
      BY <1>1, <2>3 DEF OnceInv, Once
    <3>2. Made'
      BY <1>1, <2>1, <3>1 DEF Safe, Made, IsProgram
    <3>3. Entries'
      BY <1>1, <1>2, <1>4, <2>1, <3>1 DEF Safe, Entries, IsProgram
    <3>4. OneStopper'
      BY <1>1, <1>2, <2>1, <3>1 DEF Safe, OneStopper, Stopping
    <3>5. Apart'
      BY <1>1, <1>2, <2>1, <3>1 DEF Safe, Apart
    <3>6. Threading'
      BY <1>1, <3>1 DEF Safe, Threading, IsProgram
    <3>. QED
      BY <3>2, <3>3, <3>4, <3>5, <3>6 DEF Safe
  <2>. QED
    BY <2>2, <2>3 DEF OnceInv
<1>. QED
  BY <1>1, <1>3, <1>4

\* ... and deleted: it is the program of the name, and so of no name that is not stopped.
LEMMA DeleteStep ==
  ASSUME OnceInv, NEW r \in Requests, Delete(r) PROVE OnceInv'
<1>. DEFINE p == ptr[r]
            n == name[r]
<1>1. /\ UNCHANGED <<dir, asked, name, toStart, event_thread, stops, self, tpc, arg>>
      /\ place[r] = "delete"
      /\ \/ UNCHANGED <<objects, place, ptr>>
         \/ /\ objects' = [objects EXCEPT ![p].live = FALSE]
            /\ ptr' = [ptr EXCEPT ![r] = 0] /\ place' = [place EXCEPT ![r] = "idle"]
  BY DEF Delete, Goto, dirVars, threadVars
<1>2. r \in Callers /\ n \in AllNames /\ Requests \subseteq Callers
  BY DEF OnceInv, Shape, Callers
<1>. HIDE DEF p, n
<1>3. CASE UNCHANGED <<objects, place, ptr>>
  BY <1>1, <1>3, QuietStep DEF Still, OnceInv, Shape
<1>4. CASE /\ objects' = [objects EXCEPT ![p].live = FALSE]
           /\ ptr' = [ptr EXCEPT ![r] = 0] /\ place' = [place EXCEPT ![r] = "idle"]
  <2>1. /\ place'[r] = "idle"
        /\ \A d \in Callers \ {r} : place'[d] = place[d] /\ ptr'[d] = ptr[d]
        /\ place' \in [Callers -> Places] /\ ptr' \in [Callers -> Nat]
    BY <1>2, <1>4 DEF OnceInv, Shape, Places
  <2>2. /\ objects' \in [Addresses -> Processor]
        /\ \A a \in Addresses : objects'[a].name = objects[a].name
        /\ \A a \in Addresses \ {p} : objects'[a] = objects[a]
    BY <1>4 DEF OnceInv, Shape, Processor
  <2>3. Shape'
    BY <1>1, <2>1, <2>2 DEF OnceInv, Shape
  <2>4. ASSUME Once' PROVE Safe'
    <3>1. Safe
      BY <1>1, <2>4 DEF OnceInv, Once
    <3>2. IsProgram(p, n) /\ stops[n] = 1 /\ p \in Addresses /\ objects[p].name = n
      BY <1>1, <3>1 DEF Safe, Entries, OneStopper, Stopping, IsProgram, p, n
    <3>3. ASSUME NEW a, NEW m, IsProgram(a, m), a # p \/ m # n PROVE a # p /\ IsProgram(a, m)'
      BY <2>2, <3>2, <3>3 DEF IsProgram
    <3>4. \A q \in Requests : Stopping(q) /\ q # r => name[q] # n
      BY <1>1, <3>1 DEF Safe, OneStopper, Stopping, n
    <3>5. Made'
      BY <1>1, <2>1, <3>1, <3>3 DEF Safe, Made, Apart, p
    <3>6. Entries'
      BY <1>1, <1>2, <2>1, <3>1, <3>2, <3>3, <3>4 DEF Safe, Entries, Stopping
    <3>7. OneStopper'
      BY <1>1, <1>2, <2>1, <3>1 DEF Safe, OneStopper, Stopping
    <3>8. Apart'
      BY <1>1, <1>2, <2>1, <3>1 DEF Safe, Apart
    <3>9. Threading'
      <4>1. ASSUME NEW t \in Threads, tpc[t] # "none"
            PROVE  /\ ~objects'[self[t]].live => stops[objects'[self[t]].name] # 0
                   /\ tpc[t] # "ended" /\ stops[arg[t]] = 0 => IsProgram(self[t], arg[t])'
        <5>1. self[t] \in Addresses
          BY <4>1 DEF OnceInv, Shape
        <5>2. ~objects'[self[t]].live => stops[objects'[self[t]].name] # 0
          BY <2>2, <3>1, <3>2, <4>1, <5>1 DEF Safe, Threading
        <5>3. tpc[t] # "ended" /\ stops[arg[t]] = 0 => IsProgram(self[t], arg[t])'
          BY <1>1, <3>1, <3>2, <3>3, <4>1 DEF Safe, Threading, IsProgram
        <5>. QED
          BY <5>2, <5>3
      <4>. QED
        BY <1>1, <4>1 DEF Threading
    <3>. QED
      BY <3>5, <3>6, <3>7, <3>8, <3>9 DEF Safe
  <2>. QED
    BY <2>3, <2>4 DEF OnceInv
<1>. QED
  BY <1>1, <1>3, <1>4

-----------------------------------------------------------------------------

LEMMA NextHolds == OnceInv /\ [Next]_vars => OnceInv'
<1>. SUFFICES ASSUME OnceInv, [Next]_vars PROVE OnceInv'
  OBVIOUS
<1>1. CASE InitNext
  <2>1. Main \in Callers /\ toStart \subseteq Names /\ Names \subseteq AllNames
    BY DEF Callers, OnceInv, Shape, AllNames
  <2>2. PICK n \in toStart : toStart' = toStart \ {n} /\ name' = [name EXCEPT ![Main] = n]
    BY <1>1 DEF InitNext
  <2>3. /\ place[Main] = "idle" /\ Construct(Main)
        /\ UNCHANGED <<dirVars, asked, threadVars>>
    BY <1>1 DEF InitNext
  <2>. QED
    BY <2>1, <2>2, <2>3, ConstructStep
<1>2. ASSUME NEW r \in Requests, FinalCall(r) PROVE OnceInv'
  <2>1. /\ place[r] = "idle" /\ name' = [name EXCEPT ![r] = asked[r].name]
        /\ UNCHANGED <<dirVars, asked, toStart, threadVars>>
        /\ Construct(r) \/ RemoveEvent(r)
    BY <1>2 DEF FinalCall
  <2>2. r \in Callers /\ asked[r].name \in AllNames /\ toStart' \subseteq Names
    BY <2>1 DEF Callers, OnceInv, Shape, Ask
  <2>. QED
    BY <2>1, <2>2, ConstructStep, RemoveStep
<1>3. CASE RaceFault \/ PushFault
  <2>1. Still /\ UNCHANGED <<arg, dir, tpc>>
    BY <1>3 DEF RaceFault, PushFault, Still, dirVars, callVars, threadVars
  <2>. QED
    BY <2>1, QuietStep DEF OnceInv, Shape
<1>4. CASE UNCHANGED vars
  BY <1>4, QuietStep DEF vars, Still, dirVars, callVars, threadVars, OnceInv, Shape
<1>. QED
  BY <1>1, <1>2, <1>3, <1>4, PushStep, UploadStep, EmplaceStep, LookupStep, DeleteStep,
     LoopStep, WakeStep DEF Next

\* As long as no name is stopped twice, the processor that a thread of a program uses
\* is live and the program's own while nobody has asked to stop it: the detached
\* threads of the others survive the delete of stop_event(), whatever the allocator
\* does and however starts, stops, uploads and the races of the map interleave.
THEOREM StopSparesOtherPrograms == Spec => []OneStopSparesOthers
<1>1. OnceInv => OneStopSparesOthers
  <2>. SUFFICES ASSUME OnceInv, Once PROVE StopSparesOthers
    BY DEF OneStopSparesOthers, Once
  <2>. QED
    BY DEF OnceInv, Safe, Threading, IsProgram, StopSparesOthers, Started, This
<1>. QED
  BY <1>1, InitHolds, NextHolds, PTL DEF Spec

LEMMA OnceAlways == Spec => []OnceInv
BY InitHolds, NextHolds, PTL DEF Spec

-----------------------------------------------------------------------------
(* The types that Shape leaves out, with the bounds of the model.          *)

Bounds ==
    /\ target \in Names \cup {None} /\ uploads \in 0 .. MaxUploads /\ pushed \in 0 .. MaxFrames
    /\ event_thread \in [AllNames -> 0 .. MaxAddress] /\ ptr \in [Callers -> 0 .. MaxAddress]
    /\ self \in [Threads -> 0 .. MaxAddress]
    /\ asked \in Asks /\ toStart \subseteq Installed
    /\ got \in [Threads -> 0 .. MaxFrames] /\ cv \in [Threads -> 0 .. MaxThreads]
    /\ info \in [AllNames -> [owner : 0 .. MaxThreads, rate : Rates, isRun : {"on", "off"}]]
    /\ output \in [AllNames -> Seq(1 .. MaxFrames)] /\ run \in [AllNames -> SUBSET (1 .. MaxFrames)]
    /\ \A t \in Threads : tpc[t] = "exec" => got[t] # 0
    /\ stops \in [AllNames -> 0 .. MaxStops] /\ crashed \in BOOLEAN

CallerBounds ==
    /\ event_thread \in [AllNames -> 0 .. MaxAddress] /\ ptr \in [Callers -> 0 .. MaxAddress]
    /\ self \in [Threads -> 0 .. MaxAddress] /\ asked \in Asks /\ toStart \subseteq Installed
    /\ stops \in [AllNames -> 0 .. MaxStops]

QueueBounds ==
    /\ pushed \in 0 .. MaxFrames
    /\ got \in [Threads -> 0 .. MaxFrames] /\ cv \in [Threads -> 0 .. MaxThreads]
    /\ info \in [AllNames -> [owner : 0 .. MaxThreads, rate : Rates, isRun : {"on", "off"}]]
    /\ output \in [AllNames -> Seq(1 .. MaxFrames)] /\ run \in [AllNames -> SUBSET (1 .. MaxFrames)]
    /\ \A t \in Threads : tpc[t] = "exec" => got[t] # 0

DirBounds == target \in Names \cup {None} /\ uploads \in 0 .. MaxUploads

LEMMA NoInfoTyped == NoInfo \in [owner : 0 .. MaxThreads, rate : Rates, isRun : {"on", "off"}]
BY ProgramAssumption DEF NoInfo, Rates

LEMMA FirstFrame ==
  ASSUME NEW n \in Nat, NEW q \in Seq(1 .. n), q # <<>>
  PROVE  Head(q) \in 1 .. n /\ Tail(q) \in Seq(1 .. n)
OBVIOUS

LEMMA NextFrame ==
  ASSUME NEW n \in Nat, NEW q \in Seq(1 .. n), NEW f \in 1 .. n
  PROVE  Append(q, f) \in Seq(1 .. n)
OBVIOUS

\* A thread that goes anywhere but into event_exec() leaves the ones there alone.
LEMMA NoNewExec ==
  ASSUME tpc \in [Threads -> ThreadPlaces], NEW t \in Threads, NEW p \in ThreadPlaces \ {"exec"},
         tpc' = [tpc EXCEPT ![t] = p]
  PROVE  \A u \in Threads : tpc'[u] = "exec" => tpc[u] = "exec"
OBVIOUS

LEMMA BoundsStep ==
  ASSUME OnceInv, Bounds, [Next]_vars PROVE Bounds'
<1>1. /\ CallerBounds /\ QueueBounds /\ DirBounds /\ crashed \in BOOLEAN
      /\ {MaxAddress, MaxThreads, MaxStops, MaxFrames, MaxUploads} \subseteq Nat
  BY ProgramAssumption DEF Bounds, CallerBounds, QueueBounds, DirBounds
<1>2. CASE UNCHANGED vars
  BY <1>2 DEF vars, dirVars, callVars, threadVars, queueVars, Bounds
<1>3. ASSUME NEW n \in Uploaded, Upload(n) PROVE Bounds'
  <2>1. UNCHANGED <<objects, callVars, threadVars, queueVars, crashed>>
    BY <1>3 DEF Upload
  <2>2. DirBounds'
    <3>1. n \in Names
      BY ProgramAssumption
    <3>. QED
      BY <1>1, <1>3, <3>1 DEF Upload, UploadClear, UploadRate, UploadEnable, UploadFails, DirBounds
  <2>. QED
    BY <1>1, <2>1, <2>2 DEF callVars, threadVars, queueVars, Bounds, CallerBounds, QueueBounds, DirBounds
<1>4. ASSUME NEW c \in Callers, Construct(c), toStart' \subseteq Installed,
             UNCHANGED <<dirVars, asked, threadVars, pushed, crashed>>
      PROVE  Bounds'
  <2>1. PICK a \in Free : ptr' = [ptr EXCEPT ![c] = a]
    BY <1>4 DEF Construct
  <2>2. a \in 0 .. MaxAddress
    BY <1>1, <2>1 DEF Free, Addresses
  <2>3. UNCHANGED <<event_thread, stops, info, output>>
    BY <1>4 DEF Construct
  <2>4. ptr' \in [Callers -> 0 .. MaxAddress]
    BY <1>1, <2>1, <2>2 DEF CallerBounds
  <2>. QED
    BY <1>1, <1>4, <2>3, <2>4 DEF dirVars, threadVars, Bounds, CallerBounds, QueueBounds, DirBounds
<1>5. ASSUME NEW c \in Callers, Emplace(c) PROVE Bounds'
  <2>1. /\ UNCHANGED <<dirVars, asked, toStart, stops, got, cv, run, queueVars, crashed>>
        /\ ptr' = [ptr EXCEPT ![c] = 0] /\ tpc' = [tpc EXCEPT ![Cardinality(Started) + 1] = "begin"]
        /\ self' = [self EXCEPT ![Cardinality(Started) + 1] = ptr[c]]
        /\ \/ event_thread' = [event_thread EXCEPT ![name[c]] = IF @ = 0 THEN ptr[c] ELSE @]
           \/ UNCHANGED event_thread
    BY <1>5 DEF Emplace, Emplaced
  <2>2. ptr[c] \in 0 .. MaxAddress /\ 0 \in 0 .. MaxAddress
    BY <1>1 DEF CallerBounds
  <2>3. /\ ptr' \in [Callers -> 0 .. MaxAddress] /\ self' \in [Threads -> 0 .. MaxAddress]
        /\ event_thread' \in [AllNames -> 0 .. MaxAddress]
    BY <1>1, <2>1, <2>2 DEF CallerBounds
  <2>4. \A t \in Threads : tpc'[t] = "exec" => tpc[t] = "exec"
    BY <2>1 DEF OnceInv, Shape
  <2>. QED
    BY <1>1, <2>1, <2>3, <2>4 DEF dirVars, queueVars, Bounds, CallerBounds, QueueBounds, DirBounds
<1>6. ASSUME NEW r \in Requests, RemoveEvent(r), UNCHANGED <<dirVars, asked, toStart, threadVars, pushed, crashed>>
      PROVE  Bounds'
  <2>1. /\ stops[name'[r]] < MaxStops /\ stops' = [stops EXCEPT ![name'[r]] = @ + 1]
        /\ info' = [info EXCEPT ![name'[r]] = NoInfo] /\ output' = [output EXCEPT ![name'[r]] = <<>>]
        /\ UNCHANGED <<ptr, objects, event_thread>>
    BY <1>6 DEF RemoveEvent
  <2>2. stops' \in [AllNames -> 0 .. MaxStops]
    <3>1. stops \in [AllNames -> 0 .. MaxStops] /\ MaxStops \in Nat
      BY <1>1 DEF CallerBounds
    <3>2. CASE name'[r] \in AllNames
      <4>1. stops[name'[r]] + 1 \in 0 .. MaxStops
        BY <2>1, <3>1, <3>2
      <4>. QED
        BY <2>1, <3>1, <4>1
    <3>3. CASE name'[r] \notin AllNames
      BY <2>1, <3>1, <3>3
    <3>. QED
      BY <3>2, <3>3
  <2>3. /\ info' \in [AllNames -> [owner : 0 .. MaxThreads, rate : Rates, isRun : {"on", "off"}]]
        /\ output' \in [AllNames -> Seq(1 .. MaxFrames)]
    <3>1. <<>> \in Seq(1 .. MaxFrames)
      OBVIOUS
    <3>. QED
      BY <1>1, <2>1, <3>1, NoInfoTyped DEF QueueBounds
  <2>. QED
    BY <1>1, <1>6, <2>1, <2>2, <2>3 DEF dirVars, threadVars, Bounds, CallerBounds, QueueBounds, DirBounds
<1>7. ASSUME NEW r \in Requests, Lookup(r) \/ Delete(r) PROVE Bounds'
  <2>1. /\ UNCHANGED <<dirVars, asked, toStart, event_thread, stops, threadVars, queueVars>>
        /\ \/ UNCHANGED ptr \/ ptr' = [ptr EXCEPT ![r] = event_thread[name[r]]]
           \/ ptr' = [ptr EXCEPT ![r] = 0]
        /\ crashed' \in {crashed, TRUE}
    BY <1>7 DEF Lookup, Found, Delete
  <2>2. event_thread[name[r]] \in 0 .. MaxAddress /\ 0 \in 0 .. MaxAddress
    BY <1>1 DEF CallerBounds, OnceInv, Shape, Callers
  <2>3. ptr' \in [Callers -> 0 .. MaxAddress]
    BY <1>1, <2>1, <2>2 DEF CallerBounds
  <2>4. crashed' \in BOOLEAN
    BY <1>1, <2>1
  <2>. QED
    BY <1>1, <2>1, <2>3, <2>4 DEF dirVars, threadVars, queueVars, Bounds, CallerBounds, QueueBounds, DirBounds
<1>8. ASSUME NEW t \in Threads, Loop(t) PROVE Bounds'
  <2>1. UNCHANGED <<dirVars, callVars, self, pushed>>
    BY <1>8 DEF Loop
  <2>2. crashed' \in BOOLEAN
    BY <1>1, <1>8 DEF Loop, Begin, PopCheck, Exec, Fault
  <2>3. QueueBounds'
    <3>0. /\ tpc \in [Threads -> ThreadPlaces]
          /\ {"loop", "test", "ended", "parked"} \subseteq ThreadPlaces \ {"exec"}
      BY DEF OnceInv, Shape, ThreadPlaces
    <3>1. CASE Begin(t)
      <4>1. tpc[t] = "begin" /\ UNCHANGED <<got, cv, run, output, pushed>>
        BY <2>1, <3>1 DEF Begin
      <4>2. This(t) \in Processor /\ t \in 0 .. MaxThreads
        BY <1>1, <4>1 DEF OnceInv, Shape, This, Threads
      <4>3. [owner |-> t, rate |-> This(t).rate, isRun |-> This(t).enable] \in
                [owner : 0 .. MaxThreads, rate : Rates, isRun : {"on", "off"}]
        BY <4>2 DEF Processor
      <4>4. info' \in [AllNames -> [owner : 0 .. MaxThreads, rate : Rates, isRun : {"on", "off"}]]
        BY <1>1, <3>1, <4>3 DEF Begin, QueueBounds
      <4>5. \A u \in Threads : tpc'[u] = "exec" => tpc[u] = "exec"
        BY <3>0, <3>1, NoNewExec DEF Begin
      <4>. QED
        BY <1>1, <4>1, <4>4, <4>5 DEF QueueBounds
    <3>2. CASE PopCheck(t)
      <4>1. UNCHANGED <<got, cv, run, info, output, pushed>>
        BY <2>1, <3>2 DEF PopCheck
      <4>2. PICK p \in {"ended", "test"} : tpc' = [tpc EXCEPT ![t] = p]
        BY <3>2 DEF PopCheck
      <4>3. \A u \in Threads : tpc'[u] = "exec" => tpc[u] = "exec"
        BY <3>0, <4>2, NoNewExec
      <4>. QED
        BY <1>1, <4>1, <4>3 DEF QueueBounds
    <3>7. CASE Fault(t)
      BY <1>1, <2>1, <3>7 DEF Fault, QueueBounds
    <3>3. CASE PopStopped(t) /\ UNCHANGED run
      <4>1. /\ UNCHANGED <<got, cv, run, output, pushed>>
            /\ info' = [info EXCEPT ![arg[t]] = NoInfo] /\ tpc' = [tpc EXCEPT ![t] = "ended"]
        BY <2>1, <3>3 DEF PopStopped
      <4>2. info' \in [AllNames -> [owner : 0 .. MaxThreads, rate : Rates, isRun : {"on", "off"}]]
        BY <1>1, <4>1, NoInfoTyped DEF QueueBounds
      <4>3. \A u \in Threads : tpc'[u] = "exec" => tpc[u] = "exec"
        BY <3>0, <4>1, NoNewExec
      <4>. QED
        BY <1>1, <4>1, <4>2, <4>3 DEF QueueBounds
    <3>4. CASE PopTake(t) /\ UNCHANGED run
      <4>1. /\ output[arg[t]] # <<>> /\ got' = [got EXCEPT ![t] = Head(output[arg[t]])]
            /\ output' = [output EXCEPT ![arg[t]] = Tail(@)] /\ cv' = [cv EXCEPT ![t] = 0]
            /\ UNCHANGED <<info, run, pushed>>
        BY <2>1, <3>4 DEF PopTake, Rest
      <4>2. output[arg[t]] \in Seq(1 .. MaxFrames)
        BY <1>1 DEF QueueBounds, OnceInv, Shape
      <4>3. Head(output[arg[t]]) \in 1 .. MaxFrames /\ Tail(output[arg[t]]) \in Seq(1 .. MaxFrames)
        BY <1>1, <4>1, <4>2, FirstFrame
      <4>4. /\ got' \in [Threads -> 0 .. MaxFrames] /\ cv' \in [Threads -> 0 .. MaxThreads]
            /\ output' \in [AllNames -> Seq(1 .. MaxFrames)]
        <5>1. Head(output[arg[t]]) \in 0 .. MaxFrames /\ 0 \in 0 .. MaxThreads
          BY <1>1, <4>3
        <5>2. got' \in [Threads -> 0 .. MaxFrames]
          BY <1>1, <4>1, <5>1 DEF QueueBounds
        <5>3. cv' \in [Threads -> 0 .. MaxThreads]
          BY <1>1, <4>1, <5>1 DEF QueueBounds
        <5>4. output' \in [AllNames -> Seq(1 .. MaxFrames)]
          BY <1>1, <4>1, <4>3 DEF QueueBounds
        <5>. QED
          BY <5>2, <5>3, <5>4
      <4>5. got'[t] # 0 /\ \A u \in Threads \ {t} : got'[u] = got[u] /\ tpc'[u] = tpc[u]
        BY <1>1, <3>4, <4>1, <4>3 DEF QueueBounds, PopTake, OnceInv, Shape
      <4>. QED
        BY <1>1, <4>1, <4>4, <4>5 DEF QueueBounds
    <3>5. CASE PopPark(t) /\ UNCHANGED run
      <4>1. info[arg[t]].owner \in 0 .. MaxThreads
        BY <1>1 DEF QueueBounds, OnceInv, Shape
      <4>2. /\ UNCHANGED <<got, run, info, output, pushed>> /\ tpc' = [tpc EXCEPT ![t] = "parked"]
            /\ cv' = [cv EXCEPT ![t] = IF @ = 0 THEN info[arg[t]].owner ELSE @]
        BY <2>1, <3>5 DEF PopPark
      <4>3. cv' \in [Threads -> 0 .. MaxThreads]
        BY <1>1, <4>1, <4>2 DEF QueueBounds
      <4>4. \A u \in Threads : tpc'[u] = "exec" => tpc[u] = "exec"
        BY <3>0, <4>2, NoNewExec
      <4>. QED
        BY <1>1, <4>2, <4>3, <4>4 DEF QueueBounds
    <3>6. CASE Exec(t)
      <4>1. /\ run' = [run EXCEPT ![arg[t]] = @ \cup {got[t]}] /\ got' = [got EXCEPT ![t] = 0]
            /\ tpc[t] = "exec" /\ tpc' = [tpc EXCEPT ![t] = "loop"]
            /\ UNCHANGED <<cv, info, output, pushed>>
        BY <2>1, <3>6 DEF Exec
      <4>2. got[t] \in 1 .. MaxFrames
        BY <1>1, <4>1 DEF QueueBounds
      <4>3. run' \in [AllNames -> SUBSET (1 .. MaxFrames)] /\ got' \in [Threads -> 0 .. MaxFrames]
        <5>1. run[arg[t]] \cup {got[t]} \subseteq 1 .. MaxFrames
          BY <1>1, <4>1, <4>2 DEF QueueBounds, OnceInv, Shape
        <5>2. 0 \in 0 .. MaxFrames
          BY <1>1
        <5>. QED
          BY <1>1, <4>1, <5>1, <5>2 DEF QueueBounds
      <4>4. \A u \in Threads : tpc'[u] = "exec" => u # t /\ tpc[u] = "exec" /\ got'[u] = got[u]
        BY <1>1, <4>1 DEF QueueBounds, OnceInv, Shape
      <4>. QED
        BY <1>1, <4>1, <4>3, <4>4 DEF QueueBounds
    <3>. QED
      BY <1>8, <3>1, <3>2, <3>3, <3>4, <3>5, <3>6, <3>7 DEF Loop, PopTest
  <2>. QED
    BY <1>1, <2>1, <2>2, <2>3 DEF dirVars, callVars, Bounds, CallerBounds, QueueBounds, DirBounds
<1>9. CASE Push
  <2>1. /\ pushed < MaxFrames /\ pushed' = pushed + 1
        /\ UNCHANGED <<dirVars, callVars, self, got, cv, run, info, crashed>>
        /\ \E due \in SUBSET AllNames :
              output' = [n \in AllNames |-> IF n \in due THEN Append(output[n], pushed') ELSE output[n]]
    BY <1>9 DEF Push
  <2>2. \A t \in Threads : tpc'[t] = "exec" => tpc[t] = "exec"
    BY <1>9 DEF Push
  <2>3. pushed' \in 1 .. MaxFrames
    BY <1>1, <2>1 DEF QueueBounds
  <2>4. \A n \in AllNames : output[n] \in Seq(1 .. MaxFrames) /\ Append(output[n], pushed') \in Seq(1 .. MaxFrames)
    BY <1>1, <2>3, NextFrame DEF QueueBounds
  <2>5. output' \in [AllNames -> Seq(1 .. MaxFrames)]
    BY <2>1, <2>4
  <2>6. QueueBounds'
    BY <1>1, <2>1, <2>2, <2>3, <2>5 DEF QueueBounds
  <2>. QED
    BY <1>1, <2>1, <2>6 DEF dirVars, callVars, Bounds, CallerBounds, QueueBounds, DirBounds
<1>10. ASSUME NEW t \in Threads, SpuriousWake(t) PROVE Bounds'
  <2>1. /\ UNCHANGED <<dirVars, callVars, self, got, cv, run, queueVars, crashed>>
        /\ \A u \in Threads : tpc'[u] = "exec" => tpc[u] = "exec"
    BY <1>10 DEF SpuriousWake, OnceInv, Shape
  <2>. QED
    BY <2>1 DEF dirVars, callVars, queueVars, Bounds
<1>11. CASE RaceFault \/ PushFault
  BY <1>11 DEF RaceFault, PushFault, dirVars, callVars, threadVars, queueVars, Bounds
<1>12. CASE InitNext
  <2>1. Main \in Callers /\ Construct(Main) /\ UNCHANGED <<dirVars, asked, threadVars, pushed, crashed>>
    BY <1>12 DEF InitNext, Callers
  <2>2. toStart' \subseteq Installed
    BY <1>1, <1>12 DEF InitNext, CallerBounds
  <2>. QED
    BY <1>4, <2>1, <2>2
<1>13. ASSUME NEW r \in Requests, FinalCall(r) PROVE Bounds'
  <2>1. /\ r \in Callers /\ UNCHANGED <<dirVars, asked, toStart, threadVars, pushed, crashed>>
        /\ Construct(r) \/ RemoveEvent(r)
    BY <1>13 DEF FinalCall, Callers
  <2>2. toStart' \subseteq Installed
    BY <1>1, <2>1 DEF CallerBounds
  <2>. QED
    BY <1>4, <1>6, <2>1, <2>2
<1>. QED
  BY <1>2, <1>3, <1>5, <1>7, <1>8, <1>9, <1>10, <1>11, <1>12, <1>13 DEF Next

LEMMA BoundsAlways == Spec => []Bounds
<1>1. Init => Bounds
  <2>. SUFFICES ASSUME Init PROVE Bounds
    OBVIOUS
  <2>1. /\ 0 \in 0 .. MaxAddress /\ 0 \in 0 .. MaxFrames /\ 0 \in 0 .. MaxThreads
        /\ 0 \in 0 .. MaxStops /\ 0 \in 0 .. MaxUploads
    BY ProgramAssumption
  <2>2. <<>> \in Seq(1 .. MaxFrames)
    OBVIOUS
  <2>3. CallerBounds /\ DirBounds /\ crashed \in BOOLEAN /\ self \in [Threads -> 0 .. MaxAddress]
    BY <2>1 DEF Init, CallerBounds, DirBounds
  <2>4. QueueBounds
    BY <2>1, <2>2, NoInfoTyped DEF Init, QueueBounds
  <2>. QED
    BY <2>3, <2>4 DEF Bounds, CallerBounds, DirBounds, QueueBounds
<1>. QED
  BY <1>1, OnceAlways, BoundsStep, PTL DEF Spec

\* The variables of the component keep their types and bounds through every
\* start, stop, upload, frame and race of the map: an address, a thread or a frame
\* number in hand is always one of the model's, and nothing runs past its bound.
THEOREM ProgramTypes == Spec => []TypeOK
<1>1. OnceInv /\ Bounds => TypeOK
  BY DEF OnceInv, Shape, Bounds, TypeOK, Directory, Processor, Places, ThreadPlaces
<1>. QED
  BY <1>1, OnceAlways, BoundsAlways, PTL

-----------------------------------------------------------------------------
(* Why the process dies of an event program only of the causes named.      *)
(* While nothing is stopped no processor in use is lost, so threads that   *)
(* were started wrong stay so; and if none was, a name whose thread runs   *)
(* is subscribed: a disabled program's only thread ends the subscription.  *)

Calm == \A n \in AllNames : stops[n] = 0

Lost == \E t \in Started : \/ ~This(t).loaded \/ This(t).rate # "good"
                           \/ \E u \in Started \ {t} :
                                 This(t).name = This(u).name /\ This(t).enable = "off"

\* Threads are numbered as they are started.
InOrder == \E k \in 0 .. MaxThreads : Started = 1 .. k

Running == {"loop", "test", "parked", "exec"}

\* The subscription of the name is as the thread that made it has it.
Held(n) ==
    /\ info[n].owner \in Started /\ This(info[n].owner).name = n
    /\ info[n].rate = "good" /\ info[n].isRun = This(info[n].owner).enable

Subscribed ==
    Calm /\ ~Lost =>
        /\ \A n \in AllNames : info[n].owner # 0 => Held(n)
        /\ \A t \in Threads : tpc[t] \in Running => info[arg[t]].owner # 0

CrashInv == InOrder /\ Subscribed /\ CrashExplained

\* Emplace() alone starts a thread, the next one.
LEMMA ThreadsKept ==
  ASSUME OnceInv, InOrder, [Next]_vars
  PROVE  InOrder' /\ \A t \in Started : t \in Started' /\ self'[t] = self[t]
<1>1. tpc \in [Threads -> ThreadPlaces] /\ self \in [Threads -> Nat]
  BY DEF OnceInv, Shape
<1>2. ASSUME UNCHANGED self, \A t \in Threads : tpc'[t] = "none" <=> tpc[t] = "none"
      PROVE  InOrder' /\ \A t \in Started : t \in Started' /\ self'[t] = self[t]
  BY <1>2 DEF InOrder, Started
<1>3. ASSUME NEW c \in Callers, Emplace(c)
      PROVE  InOrder' /\ \A t \in Started : t \in Started' /\ self'[t] = self[t]
  <2>1. PICK k \in 0 .. MaxThreads : Started = 1 .. k
    BY DEF InOrder
  <2>2. k \in Nat /\ MaxThreads \in Nat
    BY <2>1, ProgramAssumption
  <2>3. Cardinality(Started) = k
    <3>1. Cardinality(1 .. k) = IF 1 > k THEN 0 ELSE k - 1 + 1
      BY <2>2, FS_Interval
    <3>. QED
      BY <2>1, <2>2, <3>1
  <2>4. /\ tpc' = [tpc EXCEPT ![k + 1] = "begin"]
        /\ self' = [self EXCEPT ![k + 1] = ptr[c]]
    BY <1>3, <2>3 DEF Emplace
  <2>5. \A t \in Started : t \in Started' /\ self'[t] = self[t]
    BY <1>1, <2>1, <2>2, <2>4 DEF Started
  <2>6. CASE k = MaxThreads
    <3>1. Started' = Started
      BY <1>1, <2>2, <2>4, <2>6 DEF Started, Threads
    <3>. QED
      BY <2>5, <3>1 DEF InOrder
  <2>7. CASE k # MaxThreads
    <3>1. k + 1 \in Threads /\ k + 1 \in 0 .. MaxThreads
      BY <2>2, <2>7 DEF Threads
    <3>2. Started' = Started \cup {k + 1}
      BY <1>1, <2>4, <3>1 DEF Started
    <3>3. (1 .. k) \cup {k + 1} = 1 .. (k + 1)
      BY <2>2
    <3>4. Started' = 1 .. (k + 1)
      BY <2>1, <3>2, <3>3
    <3>. QED
      BY <2>5, <3>1, <3>4 DEF InOrder
  <2>. QED
    BY <2>6, <2>7
<1>4. ASSUME NEW c \in Callers, Construct(c) \/ RemoveEvent(c), UNCHANGED threadVars
      PROVE  InOrder' /\ \A t \in Started : t \in Started' /\ self'[t] = self[t]
  BY <1>2, <1>4 DEF threadVars
<1>5. ASSUME NEW t \in Threads, Loop(t)
      PROVE  InOrder' /\ \A u \in Started : u \in Started' /\ self'[u] = self[u]
  <2>1. UNCHANGED self
    BY <1>5 DEF Loop
  <2>2. \/ UNCHANGED tpc
        \/ tpc[t] # "none" /\ \E p \in ThreadPlaces \ {"none"} : tpc' = [tpc EXCEPT ![t] = p]
    BY <1>5 DEF Loop, Begin, PopCheck, Exec, Fault, PopTest, PopStopped, PopTake, PopPark, ThreadPlaces
  <2>. QED
    BY <1>1, <1>2, <2>1, <2>2
<1>6. CASE Push
  <2>1. UNCHANGED self /\ \A t \in Threads : tpc'[t] = tpc[t] \/ (tpc[t] = "parked" /\ tpc'[t] = "test")
    BY <1>6 DEF Push, Sleepers
  <2>. QED
    BY <1>2, <2>1
<1>7. ASSUME NEW t \in Threads, SpuriousWake(t)
      PROVE  InOrder' /\ \A u \in Started : u \in Started' /\ self'[u] = self[u]
  BY <1>1, <1>2, <1>7 DEF SpuriousWake
<1>8. CASE \/ UNCHANGED vars \/ RaceFault \/ PushFault \/ \E n \in Uploaded : Upload(n)
           \/ \E r \in Requests : Lookup(r) \/ Delete(r)
  BY <1>2, <1>8 DEF vars, RaceFault, PushFault, Upload, Lookup, Delete, threadVars
<1>9. CASE InitNext \/ \E r \in Requests : FinalCall(r)
  BY <1>4, <1>9 DEF InitNext, FinalCall, Callers
<1>. QED
  BY <1>3, <1>5, <1>6, <1>7, <1>8, <1>9 DEF Next

\* While nothing has been stopped nobody is in stop_event(), and a processor in use
\* is not overwritten: only memory that is free is taken for a new one.
LEMMA ObjectsKept ==
  ASSUME OnceInv, [Next]_vars, Calm'
  PROVE  /\ Calm /\ Safe /\ \A r \in Requests : ~Stopping(r)
         /\ \A a \in Addresses : objects[a].live => objects'[a] = objects[a]
<1>1. stops \in [AllNames -> Nat] /\ objects \in [Addresses -> Processor] /\ name \in [Callers -> AllNames]
  BY DEF OnceInv, Shape
<1>2. Calm
  <2>1. UNCHANGED stops \/ \E n : stops' = [stops EXCEPT ![n] = @ + 1]
    <3>1. ASSUME NEW c \in Callers, Construct(c) PROVE UNCHANGED stops
      BY <3>1 DEF Construct
    <3>2. ASSUME NEW r \in Requests, RemoveEvent(r) PROVE \E n : stops' = [stops EXCEPT ![n] = @ + 1]
      BY <3>2 DEF RemoveEvent
    <3>. QED
      BY <3>1, <3>2 DEF Next, InitNext, Push, PushFault, RaceFault, Upload, Emplace, FinalCall, Lookup, Delete, Loop,
         SpuriousWake, vars, callVars, Callers
  <2>. QED
    BY <1>1, <2>1 DEF Calm
<1>3. Safe
  BY <1>2 DEF Calm, Once, OnceInv
<1>4. \A r \in Requests : ~Stopping(r)
  BY <1>1, <1>2, <1>3 DEF Safe, OneStopper, Calm, Callers
<1>5. \A a \in Addresses : objects[a].live => objects'[a] = objects[a]
  <2>1. ASSUME NEW c \in Callers, Construct(c)
        PROVE  \A a \in Addresses : objects[a].live => objects'[a] = objects[a]
    <3>1. PICK a \in Free : \E p : objects' = [objects EXCEPT ![a] = p]
      BY <2>1 DEF Construct
    <3>. QED
      BY <1>1, <3>1 DEF Free
  <2>2. ASSUME NEW r \in Requests, RemoveEvent(r) PROVE UNCHANGED objects
    BY <2>2 DEF RemoveEvent
  <2>3. ASSUME NEW r \in Requests PROVE ~Delete(r)
    BY <1>4 DEF Delete, Stopping
  <2>4. ASSUME NEW c \in Callers, Emplace(c) PROVE UNCHANGED objects
    BY <2>4 DEF Emplace, Emplaced
  <2>. QED
    BY <2>1, <2>2, <2>3, <2>4 DEF Next, InitNext, Push, PushFault, RaceFault, Upload, FinalCall, Lookup, Loop,
         SpuriousWake, vars, Callers
<1>. QED
  BY <1>2, <1>3, <1>4, <1>5

\* A thread keeps its processor as it is.
LEMMA ProcessorsKept ==
  ASSUME OnceInv, InOrder, [Next]_vars, Calm'
  PROVE  \A t \in Started : t \in Started' /\ This(t)' = This(t)
<1>1. SUFFICES ASSUME NEW t \in Started PROVE t \in Started' /\ This(t)' = This(t)
  OBVIOUS
<1>2. t \in Threads /\ tpc[t] # "none" /\ self[t] \in Addresses
  BY DEF Started, OnceInv, Shape
<1>3. objects[self[t]].name \in AllNames
  BY <1>2 DEF OnceInv, Shape, Processor
<1>4. objects[self[t]].live
  BY <1>2, <1>3, ObjectsKept DEF Safe, Threading, Calm
<1>5. t \in Started' /\ self'[t] = self[t] /\ objects'[self[t]] = objects[self[t]]
  BY <1>2, <1>4, ThreadsKept, ObjectsKept
<1>. QED
  BY <1>5 DEF This

LEMMA LostKept ==
  ASSUME OnceInv, InOrder, [Next]_vars, Calm', Lost PROVE Lost'
BY ProcessorsKept DEF Lost

\* A name whose thread runs stays subscribed: only a stop would take its subscription
\* away, or its thread when it has found the program disabled and is the only one.
LEMMA SubscribedKept ==
  ASSUME OnceInv, Bounds, InOrder, Subscribed, [Next]_vars PROVE Subscribed'
<1>. SUFFICES ASSUME Calm', ~Lost'
     PROVE  /\ \A n \in AllNames : info'[n].owner # 0 => Held(n)'
            /\ \A t \in Threads : tpc'[t] \in Running => info'[arg'[t]].owner # 0
  BY DEF Subscribed
<1>1. Calm /\ ~Lost /\ Safe /\ \A r \in Requests : ~Stopping(r)
  BY ObjectsKept, LostKept
<1>2. /\ \A n \in AllNames : info[n].owner # 0 => Held(n)
      /\ \A t \in Threads : tpc[t] \in Running => info[arg[t]].owner # 0
  BY <1>1 DEF Subscribed
<1>3. /\ tpc \in [Threads -> ThreadPlaces] /\ arg \in [Threads -> AllNames]
      /\ info \in [AllNames -> [owner : 0 .. MaxThreads, rate : Rates, isRun : {"on", "off"}]]
  BY DEF OnceInv, Shape, Bounds
<1>4. ASSUME NEW t \in Threads, tpc[t] # "none", tpc[t] # "ended"
      PROVE  t \in Started /\ IsProgram(self[t], arg[t]) /\ This(t).name = arg[t] /\ This(t).rate = "good"
  <2>1. IsProgram(self[t], arg[t])
    BY <1>1, <1>3, <1>4 DEF Safe, Threading, Calm
  <2>. QED
    BY <1>1, <1>4, <2>1 DEF Lost, Started, IsProgram, This
<1>5. ASSUME NEW n, info'[n] = info[n], Held(n) PROVE Held(n)'
  BY <1>5, ProcessorsKept DEF Held
<1>6. ASSUME UNCHANGED <<info, arg>>, \A t \in Threads : tpc'[t] \in Running => tpc[t] \in Running
      PROVE  /\ \A n \in AllNames : info'[n].owner # 0 => Held(n)'
             /\ \A t \in Threads : tpc'[t] \in Running => info'[arg'[t]].owner # 0
  BY <1>2, <1>5, <1>6
<1>7. ASSUME NEW t \in Threads, Loop(t)
      PROVE  /\ \A n \in AllNames : info'[n].owner # 0 => Held(n)'
             /\ \A u \in Threads : tpc'[u] \in Running => info'[arg'[u]].owner # 0
  <2>1. CASE Begin(t)
    <3>1. tpc[t] = "begin" /\ tpc' = [tpc EXCEPT ![t] = "loop"] /\ UNCHANGED arg
      BY <2>1 DEF Begin
    <3>2. /\ t \in Started /\ This(t).name = arg[t] /\ This(t).rate = "good" /\ arg[t] \in AllNames
          /\ t \in Started' /\ This(t)' = This(t)
      BY <1>3, <1>4, <3>1, ProcessorsKept
    <3>3. PICK n \in AllNames : n = arg[t]
      BY <3>2
    <3>4. \/ info[n].owner # 0 /\ UNCHANGED info
          \/ /\ info[n].owner = 0
             /\ info' = [info EXCEPT ![n] = [owner |-> t, rate |-> "good", isRun |-> This(t).enable]]
      BY <2>1, <3>2, <3>3 DEF Begin
    <3>5. t # 0
      BY DEF Threads
    <3>6. \A m \in AllNames : m # n => info'[m] = info[m]
      BY <1>3, <3>4
    <3>7. info'[n].owner # 0 /\ Held(n)'
      <4>1. CASE info[n].owner # 0 /\ UNCHANGED info
        <5>1. Held(n) /\ info'[n] = info[n]
          BY <1>2, <4>1
        <5>. QED
          BY <1>5, <4>1, <5>1
      <4>2. CASE info' = [info EXCEPT ![n] =
                             [owner |-> t, rate |-> "good", isRun |-> This(t).enable]]
        <5>1. info'[n] = [owner |-> t, rate |-> "good", isRun |-> This(t).enable]
          BY <1>3, <4>2
        <5>. QED
          BY <3>2, <3>3, <3>5, <5>1 DEF Held
      <4>. QED
        BY <3>4, <4>1, <4>2
    <3>8. \A u \in Threads : u # t => tpc'[u] = tpc[u]
      BY <1>3, <3>1
    <3>9. ASSUME NEW m \in AllNames, info'[m].owner # 0 PROVE Held(m)'
      <4>1. CASE m = n
        BY <3>7, <4>1
      <4>2. CASE m # n
        <5>1. info'[m] = info[m] /\ Held(m)
          BY <1>2, <3>6, <3>9, <4>2
        <5>. QED
          BY <1>5, <5>1
      <4>. QED
        BY <4>1, <4>2
    <3>. QED
      BY <1>2, <1>3, <3>1, <3>3, <3>6, <3>7, <3>8, <3>9
  <2>2. CASE PopCheck(t)
    <3>1. tpc[t] = "loop" /\ arg' = [arg EXCEPT ![t] = This(t).name] /\ UNCHANGED info
      BY <2>2 DEF PopCheck
    <3>2. This(t).name = arg[t]
      BY <1>4, <3>1
    <3>3. UNCHANGED arg
      BY <1>3, <3>1, <3>2
    <3>4. \A u \in Threads : u # t => tpc'[u] = tpc[u]
      BY <1>3, <2>2 DEF PopCheck
    <3>. QED
      BY <1>6, <3>1, <3>3, <3>4 DEF Running
  <2>3. CASE PopStopped(t) /\ UNCHANGED arg
    <3>. DEFINE n == arg[t]
                o == info[n].owner
    <3>1. /\ tpc[t] = "test" /\ o # 0 /\ info[n].isRun = "off" /\ n \in AllNames
          /\ info' = [info EXCEPT ![n] = NoInfo] /\ tpc' = [tpc EXCEPT ![t] = "ended"]
      BY <1>3, <2>3 DEF PopStopped
    <3>2. o \in Started /\ This(o).name = n /\ This(o).enable = "off"
      BY <1>2, <3>1 DEF Held
    <3>3. ASSUME NEW u \in Threads, tpc[u] \in Running, arg[u] = n PROVE u = o
      BY <1>1, <1>4, <3>2, <3>3 DEF Lost, Running
    <3>4. ASSUME NEW u \in Threads, tpc'[u] \in Running PROVE info'[arg[u]].owner # 0
      <4>1. u # t /\ tpc[u] \in Running
        BY <1>3, <3>1, <3>4 DEF Running
      <4>2. arg[u] # n
        BY <3>1, <3>3, <4>1 DEF Running
      <4>. QED
        BY <1>2, <1>3, <3>1, <4>1, <4>2
    <3>5. ASSUME NEW m \in AllNames, info'[m].owner # 0 PROVE Held(m)'
      <4>1. m # n
        BY <1>3, <3>1, <3>5 DEF NoInfo
      <4>2. info'[m] = info[m]
        BY <1>3, <3>1, <4>1
      <4>. QED
        BY <1>2, <1>5, <3>5, <4>2
    <3>. QED
      BY <2>3, <3>4, <3>5
  <2>4. CASE (PopTake(t) \/ PopPark(t)) /\ UNCHANGED arg
    <3>1. /\ tpc[t] = "test" /\ UNCHANGED info
          /\ \E p \in {"exec", "parked"} : tpc' = [tpc EXCEPT ![t] = p]
      BY <2>4 DEF PopTake, PopPark
    <3>. QED
      BY <1>3, <1>6, <2>4, <3>1 DEF Running
  <2>5. CASE Exec(t) \/ Fault(t)
    <3>1. /\ UNCHANGED <<info, arg>>
          /\ \/ UNCHANGED tpc
             \/ tpc[t] = "exec" /\ tpc' = [tpc EXCEPT ![t] = "loop"]
      BY <2>5 DEF Exec, Fault
    <3>. QED
      BY <1>3, <1>6, <3>1 DEF Running
  <2>. QED
    BY <1>7, <2>1, <2>2, <2>3, <2>4, <2>5 DEF Loop, PopTest
<1>8. CASE Push
  <2>1. /\ UNCHANGED <<info, arg>>
        /\ \A t \in Threads : tpc'[t] = tpc[t] \/ (tpc[t] = "parked" /\ tpc'[t] = "test")
    BY <1>8 DEF Push, Sleepers
  <2>. QED
    BY <1>6, <2>1 DEF Running
<1>9. ASSUME NEW t \in Threads, SpuriousWake(t)
      PROVE  UNCHANGED <<info, arg>> /\ \A u \in Threads : tpc'[u] \in Running => tpc[u] \in Running
  BY <1>3, <1>9 DEF SpuriousWake, queueVars, Running
<1>10. ASSUME NEW c \in Callers, Emplace(c)
       PROVE  /\ \A n \in AllNames : info'[n].owner # 0 => Held(n)'
              /\ \A t \in Threads : tpc'[t] \in Running => info'[arg'[t]].owner # 0
  <2>1. /\ UNCHANGED info /\ arg' = [arg EXCEPT ![Cardinality(Started) + 1] = name[c]]
        /\ tpc' = [tpc EXCEPT ![Cardinality(Started) + 1] = "begin"]
    BY <1>10 DEF Emplace, queueVars
  <2>2. \A t \in Threads : tpc'[t] \in Running => tpc[t] \in Running /\ arg'[t] = arg[t]
    BY <1>3, <2>1 DEF Running
  <2>. QED
    BY <1>2, <1>5, <2>1, <2>2
<1>11. ASSUME NEW c \in Callers, Construct(c), UNCHANGED threadVars PROVE UNCHANGED <<info, arg, tpc>>
  BY <1>11 DEF Construct, threadVars
<1>12. ASSUME NEW r \in Requests, FinalCall(r) PROVE UNCHANGED <<info, arg, tpc>>
  <2>1. ~RemoveEvent(r)
    <3>1. ASSUME RemoveEvent(r) PROVE FALSE
      <4>1. stops' = [stops EXCEPT ![name'[r]] = @ + 1] /\ name'[r] \in AllNames
        BY <1>12, <3>1 DEF RemoveEvent, FinalCall, OnceInv, Shape, Ask, Callers
      <4>2. stops \in [AllNames -> Nat]
        BY DEF OnceInv, Shape
      <4>3. stops'[name'[r]] # 0
        BY <4>1, <4>2
      <4>. QED
        BY <4>1, <4>3 DEF Calm
    <3>. QED
      BY <3>1
  <2>. QED
    BY <1>11, <1>12, <2>1 DEF FinalCall, Callers
<1>13. CASE InitNext
  BY <1>6, <1>11, <1>13 DEF InitNext, Callers
<1>14. CASE \/ UNCHANGED vars \/ RaceFault \/ PushFault \/ \E n \in Uploaded : Upload(n)
            \/ \E r \in Requests : Lookup(r) \/ Delete(r)
  BY <1>6, <1>14 DEF vars, RaceFault, PushFault, Upload, Lookup, Delete, threadVars, queueVars
<1>. QED
  BY <1>6, <1>7, <1>8, <1>9, <1>10, <1>12, <1>13, <1>14 DEF Next

\* What may kill the process: the calls of stop_event(), the map, a program's thread,
\* or the distributor on account of a subscription.
LEMMA DeathExplained ==
  ASSUME OnceInv, InOrder, Subscribed, CrashExplained, [Next]_vars PROVE CrashExplained'
<1>. SUFFICES ASSUME crashed', Calm', ~Lost' PROVE MapRace'
  <2>1. stops' \in [AllNames -> Nat]
    BY NextHolds DEF OnceInv, Shape
  <2>. QED
    BY <2>1 DEF CrashExplained, Calm, Lost
<1>1. Calm /\ ~Lost /\ Safe /\ \A r \in Requests : ~Stopping(r)
  BY ObjectsKept, LostKept
<1>2. CASE UNCHANGED vars
  BY <1>1, <1>2 DEF vars, callVars, CrashExplained, MapRace, Calm, Lost
<1>3. CASE RaceFault
  BY <1>3 DEF RaceFault, MapRace
<1>4. ASSUME NEW r \in Requests PROVE ~Lookup(r) /\ ~Delete(r)
  BY <1>1 DEF Lookup, Delete, Stopping
<1>5. ASSUME NEW t \in Threads PROVE ~Fault(t)
  <2>1. tpc[t] \in ThreadPlaces /\ arg[t] \in AllNames
    BY DEF OnceInv, Shape
  <2>2. tpc[t] \notin {"none", "ended"} => IsProgram(self[t], arg[t]) /\ This(t).loaded /\ This(t).rate = "good"
    BY <1>1, <2>1 DEF Safe, Threading, Calm, Lost, Started
  <2>3. tpc[t] = "test" => info[arg[t]].owner # 0
    BY <1>1 DEF Subscribed, Running
  <2>. QED
    BY <2>2, <2>3 DEF Fault, IsProgram, This
<1>6. ASSUME NEW t \in Threads, Loop(t) PROVE UNCHANGED crashed
  BY <1>5, <1>6 DEF Loop, Begin, PopCheck, Exec
<1>7. ~PushFault
  BY <1>1 DEF PushFault, Subscribed, Held
<1>. QED
  BY <1>2, <1>3, <1>4, <1>6, <1>7 DEF Next, InitNext, Push, Upload, Emplace, FinalCall, SpuriousWake

\* The process dies of an event program only when one was stopped, was started without
\* its shared object, with a rate of zero or too high, or disabled and once more,
\* or two calls of EventHandler met in its map.  Starting programs otherwise, the
\* same one twice even, while others are uploaded under their names and run, never
\* kills it.
THEOREM DeathsAreExplained == Spec => []CrashExplained
<1>1. Init => CrashInv
  <2>. SUFFICES ASSUME Init PROVE CrashInv
    OBVIOUS
  <2>1. InOrder
    <3>1. Started = 1 .. 0
      BY DEF Init, Started
    <3>2. 0 \in 0 .. MaxThreads
      BY ProgramAssumption
    <3>. QED
      BY <3>1, <3>2 DEF InOrder
  <2>2. Subscribed
    BY DEF Init, Subscribed, NoInfo, Running
  <2>3. CrashExplained
    BY DEF Init, CrashExplained
  <2>. QED
    BY <2>1, <2>2, <2>3 DEF CrashInv
<1>2. OnceInv /\ Bounds /\ CrashInv /\ [Next]_vars => CrashInv'
  BY ThreadsKept, SubscribedKept, DeathExplained DEF CrashInv
<1>3. CrashInv => CrashExplained
  BY DEF CrashInv
<1>. QED
  BY <1>1, <1>2, <1>3, OnceAlways, BoundsAlways, PTL DEF Spec

-----------------------------------------------------------------------------
(* Where the frames of a program are: in its queue, in the hands of one of *)
(* its threads, or run.  None is in two places, and as long as the name is *)
(* not stopped nor found disabled none is missing.                         *)

Increasing(q) == \A i, j \in 1 .. Len(q) : i < j => q[i] < q[j]
Frames(q) == {q[i] : i \in 1 .. Len(q)}

Queued(n) == Frames(output[n])
InHand(n) == {got[t] : t \in {u \in Threads : tpc[u] = "exec" /\ arg[u] = n}}
Seen(n)   == run[n] \cup InHand(n) \cup Queued(n)

\* No frame is in two places, so none is run twice.
FramesApart ==
    /\ \A n \in AllNames : /\ Increasing(output[n]) /\ Queued(n) \cup run[n] \subseteq 1 .. pushed
                           /\ run[n] \cap Queued(n) = {}
    /\ \A t \in Threads : tpc[t] = "exec" =>
        /\ got[t] \in (1 .. pushed) \ (run[arg[t]] \cup Queued(arg[t]))
        /\ \A u \in Threads \ {t} : tpc[u] = "exec" /\ arg[u] = arg[t] => got[u] # got[t]

LEMMA HeadTaken ==
  ASSUME NEW m \in Nat, NEW q \in Seq(1 .. m), q # <<>>, Increasing(q)
  PROVE  /\ Increasing(Tail(q)) /\ Frames(q) = Frames(Tail(q)) \cup {Head(q)}
         /\ Head(q) \notin Frames(Tail(q))
<1>1. /\ Len(q) \in Nat \ {0} /\ Len(Tail(q)) = Len(q) - 1 /\ Head(q) = q[1]
      /\ \A i \in 1 .. Len(q) : q[i] \in Nat
      /\ \A i \in 1 .. Len(Tail(q)) : Tail(q)[i] = q[i + 1] /\ i + 1 \in 1 .. Len(q)
  OBVIOUS
<1>2. Increasing(Tail(q))
  BY <1>1 DEF Increasing
<1>3. \A i \in 1 .. Len(q) : i = 1 \/ (i - 1 \in 1 .. Len(Tail(q)) /\ Tail(q)[i - 1] = q[i])
  <2>. SUFFICES ASSUME NEW i \in 1 .. Len(q), i # 1
                PROVE  i - 1 \in 1 .. Len(Tail(q)) /\ Tail(q)[i - 1] = q[i]
    OBVIOUS
  <2>1. i - 1 \in 1 .. Len(Tail(q)) /\ (i - 1) + 1 = i
    BY <1>1
  <2>. QED
    BY <1>1, <2>1
<1>4. Frames(q) = Frames(Tail(q)) \cup {Head(q)}
  BY <1>1, <1>3 DEF Frames
<1>5. Head(q) \notin Frames(Tail(q))
  <2>. SUFFICES ASSUME NEW i \in 1 .. Len(Tail(q)), q[1] = Tail(q)[i] PROVE FALSE
    BY <1>1 DEF Frames
  <2>1. 1 < i + 1 /\ 1 \in 1 .. Len(q) /\ i + 1 \in 1 .. Len(q)
    BY <1>1
  <2>. QED
    BY <1>1, <2>1 DEF Increasing
<1>. QED
  BY <1>2, <1>4, <1>5

LEMMA FrameAppended ==
  ASSUME NEW m \in Nat, NEW q \in Seq(1 .. m), NEW k \in Nat, Increasing(q),
         \A f \in Frames(q) : f < k
  PROVE  Increasing(Append(q, k)) /\ Frames(Append(q, k)) = Frames(q) \cup {k}
<1>1. /\ Len(q) \in Nat /\ Len(Append(q, k)) = Len(q) + 1 /\ Append(q, k)[Len(q) + 1] = k
      /\ \A i \in 1 .. Len(q) : q[i] \in Nat /\ Append(q, k)[i] = q[i]
  OBVIOUS
<1>2. \A i \in 1 .. Len(q) : q[i] < k
  BY DEF Frames
<1>3. \A i \in 1 .. Len(Append(q, k)) : i \in 1 .. Len(q) \/ i = Len(q) + 1
  BY <1>1
<1>4. Increasing(Append(q, k))
  BY <1>1, <1>2, <1>3 DEF Increasing
<1>5. Len(q) + 1 \in 1 .. Len(Append(q, k)) /\ 1 .. Len(q) \subseteq 1 .. Len(Append(q, k))
  BY <1>1
<1>6. Frames(Append(q, k)) = Frames(q) \cup {k}
  BY <1>1, <1>3, <1>5 DEF Frames
<1>. QED
  BY <1>4, <1>6

\* The steps, by what they do to frames.
FramesStill ==
    /\ UNCHANGED <<output, run, pushed>>
    /\ \A t \in Threads : /\ tpc'[t] = "exec" <=> tpc[t] = "exec"
                          /\ tpc[t] = "exec" => arg'[t] = arg[t] /\ got'[t] = got[t]
Taken(t) == PopTake(t) /\ UNCHANGED <<arg, run, pushed>>
Executed(t) == Exec(t) /\ UNCHANGED pushed
Dropped(n) ==
    /\ output' = [output EXCEPT ![n] = <<>>] /\ stops'[n] # 0
    /\ UNCHANGED <<run, pushed, tpc, arg, got>>

LEMMA FramesMove ==
  ASSUME OnceInv, Bounds, InOrder, [Next]_vars
  PROVE  \/ FramesStill \/ Push
         \/ \E t \in Threads : Taken(t) \/ Executed(t)
         \/ \E n \in AllNames : Dropped(n)
<1>1. tpc \in [Threads -> ThreadPlaces] /\ arg \in [Threads -> AllNames] /\ stops \in [AllNames -> Nat]
  BY DEF OnceInv, Shape
<1>2. ASSUME UNCHANGED <<threadVars, queueVars>> PROVE FramesStill
  BY <1>2 DEF threadVars, queueVars, FramesStill
<1>3. ASSUME NEW c \in Callers, Construct(c), UNCHANGED <<threadVars, pushed>> PROVE FramesStill
  BY <1>3 DEF Construct, threadVars, FramesStill
<1>4. ASSUME NEW c \in Callers, Emplace(c) PROVE FramesStill
  <2>1. PICK k \in 0 .. MaxThreads : Started = 1 .. k
    BY DEF InOrder
  <2>2. k \in Nat
    BY <2>1, ProgramAssumption
  <2>3. Cardinality(1 .. k) = IF 1 > k THEN 0 ELSE k - 1 + 1
    BY <2>2, FS_Interval
  <2>4. Cardinality(Started) + 1 \notin Started
    BY <2>1, <2>2, <2>3
  <2>5. /\ UNCHANGED <<output, run, pushed, got>>
        /\ tpc' = [tpc EXCEPT ![Cardinality(Started) + 1] = "begin"]
        /\ arg' = [arg EXCEPT ![Cardinality(Started) + 1] = name[c]]
    BY <1>4 DEF Emplace, queueVars
  <2>6. \A t \in Threads : tpc[t] = "exec" => t # Cardinality(Started) + 1
    BY <2>4 DEF Started
  <2>7. \A t \in Threads : t # Cardinality(Started) + 1 => tpc'[t] = tpc[t] /\ arg'[t] = arg[t]
    BY <1>1, <2>5
  <2>8. \A t \in Threads : t = Cardinality(Started) + 1 => tpc'[t] = "begin"
    BY <1>1, <2>5
  <2>. QED
    BY <2>5, <2>6, <2>7, <2>8 DEF FramesStill
<1>5. ASSUME NEW r \in Requests, FinalCall(r), RemoveEvent(r)
      PROVE  \E n \in AllNames : Dropped(n)
  <2>1. name'[r] = asked[r].name /\ asked[r].name \in AllNames
    BY <1>5 DEF FinalCall, OnceInv, Shape, Ask, Callers
  <2>2. stops'[name'[r]] = stops[name'[r]] + 1
    BY <1>1, <1>5, <2>1 DEF RemoveEvent
  <2>3. stops'[name'[r]] # 0
    BY <1>1, <2>1, <2>2
  <2>. QED
    BY <1>5, <2>1, <2>3 DEF FinalCall, RemoveEvent, Dropped, threadVars
<1>6. ASSUME NEW t \in Threads, Loop(t) PROVE FramesStill \/ Taken(t) \/ Executed(t)
  <2>1. UNCHANGED pushed
    BY <1>6 DEF Loop
  <2>2. CASE Begin(t) \/ PopCheck(t)
    <3>1. /\ tpc[t] \notin {"exec"} /\ UNCHANGED <<output, run, got>>
          /\ \E p \in ThreadPlaces \ {"exec"} : tpc' = [tpc EXCEPT ![t] = p]
          /\ UNCHANGED arg \/ arg' = [arg EXCEPT ![t] = This(t).name]
      BY <2>2 DEF Begin, PopCheck, ThreadPlaces
    <3>. QED
      BY <1>1, <2>1, <3>1 DEF FramesStill
  <2>3. CASE (PopStopped(t) \/ PopPark(t)) /\ UNCHANGED <<arg, run>>
    <3>1. /\ tpc[t] \notin {"exec"} /\ UNCHANGED <<output, run, got, arg>>
          /\ \E p \in ThreadPlaces \ {"exec"} : tpc' = [tpc EXCEPT ![t] = p]
      BY <2>3 DEF PopStopped, PopPark, ThreadPlaces
    <3>. QED
      BY <1>1, <2>1, <3>1 DEF FramesStill
  <2>4. CASE Fault(t)
    BY <2>1, <2>4 DEF Fault, FramesStill
  <2>. QED
    BY <1>6, <2>1, <2>2, <2>3, <2>4 DEF Loop, PopTest, Taken, Executed
<1>7. ASSUME NEW t \in Threads, SpuriousWake(t) PROVE FramesStill
  BY <1>1, <1>7 DEF SpuriousWake, queueVars, FramesStill
<1>8. CASE \/ UNCHANGED vars \/ RaceFault \/ PushFault \/ \E n \in Uploaded : Upload(n)
           \/ \E r \in Requests : Lookup(r) \/ Delete(r)
  BY <1>2, <1>8 DEF vars, RaceFault, PushFault, Upload, Lookup, Delete
<1>9. CASE InitNext
  BY <1>3, <1>9 DEF InitNext, Callers
<1>10. ASSUME NEW r \in Requests, FinalCall(r)
       PROVE  FramesStill \/ \E n \in AllNames : Dropped(n)
  BY <1>3, <1>5, <1>10 DEF FinalCall, Callers
<1>. QED
  BY <1>4, <1>6, <1>7, <1>8, <1>9, <1>10 DEF Next

LEMMA ApartKept ==
  ASSUME OnceInv, Bounds, InOrder, FramesApart, [Next]_vars PROVE FramesApart'
<1>1. /\ tpc \in [Threads -> ThreadPlaces] /\ arg \in [Threads -> AllNames]
      /\ got \in [Threads -> 0 .. MaxFrames] /\ pushed \in Nat /\ MaxFrames \in Nat
      /\ output \in [AllNames -> Seq(1 .. MaxFrames)] /\ run \in [AllNames -> SUBSET (1 .. MaxFrames)]
  BY ProgramAssumption DEF OnceInv, Shape, Bounds
<1>2. /\ \A n \in AllNames : /\ Increasing(output[n]) /\ Queued(n) \subseteq 1 .. pushed
                             /\ run[n] \subseteq 1 .. pushed /\ run[n] \cap Queued(n) = {}
      /\ \A t \in Threads : tpc[t] = "exec" =>
            /\ got[t] \in (1 .. pushed) \ (run[arg[t]] \cup Queued(arg[t]))
            /\ \A u \in Threads \ {t} : tpc[u] = "exec" /\ arg[u] = arg[t] => got[u] # got[t]
  BY DEF FramesApart
<1>3. CASE FramesStill
  <2>1. \A n \in AllNames : Queued(n)' = Queued(n)
    BY <1>3 DEF FramesStill, Queued
  <2>2. \A t \in Threads : tpc'[t] = "exec" =>
            /\ got'[t] \in (1 .. pushed') \ (run'[arg'[t]] \cup Queued(arg[t])')
            /\ \A u \in Threads \ {t} : tpc'[u] = "exec" /\ arg'[u] = arg'[t] => got'[u] # got'[t]
    BY <1>1, <1>2, <1>3, <2>1 DEF FramesStill
  <2>3. \A n \in AllNames : /\ Increasing(output'[n]) /\ Queued(n)' \cup run'[n] \subseteq 1 .. pushed'
                            /\ run'[n] \cap Queued(n)' = {}
    BY <1>2, <1>3, <2>1 DEF FramesStill
  <2>. QED
    BY <2>2, <2>3 DEF FramesApart
<1>4. CASE Push
  <2>1. /\ pushed' = pushed + 1 /\ UNCHANGED <<run, arg, got>>
        /\ \A t \in Threads : tpc'[t] = "exec" <=> tpc[t] = "exec"
        /\ \A n \in AllNames : output'[n] \in {output[n], Append(output[n], pushed + 1)}
    BY <1>1, <1>4 DEF Push, Sleepers
  <2>2. ASSUME NEW n \in AllNames
        PROVE  Increasing(output'[n]) /\ Queued(n)' \subseteq Queued(n) \cup {pushed + 1}
    <3>1. \A f \in Frames(output[n]) : f < pushed + 1
      BY <1>1, <1>2 DEF Queued
    <3>2. /\ Increasing(Append(output[n], pushed + 1))
          /\ Frames(Append(output[n], pushed + 1)) = Frames(output[n]) \cup {pushed + 1}
      BY <1>1, <1>2, <3>1, FrameAppended
    <3>. QED
      BY <1>2, <2>1, <3>2 DEF Queued
  <2>3. pushed + 1 \notin 1 .. pushed /\ 1 .. pushed \cup {pushed + 1} = 1 .. (pushed + 1)
    BY <1>1
  <2>4. \A n \in AllNames : /\ Queued(n)' \cup run'[n] \subseteq 1 .. pushed'
                            /\ run'[n] \cap Queued(n)' = {}
    BY <1>2, <2>1, <2>2, <2>3
  <2>5. \A t \in Threads : tpc'[t] = "exec" =>
            /\ got'[t] \in (1 .. pushed') \ (run'[arg'[t]] \cup Queued(arg[t])')
            /\ \A u \in Threads \ {t} : tpc'[u] = "exec" /\ arg'[u] = arg'[t] => got'[u] # got'[t]
    BY <1>1, <1>2, <2>1, <2>2, <2>3
  <2>. QED
    BY <2>2, <2>4, <2>5 DEF FramesApart, Queued
<1>5. ASSUME NEW t \in Threads, Taken(t) PROVE FramesApart'
  <2>. DEFINE n == arg[t]
  <2>1. /\ n \in AllNames /\ tpc[t] = "test" /\ output[n] # <<>>
        /\ got' = [got EXCEPT ![t] = Head(output[n])] /\ tpc' = [tpc EXCEPT ![t] = "exec"]
        /\ output' = [output EXCEPT ![n] = Tail(@)] /\ UNCHANGED <<arg, run, pushed>>
    BY <1>1, <1>5 DEF Taken, PopTake, Rest
  <2>2. /\ Increasing(Tail(output[n]))
        /\ Frames(output[n]) = Frames(Tail(output[n])) \cup {Head(output[n])}
        /\ Head(output[n]) \notin Frames(Tail(output[n]))
    BY <1>1, <1>2, <2>1, HeadTaken
  <2>3. /\ Queued(n) = Queued(n)' \cup {Head(output[n])} /\ Head(output[n]) \notin Queued(n)'
        /\ \A m \in AllNames : m # n => Queued(m)' = Queued(m) /\ output'[m] = output[m]
        /\ Increasing(output'[n])
    BY <1>1, <2>1, <2>2 DEF Queued
  <2>4. \A m \in AllNames : /\ Increasing(output'[m]) /\ Queued(m)' \cup run'[m] \subseteq 1 .. pushed'
                            /\ run'[m] \cap Queued(m)' = {}
    BY <1>2, <2>1, <2>3
  <2>5. /\ got'[t] = Head(output[n]) /\ tpc'[t] = "exec"
        /\ \A u \in Threads \ {t} : got'[u] = got[u] /\ tpc'[u] = tpc[u]
    BY <1>1, <2>1
  <2>6. /\ got'[t] \in (1 .. pushed) \ (run[n] \cup Queued(n)')
        /\ \A u \in Threads \ {t} : tpc[u] = "exec" /\ arg[u] = n => got[u] # got'[t]
    BY <1>2, <2>1, <2>3, <2>5
  <2>7. \A u \in Threads : tpc'[u] = "exec" =>
            /\ got'[u] \in (1 .. pushed') \ (run'[arg'[u]] \cup Queued(arg[u])')
            /\ \A v \in Threads \ {u} : tpc'[v] = "exec" /\ arg'[v] = arg'[u] => got'[v] # got'[u]
    <3>. SUFFICES ASSUME NEW u \in Threads, tpc'[u] = "exec"
         PROVE /\ got'[u] \in (1 .. pushed) \ (run[arg[u]] \cup Queued(arg[u])')
               /\ \A v \in Threads \ {u} : tpc'[v] = "exec" /\ arg[v] = arg[u] => got'[v] # got'[u]
      BY <2>1
    <3>1. CASE u = t
      BY <2>5, <2>6, <3>1
    <3>2. CASE u # t
      <4>1. /\ tpc[u] = "exec" /\ got'[u] = got[u] /\ arg[u] \in AllNames
            /\ Queued(arg[u])' \subseteq Queued(arg[u])
        BY <1>1, <2>1, <2>3, <2>5, <3>2
      <4>. QED
        BY <1>2, <2>5, <2>6, <3>2, <4>1
    <3>. QED
      BY <3>1, <3>2
  <2>. HIDE DEF n
  <2>. QED
    BY <2>4, <2>7 DEF FramesApart
<1>6. ASSUME NEW t \in Threads, Executed(t) PROVE FramesApart'
  <2>1. /\ tpc[t] = "exec" /\ run' = [run EXCEPT ![arg[t]] = @ \cup {got[t]}] /\ arg[t] \in AllNames
        /\ got' = [got EXCEPT ![t] = 0] /\ tpc' = [tpc EXCEPT ![t] = "loop"]
        /\ UNCHANGED <<arg, output, pushed>>
    BY <1>1, <1>6 DEF Executed, Exec
  <2>2. /\ run'[arg[t]] = run[arg[t]] \cup {got[t]}
        /\ \A m \in AllNames : (m # arg[t] => run'[m] = run[m]) /\ Queued(m)' = Queued(m)
        /\ \A u \in Threads : tpc'[u] = "exec" => u # t /\ tpc[u] = "exec" /\ got'[u] = got[u]
    BY <1>1, <2>1 DEF Queued
  <2>3. \A m \in AllNames : /\ Increasing(output'[m]) /\ Queued(m)' \cup run'[m] \subseteq 1 .. pushed'
                            /\ run'[m] \cap Queued(m)' = {}
    BY <1>2, <2>1, <2>2
  <2>4. \A u \in Threads : tpc'[u] = "exec" =>
            /\ got'[u] \in (1 .. pushed') \ (run'[arg'[u]] \cup Queued(arg[u])')
            /\ \A v \in Threads \ {u} : tpc'[v] = "exec" /\ arg'[v] = arg'[u] => got'[v] # got'[u]
    BY <1>1, <1>2, <2>1, <2>2
  <2>. QED
    BY <2>3, <2>4 DEF FramesApart
<1>7. ASSUME NEW n \in AllNames, Dropped(n) PROVE FramesApart'
  <2>1. /\ output'[n] = <<>> /\ \A m \in AllNames : m # n => output'[m] = output[m]
        /\ UNCHANGED <<run, pushed, tpc, arg, got>>
    BY <1>1, <1>7 DEF Dropped
  <2>2. Queued(n)' = {} /\ Increasing(output'[n])
    BY <2>1 DEF Queued, Frames, Increasing
  <2>3. \A m \in AllNames : Queued(m)' \subseteq Queued(m) /\ Increasing(output'[m])
    BY <1>2, <2>1, <2>2 DEF Queued
  <2>4. \A u \in Threads : tpc'[u] = "exec" =>
            /\ got'[u] \in (1 .. pushed') \ (run'[arg'[u]] \cup Queued(arg[u])')
            /\ \A v \in Threads \ {u} : tpc'[v] = "exec" /\ arg'[v] = arg'[u] => got'[v] # got'[u]
    BY <1>1, <1>2, <2>1, <2>3
  <2>. QED
    BY <1>2, <2>1, <2>3, <2>4 DEF FramesApart
<1>. QED
  BY <1>3, <1>4, <1>5, <1>6, <1>7, FramesMove

\* Frames leave a program only when it is stopped; a delivered one joins them.
LEMMA SeenKept ==
  ASSUME OnceInv, Bounds, InOrder, FramesApart, [Next]_vars, NEW n \in AllNames, stops'[n] = 0
  PROVE  \/ Seen(n)' = Seen(n) /\ UNCHANGED pushed
         \/ Push /\ Seen(n)' = Seen(n) \cup IF info[n].owner # 0 /\ info[n].rate = "good"
                                            THEN {pushed'} ELSE {}
<1>1. /\ tpc \in [Threads -> ThreadPlaces] /\ arg \in [Threads -> AllNames]
      /\ got \in [Threads -> 0 .. MaxFrames] /\ pushed \in Nat /\ MaxFrames \in Nat
      /\ output \in [AllNames -> Seq(1 .. MaxFrames)] /\ run \in [AllNames -> SUBSET (1 .. MaxFrames)]
  BY ProgramAssumption DEF OnceInv, Shape, Bounds
<1>2. CASE FramesStill
  BY <1>1, <1>2 DEF FramesStill, Seen, Queued, InHand
<1>3. CASE Push
  <2>1. /\ pushed' = pushed + 1 /\ UNCHANGED <<run, arg, got>>
        /\ \A t \in Threads : tpc'[t] = "exec" <=> tpc[t] = "exec"
        /\ output'[n] = IF info[n].owner # 0 /\ info[n].rate = "good"
                        THEN Append(output[n], pushed + 1) ELSE output[n]
    BY <1>1, <1>3 DEF Push, Sleepers
  <2>2. run'[n] = run[n] /\ InHand(n)' = InHand(n)
    BY <1>1, <2>1 DEF InHand
  <2>3. \A f \in Frames(output[n]) : f < pushed + 1
    BY <1>1 DEF FramesApart, Queued
  <2>4. Frames(Append(output[n], pushed + 1)) = Frames(output[n]) \cup {pushed + 1}
    BY <1>1, <2>3, FrameAppended DEF FramesApart
  <2>. QED
    BY <1>3, <2>1, <2>2, <2>4 DEF Seen, Queued
<1>4. ASSUME NEW t \in Threads, Taken(t) PROVE Seen(n)' = Seen(n) /\ UNCHANGED pushed
  <2>1. /\ arg[t] \in AllNames /\ tpc[t] = "test" /\ output[arg[t]] # <<>>
        /\ got'[t] = Head(output[arg[t]]) /\ tpc'[t] = "exec"
        /\ \A u \in Threads \ {t} : got'[u] = got[u] /\ tpc'[u] = tpc[u]
        /\ output' = [output EXCEPT ![arg[t]] = Tail(@)] /\ UNCHANGED <<arg, run, pushed>>
    BY <1>1, <1>4 DEF Taken, PopTake, Rest
  <2>2. CASE n = arg[t]
    <3>1. Frames(output[n]) = Frames(Tail(output[n])) \cup {Head(output[n])}
      BY <1>1, <2>1, <2>2, HeadTaken DEF FramesApart
    <3>2. Queued(n) = Queued(n)' \cup {Head(output[n])}
      BY <1>1, <2>1, <2>2, <3>1 DEF Queued
    <3>3. InHand(n)' = InHand(n) \cup {Head(output[n])}
      BY <2>1, <2>2 DEF InHand
    <3>. QED
      BY <2>1, <3>2, <3>3 DEF Seen
  <2>3. CASE n # arg[t]
    <3>1. Queued(n)' = Queued(n)
      BY <1>1, <2>1, <2>3 DEF Queued
    <3>2. InHand(n)' = InHand(n)
      BY <2>1, <2>3 DEF InHand
    <3>. QED
      BY <2>1, <3>1, <3>2 DEF Seen
  <2>. QED
    BY <2>2, <2>3
<1>5. ASSUME NEW t \in Threads, Executed(t) PROVE Seen(n)' = Seen(n) /\ UNCHANGED pushed
  <2>1. /\ arg[t] \in AllNames /\ tpc[t] = "exec" /\ tpc'[t] = "loop"
        /\ \A u \in Threads \ {t} : got'[u] = got[u] /\ tpc'[u] = tpc[u]
        /\ run' = [run EXCEPT ![arg[t]] = @ \cup {got[t]}] /\ UNCHANGED <<arg, output, pushed>>
    BY <1>1, <1>5 DEF Executed, Exec
  <2>2. Queued(n)' = Queued(n)
    BY <2>1 DEF Queued
  <2>3. CASE n = arg[t]
    <3>1. run'[n] = run[n] \cup {got[t]}
      BY <1>1, <2>1, <2>3
    <3>2. InHand(n) = InHand(n)' \cup {got[t]}
      BY <2>1, <2>3 DEF InHand
    <3>. QED
      BY <2>1, <2>2, <3>1, <3>2 DEF Seen
  <2>4. CASE n # arg[t]
    <3>1. run'[n] = run[n]
      BY <1>1, <2>1, <2>4
    <3>2. InHand(n)' = InHand(n)
      BY <2>1, <2>4 DEF InHand
    <3>. QED
      BY <2>1, <2>2, <3>1, <3>2 DEF Seen
  <2>. QED
    BY <2>3, <2>4
<1>6. ASSUME NEW m \in AllNames, Dropped(m) PROVE Seen(n)' = Seen(n) /\ UNCHANGED pushed
  <2>1. n # m
    BY <1>6 DEF Dropped
  <2>2. output'[n] = output[n] /\ UNCHANGED <<run, pushed, tpc, arg, got>>
    BY <1>1, <1>6, <2>1 DEF Dropped
  <2>. QED
    BY <2>2 DEF Seen, Queued, InHand
<1>. QED
  BY <1>2, <1>3, <1>4, <1>5, <1>6, FramesMove

\* A processor is deleted only by a stop of its name.
Buried ==
    \A a \in Addresses : ~objects[a].live /\ objects[a].name \in Names => stops[objects[a].name] # 0

Given ==
    \A n \in Names : stops[n] = 0 /\ ~Disabled(n) =>
        /\ info[n].owner # 0 => info[n].isRun = "on"
        /\ Seen(n) # {} => info[n].owner # 0 /\ info[n].rate = "good"
        /\ \A f \in Seen(n) : f .. pushed \subseteq Seen(n)

LEMMA StopsGrow ==
  ASSUME OnceInv, [Next]_vars, NEW n \in AllNames
  PROVE  stops[n] \in Nat /\ stops'[n] \in Nat /\ stops[n] <= stops'[n]
<1>1. stops \in [AllNames -> Nat]
  BY DEF OnceInv, Shape
<1>2. UNCHANGED stops \/ \E m : stops' = [stops EXCEPT ![m] = @ + 1]
  <2>1. ASSUME NEW c \in Callers, Construct(c) PROVE UNCHANGED stops
    BY <2>1 DEF Construct
  <2>2. ASSUME NEW r \in Requests, RemoveEvent(r) PROVE \E m : stops' = [stops EXCEPT ![m] = @ + 1]
    BY <2>2 DEF RemoveEvent
  <2>. QED
    BY <2>1, <2>2 DEF Next, InitNext, Push, PushFault, RaceFault, Upload, Emplace, FinalCall, Lookup, Delete, Loop,
       SpuriousWake, vars, callVars, Callers
<1>3. UNCHANGED stops \/ \E m \in AllNames : stops' = [stops EXCEPT ![m] = @ + 1]
  BY <1>1, <1>2
<1>. QED
  BY <1>1, <1>3

\* What happens to the memory of the processors.
LEMMA ObjectsMove ==
  ASSUME OnceInv, [Next]_vars, Once'
  PROVE  /\ Once /\ Safe
         /\ \/ UNCHANGED objects
            \/ \E a \in Free : /\ objects'[a].live
                               /\ \A o \in Addresses \ {a} : objects'[o] = objects[o]
            \/ \E a \in Addresses :
                  /\ stops[objects[a].name] # 0 /\ objects'[a] = [objects[a] EXCEPT !.live = FALSE]
                  /\ \A o \in Addresses \ {a} : objects'[o] = objects[o]
<1>1. objects \in [Addresses -> Processor] /\ name \in [Callers -> AllNames]
  BY DEF OnceInv, Shape
<1>2. Once /\ Safe
  BY StopsGrow DEF Once, OnceInv
<1>3. ASSUME NEW c \in Callers, Construct(c)
      PROVE  \E a \in Free : /\ objects'[a].live
                             /\ \A o \in Addresses \ {a} : objects'[o] = objects[o]
  <2>. DEFINE d == dir[name'[c]]
  <2>1. PICK a \in Free, z \in IF d.rate = "none" THEN Rates ELSE {d.rate},
             e \in IF d.enable = "none" THEN {"on", "off"} ELSE {Enabled(d.enable)} :
             objects' = [objects EXCEPT ![a] = [name |-> name'[c], rate |-> z, enable |-> e,
                                               loaded |-> d.so, live |-> TRUE]]
    BY <1>3 DEF Construct
  <2>2. a \in Addresses
    BY DEF Free
  <2>3. objects'[a].live /\ \A o \in Addresses \ {a} : objects'[o] = objects[o]
    BY <1>1, <2>1, <2>2
  <2>. QED
    BY <2>3
<1>4. ASSUME NEW r \in Requests, Delete(r), objects' # objects
      PROVE  \E a \in Addresses :
                /\ stops[objects[a].name] # 0 /\ objects'[a] = [objects[a] EXCEPT !.live = FALSE]
                /\ \A o \in Addresses \ {a} : objects'[o] = objects[o]
  <2>1. place[r] = "delete" /\ objects' = [objects EXCEPT ![ptr[r]].live = FALSE]
    BY <1>4 DEF Delete
  <2>2. IsProgram(ptr[r], name[r]) /\ stops[name[r]] = 1
    BY <1>2, <2>1 DEF Safe, Entries, OneStopper, Stopping
  <2>3. ptr[r] \in Addresses /\ stops[objects[ptr[r]].name] # 0
    BY <2>2 DEF IsProgram
  <2>. QED
    BY <1>1, <2>1, <2>3
<1>5. ASSUME NEW r \in Requests, RemoveEvent(r) PROVE UNCHANGED objects
  BY <1>5 DEF RemoveEvent
<1>6. ASSUME NEW c \in Callers, Emplace(c) PROVE UNCHANGED objects
  BY <1>6 DEF Emplace, Emplaced
<1>. QED
  BY <1>2, <1>3, <1>4, <1>5, <1>6 DEF Next, InitNext, Push, PushFault, RaceFault, Upload, FinalCall, Lookup, Loop,
     SpuriousWake, vars, Callers

LEMMA BuriedKept ==
  ASSUME OnceInv, Buried, [Next]_vars, Once'
  PROVE  /\ Buried'
         /\ \A n \in Names : stops'[n] = 0 /\ Disabled(n) => Disabled(n)'
<1>1. objects \in [Addresses -> Processor] /\ Names \subseteq AllNames
  BY DEF OnceInv, Shape, AllNames
<1>2. \A n \in Names : stops[n] # 0 => stops'[n] # 0
  BY <1>1, StopsGrow
<1>3. CASE UNCHANGED objects
  BY <1>2, <1>3 DEF Buried, Disabled
<1>4. ASSUME NEW a \in Free, objects'[a].live, \A o \in Addresses \ {a} : objects'[o] = objects[o]
      PROVE  /\ Buried'
             /\ \A n \in Names : stops'[n] = 0 /\ Disabled(n) => Disabled(n)'
  <2>1. a \in Addresses /\ ~objects[a].live
    BY DEF Free
  <2>2. Buried'
    BY <1>2, <1>4 DEF Buried
  <2>3. ASSUME NEW n \in Names, stops'[n] = 0, Disabled(n) PROVE Disabled(n)'
    <3>1. PICK o \in Addresses : objects[o].name = n /\ objects[o].enable = "off"
      BY <2>3 DEF Disabled
    <3>2. o # a
      BY <1>2, <2>1, <2>3, <3>1 DEF Buried
    <3>. QED
      BY <1>4, <3>1, <3>2 DEF Disabled
  <2>. QED
    BY <2>2, <2>3
<1>5. ASSUME NEW a \in Addresses, stops[objects[a].name] # 0,
             objects'[a] = [objects[a] EXCEPT !.live = FALSE],
             \A o \in Addresses \ {a} : objects'[o] = objects[o]
      PROVE  /\ Buried'
             /\ \A n \in Names : stops'[n] = 0 /\ Disabled(n) => Disabled(n)'
  <2>1. objects'[a].name = objects[a].name /\ objects'[a].enable = objects[a].enable
    BY <1>1, <1>5 DEF Processor
  <2>2. Buried'
    BY <1>2, <1>5, <2>1 DEF Buried
  <2>3. \A n \in Names : Disabled(n) => Disabled(n)'
    BY <1>5, <2>1 DEF Disabled
  <2>. QED
    BY <2>2, <2>3
<1>. QED
  BY <1>3, <1>4, <1>5, ObjectsMove

\* The subscription of a name is made once, and ended only by a stop or by a
\* disabled processor.
LEMMA InfoMove ==
  ASSUME OnceInv, Bounds, [Next]_vars, NEW n \in Names, stops'[n] = 0,
         info[n].owner # 0 => info[n].isRun = "on"
  PROVE  \/ info'[n] = info[n]
         \/ /\ info[n].owner = 0 /\ info'[n].owner # 0 /\ UNCHANGED pushed
            /\ info'[n].isRun = "on" \/ Disabled(n)'
<1>1. /\ info \in [AllNames -> [owner : 0 .. MaxThreads, rate : Rates, isRun : {"on", "off"}]]
      /\ stops \in [AllNames -> Nat] /\ n \in AllNames /\ arg \in [Threads -> AllNames]
  BY DEF OnceInv, Shape, Bounds, AllNames
<1>2. ASSUME NEW t \in Threads, Begin(t), UNCHANGED <<objects, self, pushed>>
      PROVE  \/ info'[n] = info[n]
             \/ /\ info[n].owner = 0 /\ info'[n].owner # 0 /\ UNCHANGED pushed
                /\ info'[n].isRun = "on" \/ Disabled(n)'
  <2>1. self[t] \in Addresses /\ objects \in [Addresses -> Processor] /\ t # 0
    BY <1>2 DEF Begin, OnceInv, Shape, Threads
  <2>2. This(t) \in Processor /\ This(t) = objects[self[t]]
    BY <2>1 DEF This
  <2>3. This(t).enable \in {"on", "off"} /\ This(t).name \in AllNames
    BY <2>2 DEF Processor
  <2>4. CASE This(t).name = n /\ info[n].owner = 0
    <3>1. info'[n] = [owner |-> t, rate |-> This(t).rate, isRun |-> This(t).enable]
      BY <1>1, <1>2, <2>4 DEF Begin
    <3>2. This(t).enable = "off" => Disabled(n)'
      BY <1>2, <2>1, <2>2, <2>4 DEF Disabled
    <3>. QED
      BY <1>2, <2>1, <2>3, <2>4, <3>1, <3>2
  <2>5. CASE ~(This(t).name = n /\ info[n].owner = 0)
    BY <1>1, <1>2, <2>3, <2>5 DEF Begin
  <2>. QED
    BY <2>4, <2>5
<1>3. ASSUME NEW t \in Threads, PopStopped(t) PROVE info'[n] = info[n]
  BY <1>1, <1>3 DEF PopStopped
<1>4. ASSUME NEW t \in Threads, Loop(t), ~Begin(t) PROVE info'[n] = info[n]
  BY <1>3, <1>4 DEF Loop, PopCheck, Exec, Fault, PopTest, PopTake, PopPark
<1>5. ASSUME NEW r \in Requests, FinalCall(r) PROVE info'[n] = info[n]
  <2>1. CASE Construct(r)
    BY <2>1 DEF Construct
  <2>2. CASE RemoveEvent(r)
    <3>1. name'[r] \in AllNames
      BY <1>5 DEF FinalCall, OnceInv, Shape, Ask, Callers
    <3>2. name'[r] # n
      <4>. SUFFICES ASSUME name'[r] = n PROVE FALSE
        OBVIOUS
      <4>1. stops'[n] = stops[n] + 1
        BY <1>1, <2>2 DEF RemoveEvent
      <4>. QED
        BY <1>1, <4>1
    <3>. QED
      BY <1>1, <2>2, <3>1, <3>2 DEF RemoveEvent
  <2>. QED
    BY <1>5, <2>1, <2>2 DEF FinalCall
<1>6. ASSUME NEW t \in Threads, Loop(t) PROVE UNCHANGED <<objects, self, pushed>>
  BY <1>6 DEF Loop
<1>. QED
  BY <1>2, <1>4, <1>5, <1>6 DEF Next, InitNext, Construct, Push, PushFault, RaceFault, Upload, Emplace, Lookup,
     Delete, SpuriousWake, vars, queueVars

LEMMA GivenKept ==
  ASSUME OnceInv, Bounds, InOrder, FramesApart, Once => Buried /\ Given, [Next]_vars, Once'
  PROVE  Buried' /\ Given'
<1>1. Once /\ Buried /\ Given /\ Names \subseteq AllNames
  BY ObjectsMove DEF AllNames
<1>2. Buried' /\ \A n \in Names : stops'[n] = 0 /\ Disabled(n) => Disabled(n)'
  BY <1>1, BuriedKept
<1>3. ASSUME NEW n \in Names, stops'[n] = 0, ~Disabled(n)'
      PROVE  /\ info'[n].owner # 0 => info'[n].isRun = "on"
             /\ Seen(n)' # {} => info'[n].owner # 0 /\ info'[n].rate = "good"
             /\ \A f \in Seen(n)' : f .. pushed' \subseteq Seen(n)'
  <2>1. n \in AllNames /\ stops[n] = 0 /\ ~Disabled(n)
    BY <1>1, <1>2, <1>3, StopsGrow
  <2>2. /\ info[n].owner # 0 => info[n].isRun = "on"
        /\ Seen(n) # {} => info[n].owner # 0 /\ info[n].rate = "good"
        /\ \A f \in Seen(n) : f .. pushed \subseteq Seen(n)
    BY <1>1, <2>1 DEF Given
  <2>3. \/ Seen(n)' = Seen(n) /\ UNCHANGED pushed
        \/ Push /\ Seen(n)' = Seen(n) \cup IF info[n].owner # 0 /\ info[n].rate = "good"
                                           THEN {pushed'} ELSE {}
    BY <1>3, <2>1, SeenKept
  <2>4. \/ info'[n] = info[n]
        \/ /\ info[n].owner = 0 /\ info'[n].owner # 0 /\ UNCHANGED pushed
           /\ info'[n].isRun = "on"
    BY <1>3, <2>2, InfoMove
  <2>5. CASE Seen(n)' = Seen(n) /\ UNCHANGED pushed
    BY <2>2, <2>4, <2>5
  <2>6. CASE Push /\ Seen(n)' = Seen(n) \cup IF info[n].owner # 0 /\ info[n].rate = "good"
                                             THEN {pushed'} ELSE {}
    <3>1. pushed' = pushed + 1 /\ pushed \in Nat /\ info'[n] = info[n]
      BY <2>6, ProgramAssumption DEF Push, Bounds
    <3>2. CASE info[n].owner # 0 /\ info[n].rate = "good"
      <4>1. Seen(n)' = Seen(n) \cup {pushed + 1}
        BY <2>6, <3>1, <3>2
      <4>2. ASSUME NEW f \in Seen(n)' PROVE f .. pushed' \subseteq Seen(n)'
        <5>1. CASE f \in Seen(n)
          <6>1. f .. pushed \subseteq Seen(n)
            BY <2>2, <5>1
          <6>2. f \in Nat
            <7>1. /\ output[n] \in Seq(1 .. MaxFrames) /\ run[n] \subseteq 1 .. MaxFrames
                  /\ got \in [Threads -> 0 .. MaxFrames] /\ MaxFrames \in Nat
              BY <2>1, ProgramAssumption DEF Bounds
            <7>. QED
              BY <5>1, <7>1 DEF Seen, InHand, Queued, Frames
          <6>3. f .. (pushed + 1) \subseteq f .. pushed \cup {pushed + 1}
            BY <3>1, <6>2
          <6>. QED
            BY <3>1, <4>1, <6>1, <6>3
        <5>2. CASE f = pushed + 1
          BY <3>1, <4>1, <5>2
        <5>. QED
          BY <4>1, <4>2, <5>1, <5>2
      <4>. QED
        BY <2>2, <3>1, <3>2, <4>2
    <3>3. CASE ~(info[n].owner # 0 /\ info[n].rate = "good")
      <4>1. Seen(n)' = {}
        BY <2>2, <2>6, <3>3
      <4>. QED
        BY <2>2, <3>1, <4>1
    <3>. QED
      BY <3>2, <3>3
  <2>. QED
    BY <2>3, <2>5, <2>6
<1>. QED
  BY <1>2, <1>3 DEF Given

FramesInv == InOrder /\ FramesApart /\ (Once => Buried /\ Given)

LEMMA FramesAlways == Spec => []FramesInv
<1>1. Init => FramesInv
  <2>. SUFFICES ASSUME Init PROVE FramesInv
    OBVIOUS
  <2>1. InOrder
    <3>1. Started = 1 .. 0
      BY DEF Init, Started
    <3>2. 0 \in 0 .. MaxThreads
      BY ProgramAssumption
    <3>. QED
      BY <3>1, <3>2 DEF InOrder
  <2>2. \A n \in AllNames : Queued(n) = {} /\ InHand(n) = {} /\ run[n] = {} /\ Increasing(output[n])
    BY DEF Init, Queued, InHand, Frames, Increasing
  <2>3. FramesApart
    BY <2>2 DEF Init, FramesApart
  <2>4. Buried
    BY ProgramAssumption DEF Init, Buried, Blank
  <2>5. Given
    BY <2>2 DEF Init, Given, Seen, NoInfo, AllNames
  <2>. QED
    BY <2>1, <2>3, <2>4, <2>5 DEF FramesInv
<1>2. OnceInv /\ Bounds /\ FramesInv /\ [Next]_vars => FramesInv'
  BY ThreadsKept, ApartKept, GivenKept DEF FramesInv
<1>. QED
  BY <1>1, <1>2, OnceAlways, BoundsAlways, PTL DEF Spec

\* event_loop() never runs a frame that a thread of the same program has run, however
\* many threads start_event() has given it, as long as those threads use one
\* ThreadInfo: while it is not stopped and no processor has found it disabled.
THEOREM NoFrameIsRunTwice == Spec => RunOnce
<1>1. FramesInv => \A t \in Threads : Exec(t) /\ OneInfo(arg[t]) => got[t] \notin run[arg[t]]
  BY DEF FramesInv, FramesApart, Exec
<1>. QED
  BY <1>1, FramesAlways, PTL DEF RunOnce

\* What FrameIsRun rests on: a frame given to such a program stays in its queue or in
\* the hands of one of its threads until it is run.
THEOREM GivenFrameIsKept ==
  Spec => [][\A n \in AllNames : OneInfo(n)' => Seen(n) \subseteq Seen(n)']_vars
<1>1. OnceInv /\ Bounds /\ FramesInv /\ [Next]_vars
        => \A n \in AllNames : OneInfo(n)' => Seen(n) \subseteq Seen(n)'
  BY SeenKept DEF FramesInv, OneInfo
<1>. QED
  BY <1>1, OnceAlways, BoundsAlways, FramesAlways, PTL DEF Spec

\* From the first frame it is given on, a program is given every frame of the camera:
\* as long as no name is stopped twice, its own name not at all, and no processor
\* of its name found it disabled, however often it is started again.
NoneMissing ==
    Once => \A n \in Names : stops[n] = 0 /\ ~Disabled(n) => \A f \in Seen(n) : f .. pushed \subseteq Seen(n)

THEOREM NoFrameIsMissing == Spec => []NoneMissing
<1>1. FramesInv => NoneMissing
  BY DEF FramesInv, Given, NoneMissing
<1>. QED
  BY <1>1, FramesAlways, PTL
=============================================================================
