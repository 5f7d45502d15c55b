------------------------- MODULE ProgramUploadProofs -------------------------
(***************************************************************************)
(* What holds of program uploads for any number of requests and slots.     *)
(***************************************************************************)
EXTENDS ProgramUpload, FiniteSetTheorems, TLAPS

USE DEF saved

\* The part of the state that the slots depend on.
SlotInv ==
    /\ slots \in Nat /\ lost \in Nat /\ holding \subseteq Requests
    /\ DOMAIN pc = Requests
    /\ SlotsBalanced

LEMMA SlotTaken ==
  ASSUME SlotInv, NEW r \in Requests, Accept(r)
  PROVE  SlotInv'
<1>1. /\ slots > 0 /\ slots' = slots - 1 /\ lost' = lost
      /\ holding' = holding \cup {r} /\ pc' = [pc EXCEPT ![r] = "receiving"] /\ pc[r] = "new"
  BY DEF Accept, FreeSlot
<1>2. IsFiniteSet(holding) /\ r \notin holding
  BY <1>1, FormAssumption, FS_Subset DEF SlotInv, SlotsBalanced
<1>3. Cardinality(holding) \in Nat /\ Cardinality(holding') = Cardinality(holding) + 1
  BY <1>1, <1>2, FS_AddElement, FS_CardinalityType
<1>4. holding' = {s \in Requests : pc'[s] \in {"receiving", "gone", "answered"}}
  BY <1>1 DEF SlotInv, SlotsBalanced
<1>5. slots' + Cardinality(holding') + lost' = UploadUsers
  BY <1>1, <1>3 DEF SlotInv, SlotsBalanced
<1> QED
  BY <1>1, <1>4, <1>5 DEF SlotInv, SlotsBalanced

LEMMA SlotReturned ==
  ASSUME SlotInv, NEW r \in Requests, Complete(r)
  PROVE  SlotInv'
<1>1. /\ slots' = slots + 1 /\ lost' = lost /\ holding' = holding \ {r} /\ r \in holding
      /\ \E next \in {"done", "clear"} : pc' = [pc EXCEPT ![r] = next]
  BY DEF Complete, ReturnSlot, IsOver, SlotInv, SlotsBalanced
<1>2. IsFiniteSet(holding)
  BY FormAssumption, FS_Subset DEF SlotInv
<1>3. Cardinality(holding) \in Nat /\ Cardinality(holding') = Cardinality(holding) - 1
  BY <1>1, <1>2, FS_RemoveElement, FS_CardinalityType
<1>4. holding' = {s \in Requests : pc'[s] \in {"receiving", "gone", "answered"}}
  BY <1>1 DEF SlotInv, SlotsBalanced
<1>5. slots' + Cardinality(holding') + lost' = UploadUsers
  BY <1>1, <1>3 DEF SlotInv, SlotsBalanced
<1> QED
  BY <1>1, <1>4, <1>5 DEF SlotInv, SlotsBalanced

\* A step that moves a request without its entering or leaving the library's hands.
LEMMA SlotKept ==
  ASSUME SlotInv, NEW r \in Requests, UNCHANGED <<slots, lost, holding>>,
         \/ UNCHANGED pc
         \/ \E next : /\ pc' = [pc EXCEPT ![r] = next]
                      /\ (pc[r] \in {"receiving", "gone", "answered"}) <=> (next \in {"receiving", "gone", "answered"})
  PROVE  SlotInv'
  BY DEF SlotInv, SlotsBalanced

LEMMA SlotStep == SlotInv /\ [Next]_vars => SlotInv'
<1> SUFFICES ASSUME SlotInv, [Next]_vars PROVE SlotInv'
  OBVIOUS
<1>1. CASE UNCHANGED vars
  BY <1>1 DEF vars, SlotInv, SlotsBalanced
<1>2. ASSUME NEW r \in Requests, AcceptFails(r) PROVE SlotInv'
  <2>1. /\ slots > 0 /\ slots' = slots - 1 /\ lost' = lost + 1 /\ UNCHANGED holding
        /\ pc[r] = "new" /\ pc' = [pc EXCEPT ![r] = "done"]
    BY <1>2 DEF AcceptFails, FreeSlot
  <2>2. IsFiniteSet(holding)
    BY FormAssumption, FS_Subset DEF SlotInv
  <2>3. Cardinality(holding) \in Nat
    BY <2>2, FS_CardinalityType
  <2>4. slots' + Cardinality(holding') + lost' = UploadUsers /\ slots' \in Nat /\ lost' \in Nat
    BY <2>1, <2>3 DEF SlotInv, SlotsBalanced
  <2>5. holding' = {s \in Requests : pc'[s] \in {"receiving", "gone", "answered"}}
    BY <2>1 DEF SlotInv, SlotsBalanced
  <2> QED
    BY <2>1, <2>4, <2>5 DEF SlotInv, SlotsBalanced
<1>3. ASSUME NEW r \in Requests, Busy(r) \/ Receive(r) \/ Abandon(r) \/ End(r) PROVE SlotInv'
  <2>1. CASE Busy(r)
    <3>1. UNCHANGED <<slots, lost, holding>> /\ pc[r] = "new" /\ pc' = [pc EXCEPT ![r] = "done"]
      BY <2>1 DEF Busy
    <3>2. \E next : /\ pc' = [pc EXCEPT ![r] = next]
                    /\ (pc[r] \in {"receiving", "gone", "answered"}) <=> (next \in {"receiving", "gone", "answered"})
      <4> WITNESS "done"
      <4> QED
        BY <3>1
    <3> QED
      BY <3>1, <3>2, SlotKept
  <2>2. CASE Receive(r)
    BY <2>2, SlotKept DEF Receive
  <2>3. CASE End(r)
    <3>1. /\ UNCHANGED <<slots, lost, holding>> /\ pc[r] = "receiving"
          /\ UNCHANGED pc \/ pc' = [pc EXCEPT ![r] = "answered"]
      BY <2>3 DEF End
    <3> QED
      BY <3>1, SlotKept
  <2>4. CASE Abandon(r)
    <3>1. /\ UNCHANGED <<slots, lost, holding>> /\ pc[r] = "receiving"
          /\ pc' = [pc EXCEPT ![r] = "gone"]
      BY <2>4 DEF Abandon
    <3> QED
      BY <3>1, SlotKept
  <2> QED
    BY <1>3, <2>1, <2>2, <2>3, <2>4
<1>4. ASSUME NEW r \in Requests, Save(r) PROVE SlotInv'
  <2>1. UNCHANGED <<slots, lost, holding>>
    BY <1>4 DEF Save, Clear, Create, WriteProgram, WriteRate, WriteEnable, OpenFile, Finish, SaveVars
  <2>2. /\ pc[r] \in SavingStages
        /\ UNCHANGED pc \/ \E next \in SavingStages \cup {"done"} : pc' = [pc EXCEPT ![r] = next]
    BY <1>4 DEF Save, Clear, Create, WriteProgram, WriteRate, WriteEnable, OpenFile, Finish,
                SavingStages
  <2> QED
    BY <2>1, <2>2, SlotKept DEF SavingStages
<1> QED
  BY <1>1, <1>2, <1>3, <1>4, SlotTaken, SlotReturned DEF Next

\* For any number of requests and of slots: each slot is free, held by exactly the
\* requests that the library is still receiving or answering, or lost to a failed
\* post processor, so upload_clients bounds the uploads being received.
THEOREM SlotsAccounted == Spec => []SlotsBalanced
<1>1. Init => SlotInv
  BY FormAssumption, FS_EmptySet DEF Init, SlotInv, SlotsBalanced
<1>2. SlotInv => SlotsBalanced
  BY DEF SlotInv
<1> QED
  BY <1>1, <1>2, SlotStep, PTL DEF Spec

-----------------------------------------------------------------------------
(* The directories.  A name that two requests have not written at once has *)
(* one writer at most, which takes its directory through the stages below. *)

\* No more of a field is received than the client sends.
Bounded == \A r \in Requests : con[r].name <= Len(form[r].name)

DirTypes == [prog : Requests \cup {NoOne}, whole : BOOLEAN, fps : SUBSET Rates,
             enable : {"absent", "empty", "1"}] \cup {NoDir}

\* What request r has put in its directory: what it was given, unless a write failed.
Holds(r, rates, enable) ==
    /\ dir[NameOf(r)] \in [prog : {r}, whole : BOOLEAN, fps : {rates}, enable : {enable, "empty"}]
    /\ NameOf(r) \notin damaged =>
            dir[NameOf(r)].whole = Received(r) /\ dir[NameOf(r)].enable = enable

OneWriter ==
    \A r, s \in Requests :
        Saving(r) /\ Saving(s) /\ r # s /\ NameOf(r) = NameOf(s) => NameOf(r) \in overlapped

Stage(r) ==
    /\ pc[r] = "create" => dir[NameOf(r)] = NoDir
    /\ pc[r] = "program" => dir[NameOf(r)] = EmptyDir
    /\ pc[r] = "rate" => failed[r] \/ Holds(r, {}, "absent")
    /\ pc[r] = "enable" => failed[r] \/ Holds(r, {form[r].fps}, "absent")
    /\ pc[r] = "finish" => failed[r] \/ Holds(r, {form[r].fps}, "1")

Stages ==
    \A r \in Requests :
        Saving(r) => NameOf(r) \in Names /\ (NameOf(r) \in overlapped \/ Stage(r))

\* A directory at rest, or about to be cleared, is absent or of one upload: what the
\* upload has put in it, or a part of that if a write or a removal has failed.
Leaves(r) ==
    /\ dir[NameOf(r)] \in [prog : {r, NoOne}, whole : BOOLEAN, fps : SUBSET {form[r].fps},
                            enable : {"absent", "empty", "1"}]
    /\ NameOf(r) \notin damaged =>
            dir[NameOf(r)] = [prog |-> r, whole |-> Received(r), fps |-> {form[r].fps}, enable |-> "1"]

OneUpload(n) ==
    \E r \in Requests : NameOf(r) = n /\ (Saving(r) \/ pc[r] = "done") /\ Leaves(r)

Settled ==
    \A n \in Names \ overlapped :
        (\A r \in Requests : Saving(r) /\ NameOf(r) = n => pc[r] = "clear")
            => dir[n] = NoDir \/ OneUpload(n)

SaveInv == TypeOK /\ Bounded /\ OneWriter /\ Stages /\ Settled

LEMMA FormTypes ==
    ASSUME TypeOK, NEW r \in Requests
    PROVE  /\ form[r] \in [name : Seq(Names), fps : Rates, file : Nat]
           /\ form[r].name \in Seq(Names) /\ Len(form[r].name) \in Nat
           /\ form[r].fps \in Rates /\ form[r].file \in Nat
           /\ con[r] \in [name : Nat, fps : 0 .. 1, file : Nat]
  <1>1. form[r] \in [name : Seq(Names), fps : Rates, file : Nat]
    BY FormAssumption DEF TypeOK
  <1>2. form[r].name \in Seq(Names)
    BY <1>1
  <1> QED
    BY <1>1, <1>2 DEF TypeOK

LEMMA NameTypes ==
    ASSUME TypeOK, Bounded, NEW r \in Requests, ~SomeEmpty(r)
    PROVE  NameOf(r) \in Names
  <1>1. con[r].name # 0 /\ NameOf(r) = form[r].name[con[r].name]
    BY DEF SomeEmpty, NameOf
  <1>2. con[r].name \in 1 .. Len(form[r].name)
    BY <1>1, FormTypes DEF Bounded
  <1> QED
    BY <1>1, <1>2, FormTypes

\* A piece more of one field.
LEMMA PieceReceived ==
    ASSUME TypeOK, Bounded, NEW r \in Requests, Receive(r)
    PROVE  /\ con' \in [Requests -> [name : Nat, fps : 0 .. 1, file : Nat]]
           /\ con'[r].name <= Len(form[r].name)
           /\ \A s \in Requests \ {r} : con'[s] = con[s]
  <1>1. PICK field \in DOMAIN con[r] :
            con[r][field] < Total(r)[field] /\ con' = [con EXCEPT ![r][field] = @ + 1]
    BY DEF Receive
  <1>2. con \in [Requests -> [name : Nat, fps : 0 .. 1, file : Nat]]
    BY DEF TypeOK
  <1>3. field \in {"name", "fps", "file"}
    BY <1>1, <1>2
  <1>4. con[r].name <= Len(form[r].name) /\ Len(form[r].name) \in Nat
    BY FormTypes DEF Bounded
  <1>5. CASE field = "name"
    <2>1. con[r].name < Len(form[r].name) /\ con' = [con EXCEPT ![r].name = @ + 1]
      BY <1>1, <1>5 DEF Total
    <2> QED
      BY <2>1, <1>2, <1>4
  <1>6. CASE field = "fps"
    <2>1. con[r].fps < 1 /\ con' = [con EXCEPT ![r].fps = @ + 1]
      BY <1>1, <1>6 DEF Total
    <2> QED
      BY <2>1, <1>2, <1>4
  <1>7. CASE field = "file"
    <2>1. con' = [con EXCEPT ![r].file = @ + 1]
      BY <1>1, <1>7
    <2> QED
      BY <2>1, <1>2, <1>4
  <1> QED
    BY <1>3, <1>5, <1>6, <1>7

\* A file opened in a directory, or not, leaves a directory.
LEMMA OpenTypes ==
    ASSUME TypeOK, NEW r \in Requests, NEW d, NEW arrives, NEW next \in SavingStages,
           NameOf(r) \in Names, dir[NameOf(r)] # NoDir => d \in DirTypes,
           OpenFile(r, d, arrives, next)
    PROVE  TypeOK'
  <1>1. /\ UNCHANGED SaveVars /\ UNCHANGED crashed
        /\ pc' = [pc EXCEPT ![r] = next] /\ damaged' \in {damaged, damaged \cup {NameOf(r)}}
        /\ \/ dir[NameOf(r)] # NoDir /\ dir' = [dir EXCEPT ![NameOf(r)] = d] /\ UNCHANGED failed
           \/ failed' = [failed EXCEPT ![r] = TRUE] /\ UNCHANGED dir
    BY DEF OpenFile, SetDir
  <1>2. dir \in [Names -> DirTypes] /\ failed \in [Requests -> BOOLEAN]
    BY DEF TypeOK, DirTypes
  <1>3. dir' \in [Names -> DirTypes]
    BY <1>1, <1>2
  <1>4. failed' \in [Requests -> BOOLEAN]
    BY <1>1, <1>2
  <1> QED
    BY <1>1, <1>3, <1>4 DEF TypeOK, DirTypes, SaveVars

\* What a removal that fails leaves of a directory is a part of it.
LEMMA PartTypes ==
    ASSUME NEW d \in DirTypes, NEW e \in Remains(d)
    PROVE  e \in DirTypes /\ (d = NoDir => e = NoDir)
  <1>1. CASE d = NoDir
    BY <1>1 DEF Remains
  <1>2. CASE d # NoDir
    <2>1. d \in [prog : Requests \cup {NoOne}, whole : BOOLEAN, fps : SUBSET Rates,
                enable : {"absent", "empty", "1"}]
      BY <1>2 DEF DirTypes
    <2>2. e \in [prog : {d.prog}, whole : {d.whole}, fps : SUBSET d.fps,
                  enable : {d.enable, "absent"}]
                \cup [prog : {NoOne}, whole : {FALSE}, fps : SUBSET d.fps,
                      enable : {d.enable, "absent"}]
      BY <1>2 DEF Remains
    <2>3. SUBSET d.fps \subseteq SUBSET Rates /\ {d.enable, "absent"} \subseteq {"absent", "empty", "1"}
      BY <2>1
    <2> QED
      BY <1>2, <2>1, <2>2, <2>3 DEF DirTypes
  <1> QED
    BY <1>1, <1>2

LEMMA UploadTypes == SaveInv /\ [Next]_vars => TypeOK' /\ Bounded'
  <1> SUFFICES ASSUME SaveInv, [Next]_vars PROVE TypeOK' /\ Bounded'
    OBVIOUS
  <1>. TypeOK /\ Bounded
    BY DEF SaveInv
  <1>1. CASE UNCHANGED vars
    BY <1>1 DEF vars, TypeOK, Bounded
  <1>2. ASSUME NEW r \in Requests, Busy(r) \/ Accept(r) \/ AcceptFails(r) PROVE TypeOK' /\ Bounded'
    <2>1. /\ slots > 0 \/ slots' = slots
          /\ slots' \in {slots, slots - 1} /\ lost' \in {lost, lost + 1}
          /\ holding' \in {holding, holding \cup {r}}
          /\ \E next \in {"done", "receiving"} : pc' = [pc EXCEPT ![r] = next]
          /\ \E a \in {"busy", "error"} : answer' \in {answer, [answer EXCEPT ![r] = a]}
          /\ UNCHANGED <<form, con, failed, dir, damaged, crashed, overlapped>>
      BY <1>2 DEF Busy, Accept, AcceptFails, FreeSlot
    <2>2. slots' \in Nat /\ lost' \in Nat
      BY <2>1 DEF TypeOK
    <2>3. /\ pc' \in [Requests -> {"new", "receiving", "gone", "answered", "done"} \cup SavingStages]
          /\ answer' \in [Requests -> {"none", "busy", "error", "refused", "saved"}]
          /\ holding' \subseteq Requests
      BY <2>1 DEF TypeOK
    <2> QED
      BY <2>1, <2>2, <2>3 DEF TypeOK, Bounded
  <1>3. ASSUME NEW r \in Requests, Receive(r) PROVE TypeOK' /\ Bounded'
    <2>1. UNCHANGED <<slots, form, pc, answer, failed, dir, damaged, crashed, holding, lost, overlapped>>
      BY <1>3 DEF Receive
    <2> QED
      BY <2>1, <1>3, PieceReceived DEF TypeOK, Bounded
  <1>4. ASSUME NEW r \in Requests, End(r) \/ Abandon(r) PROVE TypeOK' /\ Bounded'
    BY <1>4 DEF End, Abandon, TypeOK, Bounded
  <1>5. ASSUME NEW r \in Requests, Complete(r) PROVE TypeOK' /\ Bounded'
    <2>1. /\ slots' = slots + 1 /\ holding' = holding \ {r}
          /\ pc' = [pc EXCEPT ![r] = IF SomeEmpty(r) THEN "done" ELSE "clear"]
          /\ UNCHANGED <<form, con, answer, failed, dir, damaged, crashed, lost>>
      BY <1>5 DEF Complete, ReturnSlot
    <2>2. overlapped' \subseteq Names
      BY <1>5, NameTypes DEF Complete, TypeOK
    <2> QED
      BY <2>1, <2>2 DEF TypeOK, Bounded, SavingStages
  <1>6. ASSUME NEW r \in Requests, Save(r) PROVE TypeOK' /\ Bounded'
    <2>1. dir \in [Names -> DirTypes] /\ EmptyDir \in DirTypes /\ NoDir \in DirTypes
          /\ NoOne \in Requests \cup {NoOne}
      BY DEF TypeOK, DirTypes, EmptyDir
    <2>2. NameOf(r) \in Names
      BY <1>6 DEF Save, Clear, Create, WriteProgram, WriteRate, WriteEnable, Finish, SaveInv, Stages,
                  Saving, SavingStages
    <2>3. Bounded'
      BY <1>6 DEF Save, Clear, Create, WriteProgram, WriteRate, WriteEnable, OpenFile, Finish,
                  SaveVars, Bounded
    <2>4. ASSUME RemovedInPart(r) PROVE dir' \in [Names -> DirTypes] /\ damaged' \subseteq Names
      <3>1. PICK d \in Remains(dir[NameOf(r)]) : dir' = [dir EXCEPT ![NameOf(r)] = d]
        BY <2>4 DEF RemovedInPart, SetDir
      <3>2. d \in DirTypes
        BY <2>1, <2>2, PartTypes
      <3> QED
        BY <2>1, <2>2, <2>4, <3>1, <3>2 DEF RemovedInPart, TypeOK
    <2>5. CASE Clear(r)
      <3>1. dir' \in [Names -> DirTypes] /\ damaged' \subseteq Names
        BY <2>1, <2>4, <2>5 DEF Clear, SetDir, Cleared, TypeOK
      <3>2. \E next \in SavingStages \cup {"done"} : pc' = [pc EXCEPT ![r] = next]
        BY <2>5 DEF Clear, SavingStages
      <3>3. UNCHANGED <<SaveVars, failed, crashed>>
        BY <2>5 DEF Clear
      <3> QED
        BY <2>3, <3>1, <3>2, <3>3 DEF TypeOK, DirTypes, SaveVars
    <2>6. CASE Create(r)
      <3>1. dir' \in [Names -> DirTypes]
        BY <2>1, <2>6 DEF Create, SetDir
      <3> QED
        BY <2>3, <3>1, <2>6 DEF Create, TypeOK, DirTypes, SaveVars, SavingStages
    <2>7. CASE WriteProgram(r)
      <3>1. PICK arrives \in Writing :
                OpenFile(r, [dir[NameOf(r)] EXCEPT !.prog = r, !.whole = Received(r) /\ arrives],
                         arrives, "rate")
        BY <2>7 DEF WriteProgram
      <3>2. (Received(r) /\ arrives) \in BOOLEAN
        BY DEF Received, Writing
      <3>3. dir[NameOf(r)] # NoDir =>
                [dir[NameOf(r)] EXCEPT !.prog = r, !.whole = Received(r) /\ arrives] \in DirTypes
        BY <2>1, <2>2, <3>2 DEF DirTypes
      <3> QED
        BY <2>2, <2>3, <3>1, <3>3, OpenTypes DEF SavingStages
    <2>8. CASE WriteRate(r)
      <3>1. dir[NameOf(r)] # NoDir =>
                [dir[NameOf(r)] EXCEPT !.fps = @ \cup {form[r].fps}] \in DirTypes
        BY <2>1, <2>2, FormTypes DEF DirTypes
      <3> QED
        BY <2>2, <2>3, <2>8, <3>1, OpenTypes DEF WriteRate, SavingStages
    <2>9. CASE WriteEnable(r)
      <3>1. PICK arrives \in Writing :
                OpenFile(r, [dir[NameOf(r)] EXCEPT !.enable =
                                IF ~failed[r] /\ arrives THEN "1"
                                ELSE IF @ = "absent" THEN "empty" ELSE @], arrives, "finish")
        BY <2>9 DEF WriteEnable
      <3>2. dir[NameOf(r)] # NoDir =>
                [dir[NameOf(r)] EXCEPT !.enable =
                    IF ~failed[r] /\ arrives THEN "1"
                    ELSE IF @ = "absent" THEN "empty" ELSE @] \in DirTypes
        BY <2>1, <2>2 DEF DirTypes
      <3> QED
        BY <2>2, <2>3, <3>1, <3>2, OpenTypes DEF SavingStages
    <2>10. CASE Finish(r)
      <3>1. dir' \in [Names -> DirTypes] /\ damaged' \subseteq Names
        BY <2>1, <2>4, <2>10 DEF Finish, SetDir, Discarded, TypeOK
      <3>2. UNCHANGED pc \/ pc' = [pc EXCEPT ![r] = "done"]
        BY <2>10 DEF Finish
      <3>3. crashed' \in BOOLEAN /\ UNCHANGED <<SaveVars, failed>>
        BY <2>10 DEF Finish, TypeOK
      <3> QED
        BY <2>3, <3>1, <3>2, <3>3 DEF TypeOK, DirTypes, SaveVars
    <2> QED
      BY <1>6, <2>5, <2>6, <2>7, <2>8, <2>9, <2>10 DEF Save
  <1> QED
    BY <1>1, <1>2, <1>3, <1>4, <1>5, <1>6 DEF Next

\* A step of a request that is not writing leaves the directories alone.
LEMMA NotWriting ==
    ASSUME SaveInv, NEW r \in Requests, ~Saving(r), pc[r] # "done",
           UNCHANGED <<form, failed, dir, damaged, overlapped>>,
           \A s \in Requests \ {r} : con'[s] = con[s] /\ pc'[s] = pc[s],
           pc'[r] \notin SavingStages
    PROVE  OneWriter' /\ Stages' /\ Settled'
  <1>1. \A s \in Requests \ {r} :
            /\ NameOf(s)' = NameOf(s) /\ Saving(s)' = Saving(s) /\ Stage(s)' = Stage(s)
            /\ Leaves(s)' = Leaves(s)
    <2> SUFFICES ASSUME NEW s \in Requests \ {r}
                 PROVE  /\ NameOf(s)' = NameOf(s) /\ Saving(s)' = Saving(s)
                        /\ Stage(s)' = Stage(s) /\ Leaves(s)' = Leaves(s)
      OBVIOUS
    <2>1. NameOf(s)' = NameOf(s)
      BY DEF NameOf
    <2>2. Received(s)' = Received(s)
      BY DEF Received, Total
    <2>3. Leaves(s)' = Leaves(s)
      BY <2>1, <2>2 DEF Leaves
    <2>4. Saving(s)' = Saving(s)
      BY DEF Saving
    <2>5. Stage(s)' = Stage(s)
      BY <2>1, <2>2 DEF Stage, Holds
    <2> QED
      BY <2>1, <2>3, <2>4, <2>5
  <1>2. ~Saving(r)'
    BY DEF Saving
  <1>3. OneWriter'
    BY <1>1, <1>2 DEF SaveInv, OneWriter
  <1>4. Stages'
    BY <1>1, <1>2 DEF SaveInv, Stages
  <1>5. Settled'
    <2> SUFFICES ASSUME NEW n \in Names \ overlapped,
                        \A s \in Requests : Saving(s)' /\ NameOf(s)' = n => pc'[s] = "clear"
                 PROVE  dir'[n] = NoDir \/ OneUpload(n)'
      BY DEF Settled
    <2>1. dir[n] = NoDir \/ OneUpload(n)
      BY <1>1 DEF SaveInv, Settled
    <2>2. ASSUME OneUpload(n) PROVE OneUpload(n)'
      <3>1. PICK s \in Requests :
                NameOf(s) = n /\ (Saving(s) \/ pc[s] = "done") /\ Leaves(s)
        BY <2>2 DEF OneUpload
      <3>2. s # r
        BY <3>1
      <3> QED
        BY <1>1, <3>1, <3>2 DEF OneUpload
    <2> QED
      BY <2>1, <2>2
  <1> QED
    BY <1>3, <1>4, <1>5

\* A request begins to write; if another writes the name, it is known as overlapped.
LEMMA BeginsWriting ==
    ASSUME SaveInv, NEW r \in Requests, Complete(r), ~SomeEmpty(r)
    PROVE  OneWriter' /\ Stages' /\ Settled'
  <1>1. /\ pc' = [pc EXCEPT ![r] = "clear"] /\ pc[r] \in {"gone", "answered"}
        /\ UNCHANGED <<form, con, failed, dir, damaged>>
        /\ overlapped' = IF \E s \in Requests : Saving(s) /\ NameOf(s) = NameOf(r)
                         THEN overlapped \cup {NameOf(r)} ELSE overlapped
    BY DEF Complete, IsOver
  <1>2. pc'[r] = "clear" /\ \A s \in Requests \ {r} : pc'[s] = pc[s]
    BY <1>1 DEF SaveInv, TypeOK
  <1>3. ~Saving(r) /\ Saving(r)' /\ Stage(r)'
    BY <1>1, <1>2 DEF Saving, SavingStages, Stage
  <1>4. \A s \in Requests : NameOf(s)' = NameOf(s)
    BY <1>1 DEF NameOf
  <1>5. \A s \in Requests \ {r} :
            /\ Saving(s)' = Saving(s) /\ Stage(s)' = Stage(s)
            /\ Leaves(s)' = Leaves(s)
    <2> SUFFICES ASSUME NEW s \in Requests \ {r}
                 PROVE  /\ Saving(s)' = Saving(s) /\ Stage(s)' = Stage(s)
                        /\ Leaves(s)' = Leaves(s)
      OBVIOUS
    <2>1. Received(s)' = Received(s)
      BY <1>1 DEF Received, Total
    <2>2. Leaves(s)' = Leaves(s)
      BY <1>1, <1>4, <2>1 DEF Leaves
    <2>3. Saving(s)' = Saving(s)
      BY <1>2 DEF Saving
    <2>4. Stage(s)' = Stage(s)
      BY <1>1, <1>2, <1>4, <2>1 DEF Stage, Holds
    <2> QED
      BY <2>2, <2>3, <2>4
  <1>6. overlapped \subseteq overlapped'
    BY <1>1
  <1>7. OneWriter'
    <2> SUFFICES ASSUME NEW s \in Requests, NEW t \in Requests, Saving(s)', Saving(t)', s # t,
                        NameOf(s) = NameOf(t)
                 PROVE  NameOf(s) \in overlapped'
      BY <1>4 DEF OneWriter
    <2>1. CASE s = r \/ t = r
      BY <2>1, <1>1, <1>5
    <2>2. CASE s # r /\ t # r
      BY <2>2, <1>5, <1>6 DEF SaveInv, OneWriter
    <2> QED
      BY <2>1, <2>2
  <1>8. Stages'
    <2>1. NameOf(r) \in Names
      BY NameTypes DEF SaveInv
    <2> QED
      BY <2>1, <1>3, <1>4, <1>5, <1>6 DEF SaveInv, Stages
  <1>9. Settled'
    <2> SUFFICES ASSUME NEW n \in Names \ overlapped',
                        \A s \in Requests : Saving(s)' /\ NameOf(s)' = n => pc'[s] = "clear"
                 PROVE  dir'[n] = NoDir \/ OneUpload(n)'
      BY DEF Settled
    <2>1. dir[n] = NoDir \/ OneUpload(n)
      BY <1>2, <1>3, <1>4, <1>5, <1>6 DEF SaveInv, Settled
    <2>2. ASSUME OneUpload(n) PROVE OneUpload(n)'
      <3>1. PICK s \in Requests :
                NameOf(s) = n /\ (Saving(s) \/ pc[s] = "done") /\ Leaves(s)
        BY <2>2 DEF OneUpload
      <3>2. s # r
        BY <3>1, <1>1, <1>3
      <3> QED
        BY <1>2, <1>4, <1>5, <3>1, <3>2 DEF OneUpload
    <2> QED
      BY <1>1, <2>1, <2>2
  <1> QED
    BY <1>7, <1>8, <1>9

\* The writer goes on to its next stage, or is done with the directory.
LEMMA WriterStep ==
    ASSUME SaveInv, NEW r \in Requests, Saving(r), UNCHANGED SaveVars,
           NEW next \in (SavingStages \cup {"done"}) \ {"clear"}, pc' = [pc EXCEPT ![r] = next],
           \A s \in Requests \ {r} : failed'[s] = failed[s],
           \A n \in Names \ {NameOf(r)} : dir'[n] = dir[n] /\ (n \in damaged' <=> n \in damaged),
           NameOf(r) \notin overlapped => Stage(r)',
           \A n \in Names \ overlapped :
               n = NameOf(r) /\ next = "done" => dir'[n] = NoDir \/ OneUpload(n)'
    PROVE  OneWriter' /\ Stages' /\ Settled'
  <1>1. pc'[r] = next /\ \A s \in Requests \ {r} : pc'[s] = pc[s]
    BY DEF SaveInv, TypeOK
  <1>2. \A s \in Requests : NameOf(s)' = NameOf(s)
    BY DEF SaveVars, NameOf
  <1>3. \A s \in Requests \ {r} : Saving(s)' = Saving(s)
    BY <1>1 DEF Saving
  <1>4. OneWriter'
    BY <1>2, <1>3 DEF SaveInv, OneWriter, SaveVars
  <1>5. Stages'
    <2> SUFFICES ASSUME NEW s \in Requests, Saving(s)'
                 PROVE  NameOf(s) \in Names /\ (NameOf(s) \in overlapped \/ Stage(s)')
      BY <1>2 DEF Stages, SaveVars
    <2>1. Saving(s) /\ NameOf(s) \in Names
      BY <1>3 DEF SaveInv, Stages
    <2>2. CASE s = r
      BY <2>1, <2>2
    <2>3. CASE s # r /\ NameOf(s) = NameOf(r)
      BY <2>1, <2>3 DEF SaveInv, OneWriter
    <2>4. CASE s # r /\ NameOf(s) # NameOf(r)
      <3>1. Stage(s)' = Stage(s)
        BY <1>1, <1>2, <2>1, <2>4 DEF Stage, Holds, Received, Total, SaveVars
      <3> QED
        BY <2>1, <3>1 DEF SaveInv, Stages
    <2> QED
      BY <2>2, <2>3, <2>4
  <1>6. Settled'
    <2> SUFFICES ASSUME NEW n \in Names, n \notin overlapped,
                        \A s \in Requests : Saving(s)' /\ NameOf(s) = n => pc'[s] = "clear"
                 PROVE  dir'[n] = NoDir \/ OneUpload(n)'
      BY <1>2 DEF Settled, SaveVars
    <2>1. CASE n = NameOf(r)
      <3>1. next = "done"
        BY <2>1, <1>1 DEF Saving
      <3> QED
        BY <2>1, <3>1
    <2>2. CASE n # NameOf(r)
      <3>1. dir[n] = NoDir \/ OneUpload(n)
        BY <1>1, <1>3, <2>2 DEF SaveInv, Settled
      <3>2. ASSUME OneUpload(n) PROVE OneUpload(n)'
        <4>1. PICK s \in Requests :
                  NameOf(s) = n /\ (Saving(s) \/ pc[s] = "done") /\ Leaves(s)
          BY <3>2 DEF OneUpload
        <4>2. s # r
          BY <2>2, <4>1
        <4>3. Leaves(s)'
          BY <1>2, <2>2, <4>1 DEF Leaves, Received, Total, SaveVars
        <4> QED
          BY <1>1, <1>2, <1>3, <4>1, <4>2, <4>3 DEF OneUpload
      <3> QED
        BY <2>2, <3>1, <3>2
    <2> QED
      BY <2>1, <2>2
  <1> QED
    BY <1>4, <1>5, <1>6

LEMMA Unmoved ==
    ASSUME SaveInv, UNCHANGED <<form, con, pc, failed, dir, damaged, overlapped>>
    PROVE  OneWriter' /\ Stages' /\ Settled'
  <1>1. ASSUME NEW r \in Requests
        PROVE  /\ NameOf(r)' = NameOf(r) /\ Saving(r)' = Saving(r) /\ Stage(r)' = Stage(r)
               /\ Leaves(r)' = Leaves(r)
    <2>1. NameOf(r)' = NameOf(r)
      BY DEF NameOf
    <2>2. Received(r)' = Received(r)
      BY DEF Received, Total
    <2>3. Stage(r)' = Stage(r)
      BY <2>1, <2>2 DEF Stage, Holds
    <2> QED
      BY <2>1, <2>2, <2>3 DEF Saving, Leaves
  <1>2. ASSUME NEW n \in Names PROVE OneUpload(n)' = OneUpload(n)
    BY <1>1 DEF OneUpload
  <1> QED
    BY <1>1, <1>2 DEF SaveInv, OneWriter, Stages, Settled

\* The program is the first file of a new directory.
LEMMA ProgramWritten ==
    ASSUME NEW r, NEW whole \in BOOLEAN
    PROVE  LET d == [EmptyDir EXCEPT !.prog = r, !.whole = whole]
           IN  /\ d \in [prog : {r}, whole : BOOLEAN, fps : {{}}, enable : {"absent", "empty"}]
               /\ d.whole = whole /\ d.enable = "absent"
  BY DEF EmptyDir

\* What a removal that fails leaves of one upload's directory is of that upload.
LEMMA PartLeft ==
    ASSUME NEW r, NEW rates, NEW d, NEW e \in Remains(d), NoDir # d,
           d \in [prog : {r, NoOne}, whole : BOOLEAN, fps : SUBSET rates,
                  enable : {"absent", "empty", "1"}]
    PROVE  e \in [prog : {r, NoOne}, whole : BOOLEAN, fps : SUBSET rates,
                  enable : {"absent", "empty", "1"}]
  <1>1. e \in [prog : {d.prog}, whole : {d.whole}, fps : SUBSET d.fps,
               enable : {d.enable, "absent"}]
             \cup [prog : {NoOne}, whole : {FALSE}, fps : SUBSET d.fps,
                   enable : {d.enable, "absent"}]
    BY DEF Remains
  <1>2. SUBSET d.fps \subseteq SUBSET rates
    OBVIOUS
  <1> QED
    BY <1>1, <1>2

\* What the single writer of a name does in each stage.
LEMMA SaveKeeps ==
    ASSUME SaveInv, NEW r \in Requests, Save(r)
    PROVE  OneWriter' /\ Stages' /\ Settled'
  <1>1. Saving(r) /\ NameOf(r) \in Names /\ (NameOf(r) \in overlapped \/ Stage(r)) /\ UNCHANGED SaveVars
    <2>1. Saving(r) /\ UNCHANGED SaveVars
      BY DEF Save, Clear, Create, WriteProgram, WriteRate, WriteEnable, OpenFile, Finish, Saving,
             SavingStages
    <2> QED
      BY <2>1 DEF SaveInv, Stages
  <1>2. NameOf(r)' = NameOf(r) /\ form' = form
    BY <1>1 DEF SaveVars, NameOf
  <1>3. /\ dir \in [Names -> DirTypes] /\ failed \in [Requests -> BOOLEAN]
        /\ pc \in [Requests -> {"new", "receiving", "gone", "answered", "done"} \cup SavingStages]
    BY DEF SaveInv, TypeOK, DirTypes
  <1>4. CASE Clear(r)
    <2>1. CASE /\ SetDir(r, Cleared(r)) /\ damaged' = damaged \ {NameOf(r)}
               /\ pc' = [pc EXCEPT ![r] = "create"] /\ UNCHANGED failed
      <3>1. /\ dir'[NameOf(r)] = NoDir /\ pc'[r] = "create"
            /\ \A n \in Names \ {NameOf(r)} : dir'[n] = dir[n] /\ (n \in damaged' <=> n \in damaged)
        BY <1>1, <1>3, <2>1 DEF SetDir, Cleared
      <3>2. Stage(r)'
        BY <1>2, <3>1 DEF Stage
      <3> QED
        BY <1>1, <2>1, <3>1, <3>2, WriterStep DEF SavingStages
    <2>2. CASE RemovedInPart(r) /\ pc' = [pc EXCEPT ![r] = "done"] /\ UNCHANGED failed
      <3>1. pc[r] = "clear" /\ pc'[r] = "done" /\ \A s \in Requests \ {r} : pc'[s] = pc[s]
        BY <1>3, <1>4, <2>2 DEF Clear
      <3>2. PICK e \in Remains(dir[NameOf(r)]) : dir' = [dir EXCEPT ![NameOf(r)] = e]
        BY <2>2 DEF RemovedInPart, SetDir
      <3>3. /\ damaged' = damaged \cup {NameOf(r)} /\ dir'[NameOf(r)] = e
            /\ \A n \in Names \ {NameOf(r)} : dir'[n] = dir[n] /\ (n \in damaged' <=> n \in damaged)
        BY <1>1, <1>3, <2>2, <3>2 DEF RemovedInPart
      <3>4. Stage(r)'
        BY <3>1 DEF Stage
      <3>5. ASSUME NEW n \in Names \ overlapped, n = NameOf(r)
            PROVE  dir'[n] = NoDir \/ OneUpload(n)'
        <4>1. dir[n] = NoDir \/ OneUpload(n)
          BY <1>1, <3>1, <3>5 DEF SaveInv, Settled, OneWriter
        <4>2. CASE dir[n] = NoDir
          BY <3>2, <3>3, <3>5, <4>2 DEF Remains
        <4>3. CASE dir[n] # NoDir
          <5>1. PICK s \in Requests : NameOf(s) = n /\ (Saving(s) \/ pc[s] = "done") /\ Leaves(s)
            BY <4>1, <4>3 DEF OneUpload
          <5>2. NameOf(s)' = n /\ (Saving(s)' \/ pc'[s] = "done")
            BY <1>1, <3>1, <5>1 DEF NameOf, Saving, SaveVars
          <5>3. dir'[n] \in [prog : {s, NoOne}, whole : BOOLEAN, fps : SUBSET {form[s].fps},
                            enable : {"absent", "empty", "1"}]
            BY <3>2, <3>3, <3>5, <4>3, <5>1, PartLeft DEF Leaves
          <5>4. Leaves(s)'
            BY <1>2, <3>3, <3>5, <5>2, <5>3 DEF Leaves
          <5> QED
            BY <5>2, <5>4 DEF OneUpload
        <4> QED
          BY <4>2, <4>3
      <3> QED
        BY <1>1, <2>2, <3>3, <3>4, <3>5, WriterStep DEF SavingStages
    <2> QED
      BY <1>4, <2>1, <2>2 DEF Clear
  <1>5. CASE Create(r)
    <2>1. pc[r] = "create" /\ (NameOf(r) \notin overlapped => dir[NameOf(r)] = NoDir)
      BY <1>1, <1>5 DEF Create, Stage
    <2>2. CASE /\ SetDir(r, IF dir[NameOf(r)] = NoDir THEN EmptyDir ELSE dir[NameOf(r)])
               /\ pc' = [pc EXCEPT ![r] = "program"] /\ UNCHANGED <<failed, damaged>>
      <3>1. /\ NameOf(r) \notin overlapped => dir'[NameOf(r)] = EmptyDir
            /\ pc'[r] = "program" /\ \A n \in Names \ {NameOf(r)} : dir'[n] = dir[n]
        BY <1>1, <1>3, <2>1, <2>2 DEF SetDir
      <3>2. NameOf(r) \notin overlapped => Stage(r)'
        BY <1>2, <3>1 DEF Stage, EmptyDir
      <3> QED
        BY <1>1, <2>2, <3>1, <3>2, WriterStep DEF SavingStages
    <2>3. CASE pc' = [pc EXCEPT ![r] = "done"] /\ UNCHANGED <<dir, failed, damaged>>
      <3>1. Stage(r)'
        BY <1>3, <2>3 DEF Stage
      <3>2. \A n \in Names \ overlapped : n = NameOf(r) => dir'[n] = NoDir
        BY <2>1, <2>3
      <3> QED
        BY <1>1, <2>3, <3>1, <3>2, WriterStep DEF SavingStages
    <2> QED
      BY <1>5, <2>2, <2>3 DEF Create
  <1>6. ASSUME NEW d, NEW arrives, NEW next \in SavingStages \ {"clear"}, OpenFile(r, d, arrives, next),
               (/\ NameOf(r) \notin overlapped /\ dir'[NameOf(r)] = d /\ UNCHANGED failed
                /\ damaged' = IF arrives THEN damaged ELSE damaged \cup {NameOf(r)})
                   => Stage(r)',
               NameOf(r) \notin overlapped /\ failed'[r] => Stage(r)'
        PROVE  OneWriter' /\ Stages' /\ Settled'
    <2>1. /\ pc' = [pc EXCEPT ![r] = next]
          /\ \/ /\ dir' = [dir EXCEPT ![NameOf(r)] = d] /\ UNCHANGED failed
                /\ damaged' = IF arrives THEN damaged ELSE damaged \cup {NameOf(r)}
             \/ failed' = [failed EXCEPT ![r] = TRUE] /\ UNCHANGED <<dir, damaged>>
      BY <1>6 DEF OpenFile, SetDir
    <2>2. /\ \A s \in Requests \ {r} : failed'[s] = failed[s]
          /\ \A n \in Names \ {NameOf(r)} : dir'[n] = dir[n] /\ (n \in damaged' <=> n \in damaged)
          /\ \/ /\ dir'[NameOf(r)] = d /\ UNCHANGED failed
                /\ damaged' = IF arrives THEN damaged ELSE damaged \cup {NameOf(r)}
             \/ failed'[r]
      BY <1>1, <1>3, <2>1
    <2>3. NameOf(r) \notin overlapped => Stage(r)'
      BY <1>6, <2>2
    <2> QED
      BY <1>1, <2>1, <2>2, <2>3, WriterStep DEF SavingStages
  <1>7. CASE WriteProgram(r)
    <2>1. PICK arrives \in Writing :
              OpenFile(r, [dir[NameOf(r)] EXCEPT !.prog = r, !.whole = Received(r) /\ arrives],
                       arrives, "rate")
      BY <1>7 DEF WriteProgram
    <2> DEFINE d == [dir[NameOf(r)] EXCEPT !.prog = r, !.whole = Received(r) /\ arrives]
    <2>2. pc[r] = "program" /\ pc'[r] = "rate" /\ Received(r)' = Received(r)
      BY <1>1, <1>3, <1>7, <2>1 DEF WriteProgram, OpenFile, SaveVars, Received, Total
    <2>3. ASSUME NameOf(r) \notin overlapped, dir'[NameOf(r)] = d,
                 damaged' = IF arrives THEN damaged ELSE damaged \cup {NameOf(r)}
          PROVE  Holds(r, {}, "absent")'
      <3>1. dir[NameOf(r)] = EmptyDir /\ (Received(r) /\ arrives) \in BOOLEAN
        BY <1>1, <2>2, <2>3 DEF Stage, Received, Writing
      <3>2. /\ d \in [prog : {r}, whole : BOOLEAN, fps : {{}}, enable : {"absent", "empty"}]
            /\ d.whole = (Received(r) /\ arrives) /\ d.enable = "absent"
        BY <3>1, ProgramWritten
      <3>3. ~arrives => NameOf(r) \in damaged'
        BY <2>3
      <3>4. d.whole = Received(r) \/ NameOf(r) \in damaged'
        <4>1. CASE arrives
          BY <3>2, <4>1 DEF Received
        <4> QED
          BY <3>3, <4>1
      <3> HIDE DEF d
      <3> QED
        BY <1>2, <2>2, <2>3, <3>2, <3>4 DEF Holds
    <2> HIDE DEF d
    <2>4. OpenFile(r, d, arrives, "rate")
      BY <2>1 DEF d
    <2> QED
      BY <1>6, <2>2, <2>3, <2>4 DEF Stage, SavingStages
  <1>8. CASE WriteRate(r)
    <2> DEFINE d == [dir[NameOf(r)] EXCEPT !.fps = @ \cup {form[r].fps}]
    <2>1. pc[r] = "rate" /\ pc'[r] = "enable" /\ OpenFile(r, d, TRUE, "enable")
      BY <1>3, <1>8 DEF WriteRate, OpenFile
    <2>2. ASSUME NameOf(r) \notin overlapped, dir'[NameOf(r)] = d, ~failed[r], damaged' = damaged
          PROVE  Holds(r, {form[r].fps}, "absent")'
      <3>1. Holds(r, {}, "absent")
        BY <1>1, <2>1, <2>2 DEF Stage
      <3>2. Received(r)' = Received(r)
        BY <1>1 DEF SaveVars, Received, Total
      <3> QED
        BY <1>2, <2>2, <3>1, <3>2 DEF Holds
    <2>3. (/\ NameOf(r) \notin overlapped /\ dir'[NameOf(r)] = d /\ UNCHANGED failed
           /\ damaged' = damaged /\ ~failed'[r]) => Holds(r, {form[r].fps}, "absent")'
      BY <2>2
    <2> HIDE DEF d
    <2> QED
      BY <1>2, <1>6, <2>1, <2>3 DEF Stage, SavingStages
  <1>9. CASE WriteEnable(r)
    <2>1. PICK arrives \in Writing :
              OpenFile(r, [dir[NameOf(r)] EXCEPT !.enable =
                              IF ~failed[r] /\ arrives THEN "1"
                              ELSE IF @ = "absent" THEN "empty" ELSE @], arrives, "finish")
      BY <1>9 DEF WriteEnable
    <2> DEFINE d == [dir[NameOf(r)] EXCEPT !.enable =
                        IF ~failed[r] /\ arrives THEN "1"
                        ELSE IF @ = "absent" THEN "empty" ELSE @]
    <2>2. pc[r] = "enable" /\ pc'[r] = "finish"
      BY <1>3, <1>9, <2>1 DEF WriteEnable, OpenFile
    <2>3. ASSUME NameOf(r) \notin overlapped, dir'[NameOf(r)] = d, ~failed[r],
                 damaged' = IF arrives THEN damaged ELSE damaged \cup {NameOf(r)}
          PROVE  Holds(r, {form[r].fps}, "1")'
      <3>1. Holds(r, {form[r].fps}, "absent")
        BY <1>1, <2>2, <2>3 DEF Stage
      <3>2. Received(r)' = Received(r)
        BY <1>1 DEF SaveVars, Received, Total
      <3>3. CASE arrives
        BY <1>2, <2>3, <3>1, <3>2, <3>3 DEF Holds
      <3>4. CASE ~arrives
        BY <1>2, <2>3, <3>1, <3>4 DEF Holds
      <3> QED
        BY <3>3, <3>4
    <2>4. (/\ NameOf(r) \notin overlapped /\ dir'[NameOf(r)] = d /\ UNCHANGED failed
           /\ damaged' = (IF arrives THEN damaged ELSE damaged \cup {NameOf(r)})
           /\ ~failed'[r]) => Holds(r, {form[r].fps}, "1")'
      BY <2>3
    <2>5. OpenFile(r, d, arrives, "finish")
      BY <2>1
    <2> HIDE DEF d
    <2> QED
      BY <1>2, <1>6, <2>2, <2>4, <2>5 DEF Stage, SavingStages
  <1>10. CASE Finish(r)
    <2>1. pc[r] = "finish" /\ UNCHANGED failed
      BY <1>10 DEF Finish
    <2>2. CASE failed[r] /\ RemovedInPart(r) /\ UNCHANGED pc
      <3>1. pc' = [pc EXCEPT ![r] = "finish"]
        BY <1>3, <2>1, <2>2
      <3>2. \A n \in Names \ {NameOf(r)} : dir'[n] = dir[n] /\ (n \in damaged' <=> n \in damaged)
        BY <1>1, <1>3, <2>2 DEF RemovedInPart, SetDir
      <3>3. Stage(r)'
        BY <2>1, <2>2 DEF Stage
      <3> QED
        BY <1>1, <2>1, <3>1, <3>2, <3>3, WriterStep DEF SavingStages
    <2>3. CASE /\ failed[r] /\ SetDir(r, Discarded(r)) /\ damaged' = damaged \ {NameOf(r)}
               /\ pc' = [pc EXCEPT ![r] = "done"]
      <3>1. dir' = [dir EXCEPT ![NameOf(r)] = NoDir]
        BY <2>3 DEF SetDir, Discarded
      <3>2. /\ dir'[NameOf(r)] = NoDir /\ pc'[r] = "done"
            /\ \A n \in Names \ {NameOf(r)} : dir'[n] = dir[n] /\ (n \in damaged' <=> n \in damaged)
        BY <1>1, <1>3, <2>3, <3>1
      <3>3. Stage(r)'
        BY <3>2 DEF Stage
      <3> QED
        BY <1>1, <2>1, <2>3, <3>2, <3>3, WriterStep DEF SavingStages
    <2>4. CASE ~failed[r]
      <3>1. pc' = [pc EXCEPT ![r] = "done"] /\ UNCHANGED <<dir, damaged>>
        BY <1>10, <2>4 DEF Finish
      <3>2. pc'[r] = "done"
        BY <1>3, <3>1
      <3>3. Stage(r)'
        BY <3>2 DEF Stage
      <3>4. ASSUME NEW n \in Names \ overlapped, n = NameOf(r) PROVE OneUpload(n)'
        <4>1. Holds(r, {form[r].fps}, "1")
          BY <1>1, <2>1, <2>4, <3>4 DEF Stage
        <4>2. Received(r)' = Received(r)
          BY <1>1 DEF SaveVars, Received, Total
        <4>3. Leaves(r)'
          BY <1>2, <3>1, <4>1, <4>2 DEF Holds, Leaves
        <4> QED
          BY <1>1, <1>2, <3>2, <3>4, <4>3 DEF OneUpload
      <3> QED
        BY <1>1, <2>1, <3>1, <3>3, <3>4, WriterStep DEF SavingStages
    <2> QED
      BY <1>10, <2>2, <2>3, <2>4 DEF Finish
  <1> QED
    BY <1>4, <1>5, <1>7, <1>8, <1>9, <1>10 DEF Save

LEMMA SaveStep == SaveInv /\ [Next]_vars => SaveInv'
  <1> SUFFICES ASSUME SaveInv, [Next]_vars PROVE SaveInv'
    OBVIOUS
  <1>1. TypeOK' /\ Bounded'
    BY UploadTypes DEF SaveInv
  <1>2. CASE UNCHANGED vars
    BY <1>1, <1>2, Unmoved DEF vars, SaveInv
  <1>3. ASSUME NEW r \in Requests, Busy(r) \/ Accept(r) \/ AcceptFails(r) \/ Receive(r) \/ Abandon(r) \/ End(r)
        PROVE  OneWriter' /\ Stages' /\ Settled'
    <2>1. /\ pc[r] \in {"new", "receiving"} /\ UNCHANGED <<form, failed, dir, damaged, overlapped>>
          /\ UNCHANGED con \/ Receive(r)
          /\ UNCHANGED pc \/ \E next \in {"done", "receiving", "gone", "answered"} : pc' = [pc EXCEPT ![r] = next]
      BY <1>3 DEF Busy, Accept, AcceptFails, Receive, Abandon, End
    <2>2. \A s \in Requests \ {r} : con'[s] = con[s]
      BY <2>1, PieceReceived DEF SaveInv
    <2>3. pc'[r] \notin SavingStages /\ \A s \in Requests \ {r} : pc'[s] = pc[s]
      BY <2>1 DEF SaveInv, TypeOK, SavingStages
    <2> QED
      BY <2>1, <2>2, <2>3, NotWriting DEF Saving, SavingStages
  <1>4. ASSUME NEW r \in Requests, Complete(r) PROVE OneWriter' /\ Stages' /\ Settled'
    <2>1. CASE SomeEmpty(r)
      <3>1. /\ pc[r] \in {"gone", "answered"} /\ pc' = [pc EXCEPT ![r] = "done"]
            /\ UNCHANGED <<form, con, failed, dir, damaged, overlapped>>
        BY <1>4, <2>1 DEF Complete, IsOver
      <3>2. pc'[r] \notin SavingStages /\ \A s \in Requests \ {r} : pc'[s] = pc[s]
        BY <3>1 DEF SaveInv, TypeOK, SavingStages
      <3> QED
        BY <3>1, <3>2, NotWriting DEF Saving, SavingStages
    <2> QED
      BY <1>4, <2>1, BeginsWriting
  <1> QED
    BY <1>1, <1>2, <1>3, <1>4, SaveKeeps DEF Next, SaveInv

LEMMA SaveAlways == Spec => []SaveInv
  <1>1. Init => SaveInv
    <2> SUFFICES ASSUME Init PROVE SaveInv
      OBVIOUS
    <2>1. TypeOK
      <3>1. con \in [Requests -> [name : Nat, fps : 0 .. 1, file : Nat]]
        BY DEF Init, Start
      <3> QED
        BY <3>1, FormAssumption DEF Init, TypeOK
    <2>2. Bounded
      BY <2>1, FormTypes DEF Init, Start, Bounded
    <2>3. OneWriter /\ Stages /\ Settled
      BY DEF Init, OneWriter, Stages, Settled, Saving, SavingStages
    <2> QED
      BY <2>1, <2>2, <2>3 DEF SaveInv
  <1> QED
    BY <1>1, SaveStep, PTL DEF Spec

\* Type correctness of uploads, for any number of requests, names and forms.
THEOREM UploadTypesCorrect == Spec => []TypeOK
  <1>1. SaveInv => TypeOK
    BY DEF SaveInv
  <1> QED
    BY <1>1, SaveAlways, PTL

\* For any number of uploads, whichever calls fail: a directory whose name no two
\* uploads have written at once, and which nobody is writing, is absent or of one
\* upload, and holds its program, rate and enable file unless a write or a removal
\* has failed on it.
THEOREM OneUploadIsKept == Spec => []OneUploadKept
  <1>1. SaveInv => OneUploadKept
    <2> SUFFICES ASSUME SaveInv, NEW n \in Names \ overlapped,
                        ~(\E r \in Requests : Saving(r) /\ NameOf(r) = n), dir[n] # NoDir
                 PROVE  \E r \in Requests :
                          /\ NameOf(r) = n
                          /\ dir[n].prog \in {r, NoOne} /\ dir[n].fps \subseteq {form[r].fps}
                          /\ n \notin damaged =>
                                dir[n] = [prog |-> r, whole |-> Received(r),
                                          fps |-> {form[r].fps}, enable |-> "1"]
      BY DEF OneUploadKept
    <2>1. PICK r \in Requests : NameOf(r) = n /\ Leaves(r)
      BY DEF SaveInv, Settled, OneUpload
    <2> QED
      BY <2>1 DEF Leaves
  <1> QED
    BY <1>1, SaveAlways, PTL

-----------------------------------------------------------------------------
(* What the answer "program file saved" is worth: it is given before the   *)
(* save, so it is true only of a save that nothing disturbs.               *)

\* Nothing more is received of request r.
Past(r) == pc[r] \in SavingStages \cup {"done"}

SavedAnswers ==
    \A r \in Requests : answer[r] = "saved" =>
        /\ Received(r) /\ ~SomeEmpty(r) /\ NameOf(r) \notin Slashed
        /\ pc[r] = "answered" \/ Past(r)

\* A file cannot be opened only because another writer has removed the directory.
NoFailure == \A r \in Requests : failed[r] => Past(r) /\ NameOf(r) \in overlapped

\* Only a removal among another writer's files can fail.
Undamaged == damaged \subseteq overlapped

Kept ==
    \A r \in Requests : pc[r] = "done" /\ answer[r] = "saved" /\ NameOf(r) \notin overlapped =>
        dir[NameOf(r)] # NoDir \/ \E s \in Requests : Saving(s) /\ NameOf(s) = NameOf(r)

AnswerInv == SavedAnswers /\ NoFailure /\ Undamaged /\ Kept

\* A step of a request that is still in the library's hands.
LEMMA LibraryKeepsAnswers ==
    ASSUME SaveInv, AnswerInv, NEW r \in Requests, ~Past(r),
           UNCHANGED <<form, failed, dir, damaged>>, overlapped \subseteq overlapped',
           \A s \in Requests \ {r} : con'[s] = con[s] /\ pc'[s] = pc[s] /\ answer'[s] = answer[s],
           answer'[r] = "saved" => /\ Received(r)' /\ ~SomeEmpty(r)' /\ NameOf(r)' \notin Slashed
                                   /\ pc'[r] = "answered" \/ Saving(r)'
    PROVE  AnswerInv'
  <1>1. \A s \in Requests \ {r} :
            /\ NameOf(s)' = NameOf(s) /\ Saving(s)' = Saving(s) /\ Past(s)' = Past(s)
            /\ Received(s)' = Received(s) /\ SomeEmpty(s)' = SomeEmpty(s)
    BY DEF NameOf, Saving, Past, Received, Total, SomeEmpty, HasFps
  <1>2. ~Saving(r) /\ ~failed[r]
    BY DEF Saving, Past, AnswerInv, NoFailure
  <1>3. SavedAnswers'
    BY <1>1 DEF AnswerInv, SavedAnswers, Past, Saving
  <1>4. NoFailure'
    BY <1>1, <1>2 DEF AnswerInv, NoFailure
  <1>5. Undamaged'
    BY DEF AnswerInv, Undamaged
  <1>6. Kept'
    <2> SUFFICES ASSUME NEW s \in Requests, pc'[s] = "done", answer'[s] = "saved",
                        NameOf(s)' \notin overlapped'
                 PROVE  \/ dir[NameOf(s)'] # NoDir
                        \/ \E t \in Requests : Saving(t)' /\ NameOf(t)' = NameOf(s)'
      BY DEF Kept
    <2>1. s # r
      BY DEF Saving, SavingStages
    <2>2. dir[NameOf(s)] # NoDir \/ \E t \in Requests : Saving(t) /\ NameOf(t) = NameOf(s)
      BY <1>1, <2>1 DEF AnswerInv, Kept
    <2> QED
      BY <1>1, <1>2, <2>1, <2>2
  <1> QED
    BY <1>3, <1>4, <1>5, <1>6 DEF AnswerInv

\* A step of post_request_complete().
LEMMA WriterKeepsAnswers ==
    ASSUME SaveInv, AnswerInv, NEW r \in Requests, Saving(r), UNCHANGED SaveVars,
           NEW next \in SavingStages \cup {"done"}, pc' = [pc EXCEPT ![r] = next],
           \A s \in Requests \ {r} : failed'[s] = failed[s],
           failed'[r] => NameOf(r) \in overlapped, damaged' \subseteq overlapped,
           \A n \in Names \ {NameOf(r)} : dir'[n] = dir[n],
           next = "done" => NameOf(r) \in Slashed \cup overlapped \/ dir'[NameOf(r)] # NoDir
    PROVE  AnswerInv'
  <1>1. pc'[r] = next /\ \A s \in Requests \ {r} : pc'[s] = pc[s]
    BY DEF SaveInv, TypeOK
  <1>2. \A s \in Requests :
            /\ NameOf(s)' = NameOf(s) /\ Received(s)' = Received(s) /\ SomeEmpty(s)' = SomeEmpty(s)
            /\ answer'[s] = answer[s]
    BY DEF SaveVars, NameOf, Received, Total, SomeEmpty, HasFps
  <1>3. Past(r) /\ Past(r)'
    BY <1>1 DEF Past, Saving
  <1>4. \A s \in Requests : Past(s)' = Past(s)
    BY <1>1, <1>3 DEF Past
  <1>5. SavedAnswers'
    BY <1>1, <1>2, <1>3, <1>4 DEF AnswerInv, SavedAnswers
  <1>6. NoFailure'
    BY <1>2, <1>3, <1>4 DEF AnswerInv, NoFailure, SaveVars
  <1>7. Undamaged'
    BY DEF Undamaged, SaveVars
  <1>8. Kept'
    <2> SUFFICES ASSUME NEW s \in Requests, pc'[s] = "done", answer[s] = "saved",
                        NameOf(s) \notin overlapped
                 PROVE  \/ dir'[NameOf(s)] # NoDir
                        \/ \E t \in Requests : Saving(t)' /\ NameOf(t) = NameOf(s)
      BY <1>2 DEF Kept, SaveVars
    <2>1. CASE NameOf(s) = NameOf(r) /\ next = "done"
      BY <2>1 DEF AnswerInv, SavedAnswers
    <2>2. CASE NameOf(s) = NameOf(r) /\ next # "done"
      BY <1>1, <2>2 DEF Saving
    <2>3. CASE NameOf(s) # NameOf(r)
      <3>1. NameOf(s) \in Names
        BY NameTypes DEF AnswerInv, SavedAnswers, SaveInv
      <3>2. dir[NameOf(s)] # NoDir \/ \E t \in Requests : Saving(t) /\ NameOf(t) = NameOf(s)
        BY <1>1, <2>3 DEF AnswerInv, Kept
      <3> QED
        BY <1>1, <2>3, <3>1, <3>2 DEF Saving
    <2> QED
      BY <2>1, <2>2, <2>3
  <1> QED
    BY <1>5, <1>6, <1>7, <1>8 DEF AnswerInv

LEMMA DirectoryExists ==
    /\ EmptyDir # NoDir
    /\ \A r \in Requests, rates \in SUBSET Rates, enable \in {"absent", "empty", "1"} :
          Holds(r, rates, enable) => dir[NameOf(r)] # NoDir
  <1>1. EmptyDir \in [prog : Requests \cup {NoOne}, whole : BOOLEAN, fps : SUBSET Rates,
                     enable : {"absent", "empty", "1"}]
    BY DEF EmptyDir
  <1>2. ASSUME NEW r \in Requests, NEW rates \in SUBSET Rates,
               NEW enable \in {"absent", "empty", "1"}, Holds(r, rates, enable)
        PROVE  dir[NameOf(r)] \in [prog : Requests \cup {NoOne}, whole : BOOLEAN,
                                  fps : SUBSET Rates, enable : {"absent", "empty", "1"}]
    BY <1>2 DEF Holds
  <1> QED
    BY <1>1, <1>2, DirAssumption

LEMMA SaveKeepsAnswers ==
    ASSUME ~MayFail, SaveInv, AnswerInv, NEW r \in Requests, Save(r)
    PROVE  AnswerInv'
  <1>1. Saving(r) /\ NameOf(r) \in Names /\ (NameOf(r) \in overlapped \/ Stage(r)) /\ UNCHANGED SaveVars
    <2>1. Saving(r) /\ UNCHANGED SaveVars
      BY DEF Save, Clear, Create, WriteProgram, WriteRate, WriteEnable, OpenFile, Finish, Saving,
             SavingStages
    <2> QED
      BY <2>1 DEF SaveInv, Stages
  <1>2. dir \in [Names -> DirTypes] /\ failed \in [Requests -> BOOLEAN]
    BY DEF SaveInv, TypeOK, DirTypes
  <1>3. (failed[r] => NameOf(r) \in overlapped) /\ damaged \subseteq overlapped
    BY DEF AnswerInv, NoFailure, Undamaged
  <1>4. ASSUME RemovedInPart(r)
        PROVE  /\ NameOf(r) \in overlapped /\ damaged' \subseteq overlapped
               /\ \A n \in Names \ {NameOf(r)} : dir'[n] = dir[n]
    <2>1. NameOf(r) \in overlapped
      BY <1>1, <1>4 DEF RemovedInPart, MayThrow, SaveInv, OneWriter
    <2> QED
      BY <1>1, <1>2, <1>3, <1>4, <2>1 DEF RemovedInPart, SetDir
  <1>5. CASE Clear(r)
    <2>1. CASE /\ SetDir(r, Cleared(r)) /\ damaged' = damaged \ {NameOf(r)}
               /\ pc' = [pc EXCEPT ![r] = "create"] /\ UNCHANGED failed
      <3>1. \A n \in Names \ {NameOf(r)} : dir'[n] = dir[n]
        BY <1>1, <1>2, <2>1 DEF SetDir
      <3> QED
        BY <1>1, <1>3, <2>1, <3>1, WriterKeepsAnswers DEF SavingStages
    <2>2. CASE RemovedInPart(r) /\ pc' = [pc EXCEPT ![r] = "done"] /\ UNCHANGED failed
      BY <1>1, <1>3, <1>4, <2>2, WriterKeepsAnswers
    <2> QED
      BY <1>5, <2>1, <2>2 DEF Clear
  <1>6. CASE Create(r)
    <2>1. UNCHANGED <<failed, damaged>> /\ \A n \in Names \ {NameOf(r)} : dir'[n] = dir[n]
      BY <1>1, <1>2, <1>6 DEF Create, SetDir
    <2>2. CASE pc' = [pc EXCEPT ![r] = "program"]
      BY <1>1, <1>3, <2>1, <2>2, WriterKeepsAnswers DEF SavingStages
    <2>3. CASE NameOf(r) \in Slashed /\ pc' = [pc EXCEPT ![r] = "done"]
      BY <1>1, <1>3, <2>1, <2>3, WriterKeepsAnswers
    <2> QED
      BY <1>6, <2>2, <2>3 DEF Create
  <1>7. ASSUME NEW d, NEW next \in SavingStages, OpenFile(r, d, TRUE, next),
               pc[r] \in {"program", "rate", "enable"}
        PROVE  AnswerInv'
    <2>1. pc' = [pc EXCEPT ![r] = next]
      BY <1>7 DEF OpenFile
    <2>2. CASE dir[NameOf(r)] # NoDir /\ SetDir(r, d) /\ UNCHANGED <<failed, damaged>>
      <3>1. \A n \in Names \ {NameOf(r)} : dir'[n] = dir[n]
        BY <1>1, <1>2, <2>2 DEF SetDir
      <3> QED
        BY <1>1, <1>3, <1>7, <2>1, <2>2, <3>1, WriterKeepsAnswers DEF SavingStages
    <2>3. CASE /\ dir[NameOf(r)] = NoDir /\ failed' = [failed EXCEPT ![r] = TRUE]
               /\ UNCHANGED <<dir, damaged>>
      <3>1. NameOf(r) \in overlapped
        <4> SUFFICES ASSUME Stage(r), ~failed[r] PROVE FALSE
          BY <1>1, <1>3
        <4>1. \/ dir[NameOf(r)] = EmptyDir
              \/ Holds(r, {}, "absent") \/ Holds(r, {form[r].fps}, "absent")
          BY <1>7 DEF Stage
        <4>2. form[r].fps \in Rates
          BY FormTypes DEF SaveInv
        <4>3. {} \subseteq Rates /\ {form[r].fps} \subseteq Rates
          BY <4>2
        <4> QED
          BY <2>3, <4>1, <4>3, DirectoryExists
      <3>2. \A s \in Requests \ {r} : failed'[s] = failed[s]
        BY <1>2, <2>3
      <3> QED
        BY <1>1, <1>3, <1>7, <2>1, <2>3, <3>1, <3>2, WriterKeepsAnswers DEF SavingStages
    <2> QED
      BY <1>7, <2>2, <2>3 DEF OpenFile
  <1>8. Writing = {TRUE}
    BY DEF Writing
  <1>9. CASE WriteProgram(r)
    <2> DEFINE d == [dir[NameOf(r)] EXCEPT !.prog = r, !.whole = Received(r) /\ TRUE]
    <2>1. pc[r] = "program" /\ OpenFile(r, d, TRUE, "rate")
      BY <1>8, <1>9 DEF WriteProgram
    <2> HIDE DEF d
    <2> QED
      BY <1>7, <2>1 DEF SavingStages
  <1>10. CASE WriteRate(r)
    <2> DEFINE d == [dir[NameOf(r)] EXCEPT !.fps = @ \cup {form[r].fps}]
    <2>1. pc[r] = "rate" /\ OpenFile(r, d, TRUE, "enable")
      BY <1>10 DEF WriteRate
    <2> HIDE DEF d
    <2> QED
      BY <1>7, <2>1 DEF SavingStages
  <1>11. CASE WriteEnable(r)
    <2> DEFINE d == [dir[NameOf(r)] EXCEPT !.enable =
                        IF ~failed[r] /\ TRUE THEN "1" ELSE IF @ = "absent" THEN "empty" ELSE @]
    <2>1. pc[r] = "enable" /\ OpenFile(r, d, TRUE, "finish")
      BY <1>8, <1>11 DEF WriteEnable
    <2> HIDE DEF d
    <2> QED
      BY <1>7, <2>1 DEF SavingStages
  <1>12. CASE Finish(r)
    <2>1. pc[r] = "finish" /\ UNCHANGED failed
      BY <1>12 DEF Finish
    <2>2. CASE failed[r] /\ RemovedInPart(r) /\ UNCHANGED pc
      <3>1. pc' = [pc EXCEPT ![r] = "finish"]
        BY <2>1, <2>2 DEF SaveInv, TypeOK
      <3> QED
        BY <1>1, <1>4, <2>1, <2>2, <3>1, WriterKeepsAnswers DEF SavingStages
    <2>3. CASE /\ failed[r] /\ SetDir(r, Discarded(r)) /\ damaged' = damaged \ {NameOf(r)}
               /\ pc' = [pc EXCEPT ![r] = "done"]
      <3>1. \A n \in Names \ {NameOf(r)} : dir'[n] = dir[n]
        BY <1>1, <1>2, <2>3 DEF SetDir
      <3> QED
        BY <1>1, <1>3, <2>1, <2>3, <3>1, WriterKeepsAnswers
    <2>4. CASE ~failed[r] /\ pc' = [pc EXCEPT ![r] = "done"] /\ UNCHANGED <<dir, damaged>>
      <3>1. NameOf(r) \in overlapped \/ dir[NameOf(r)] # NoDir
        <4> SUFFICES ASSUME NameOf(r) \notin overlapped PROVE dir[NameOf(r)] # NoDir
          OBVIOUS
        <4>1. Holds(r, {form[r].fps}, "1")
          BY <1>1, <2>1, <2>4 DEF Stage
        <4>2. form[r].fps \in Rates
          BY FormTypes DEF SaveInv
        <4> QED
          BY <4>1, <4>2, DirectoryExists
      <3> QED
        BY <1>1, <1>3, <2>1, <2>4, <3>1, WriterKeepsAnswers
    <2> QED
      BY <1>12, <2>2, <2>3, <2>4 DEF Finish
  <1> QED
    BY <1>5, <1>6, <1>9, <1>10, <1>11, <1>12 DEF Save

LEMMA AnswerStep ==
    ASSUME ~MayFail, SaveInv, AnswerInv, [Next]_vars
    PROVE  AnswerInv'
  <1>1. CASE UNCHANGED vars
    BY <1>1 DEF vars, AnswerInv, SavedAnswers, NoFailure, Undamaged, Kept, Past, Received, Total,
                SomeEmpty, HasFps, NameOf, Saving
  <1>2. ASSUME NEW r \in Requests, Busy(r) \/ Accept(r) PROVE AnswerInv'
    <2>1. /\ pc[r] = "new" /\ UNCHANGED <<form, con, failed, dir, damaged, overlapped>>
          /\ \A s \in Requests \ {r} : pc'[s] = pc[s] /\ answer'[s] = answer[s]
          /\ answer'[r] \in {"busy", answer[r]}
      BY <1>2 DEF Busy, Accept, SaveInv, TypeOK
    <2>2. ~Past(r) /\ answer'[r] # "saved"
      BY <2>1 DEF Past, SavingStages, AnswerInv, SavedAnswers
    <2> QED
      BY <2>1, <2>2, LibraryKeepsAnswers
  <1>3. ASSUME NEW r \in Requests, Receive(r) PROVE AnswerInv'
    <2>1. pc[r] = "receiving" /\ UNCHANGED <<form, pc, answer, failed, dir, damaged, overlapped>>
      BY <1>3 DEF Receive
    <2>2. ~Past(r) /\ answer'[r] # "saved"
      BY <2>1 DEF Past, SavingStages, AnswerInv, SavedAnswers
    <2>3. \A s \in Requests \ {r} : con'[s] = con[s]
      BY <1>3, PieceReceived DEF SaveInv
    <2> QED
      BY <2>1, <2>2, <2>3, LibraryKeepsAnswers
  <1>4. ASSUME NEW r \in Requests, End(r) PROVE AnswerInv'
    <2>1. /\ pc[r] = "receiving" /\ Received(r) /\ UNCHANGED <<form, con, failed, dir, damaged, overlapped>>
          /\ \/ UNCHANGED <<pc, answer>>
             \/ /\ answer' = [answer EXCEPT ![r] =
                      IF NameOf(r) \in Slashed \/ form[r].fps \notin Numeric \/ SomeEmpty(r)
                      THEN "refused" ELSE "saved"]
                /\ pc' = [pc EXCEPT ![r] = "answered"]
      BY <1>4 DEF End
    <2>2. ~Past(r) /\ answer[r] # "saved"
      BY <2>1 DEF Past, SavingStages, AnswerInv, SavedAnswers
    <2>3. /\ \A s \in Requests \ {r} : pc'[s] = pc[s] /\ answer'[s] = answer[s]
          /\ answer'[r] = "saved" =>
                 NameOf(r) \notin Slashed /\ ~SomeEmpty(r) /\ pc'[r] = "answered"
      BY <2>1, <2>2 DEF SaveInv, TypeOK
    <2>4. NameOf(r)' = NameOf(r) /\ SomeEmpty(r)' = SomeEmpty(r) /\ Received(r)' = Received(r)
      BY <2>1 DEF NameOf, SomeEmpty, HasFps, Received, Total
    <2> QED
      BY <2>1, <2>2, <2>3, <2>4, LibraryKeepsAnswers
  <1>5. ASSUME NEW r \in Requests, Complete(r) PROVE AnswerInv'
    <2>1. /\ pc[r] \in {"gone", "answered"} /\ UNCHANGED <<form, con, answer, failed, dir, damaged>>
          /\ pc' = [pc EXCEPT ![r] = IF SomeEmpty(r) THEN "done" ELSE "clear"]
          /\ overlapped \subseteq overlapped'
      BY <1>5 DEF Complete, IsOver
    <2>2. ~Past(r)
      BY <2>1 DEF Past, SavingStages
    <2>3. answer[r] = "saved" => Received(r) /\ ~SomeEmpty(r) /\ NameOf(r) \notin Slashed
      BY DEF AnswerInv, SavedAnswers
    <2>4. NameOf(r)' = NameOf(r) /\ SomeEmpty(r)' = SomeEmpty(r) /\ Received(r)' = Received(r)
      BY <2>1 DEF NameOf, SomeEmpty, HasFps, Received, Total
    <2>5. /\ \A s \in Requests \ {r} : pc'[s] = pc[s]
          /\ ~SomeEmpty(r) => Saving(r)'
      BY <2>1 DEF SaveInv, TypeOK, Saving, SavingStages
    <2> QED
      BY <2>1, <2>2, <2>3, <2>4, <2>5, LibraryKeepsAnswers
  <1>6. ASSUME NEW r \in Requests, AcceptFails(r) PROVE FALSE
    BY <1>6 DEF AcceptFails
  <1>7. ASSUME NEW r \in Requests, Abandon(r) PROVE AnswerInv'
    <2>1. /\ pc[r] = "receiving" /\ pc' = [pc EXCEPT ![r] = "gone"]
          /\ UNCHANGED <<form, con, answer, failed, dir, damaged, overlapped>>
      BY <1>7 DEF Abandon
    <2>2. ~Past(r) /\ answer'[r] # "saved"
      BY <2>1 DEF Past, SavingStages, AnswerInv, SavedAnswers
    <2>3. \A s \in Requests \ {r} : pc'[s] = pc[s]
      BY <2>1 DEF SaveInv, TypeOK
    <2> QED
      BY <2>1, <2>2, <2>3, LibraryKeepsAnswers
  <1> QED
    BY <1>1, <1>2, <1>3, <1>4, <1>5, <1>6, <1>7, SaveKeepsAnswers DEF Next

\* With no failing call and no two uploads of one name at work at once, the answer
\* "program file saved" is true, for any number of uploads: once all are over and
\* were so answered, each name uploaded has a directory that holds one upload, whole.
UndisturbedSaves == overlapped = {} => SavedMeansSaved

THEOREM UndisturbedSavesAreTrue == ASSUME ~MayFail PROVE Spec => []UndisturbedSaves
  <1>1. Init => AnswerInv
    BY DEF Init, AnswerInv, SavedAnswers, NoFailure, Undamaged, Kept
  <1>2. SaveInv /\ AnswerInv => UndisturbedSaves
    <2> SUFFICES ASSUME SaveInv, AnswerInv, overlapped = {},
                        \A q \in Requests : pc[q] = "done" /\ answer[q] = "saved",
                        NEW r \in Requests
                 PROVE  \E s \in Requests :
                          /\ NameOf(s) = NameOf(r)
                          /\ dir[NameOf(r)] = [prog |-> s, whole |-> TRUE, fps |-> {form[s].fps},
                                               enable |-> "1"]
      BY DEF UndisturbedSaves, SavedMeansSaved
    <2>1. \A q \in Requests : ~Saving(q)
      BY DEF Saving, SavingStages
    <2>2. NameOf(r) \in Names
      BY NameTypes DEF SaveInv, AnswerInv, SavedAnswers
    <2>3. dir[NameOf(r)] # NoDir
      BY <2>1 DEF AnswerInv, Kept
    <2>4. OneUpload(NameOf(r))
      BY <2>1, <2>2, <2>3 DEF SaveInv, Settled
    <2>5. PICK s \in Requests : NameOf(s) = NameOf(r) /\ Leaves(s)
      BY <2>4 DEF OneUpload
    <2>6. NameOf(r) \notin damaged /\ Received(s) = TRUE
      BY DEF AnswerInv, Undamaged, SavedAnswers, Received
    <2>7. dir[NameOf(r)] = [prog |-> s, whole |-> TRUE, fps |-> {form[s].fps}, enable |-> "1"]
      BY <2>3, <2>5, <2>6 DEF Leaves
    <2> QED
      BY <2>5, <2>7
  <1>3. Spec => []AnswerInv
    <2>1. SaveInv /\ AnswerInv /\ [Next]_vars => AnswerInv'
      BY AnswerStep
    <2> QED
      BY <1>1, <2>1, SaveAlways, PTL DEF Spec
  <1> QED
    BY <1>2, <1>3, SaveAlways, PTL
=============================================================================
