-------------------------- MODULE CameraDeviceProofs --------------------------
(***************************************************************************)
(* Proofs about the camera thread, for any number of buffers and frames:   *)
(* a buffer has one owner, and every frame is copied once and in order.    *)
(*                                                                         *)
(* The invariants speak of the places of each sequence; the last section   *)
(* relates them to the properties, which speak of concatenations.          *)
(***************************************************************************)
EXTENDS CameraDevice, FiniteSetTheorems, TLAPS

Distinct(s) == \A i, j \in 1 .. Len(s) : s[i] = s[j] => i = j
Without(s, b) == \A i \in 1 .. Len(s) : s[i] # b

\* The thread holds a buffer between VIDIOC_DQBUF and VIDIOC_QBUF.
Held ==
    /\ index # -1 <=> pc \in {"copy", "requeue"}
    /\ streaming => pc \notin {"format", "buffers", "queue", "start"}
    /\ pc \in {"format", "buffers", "queue"} => incoming = <<>>
    /\ pc \in {"format", "buffers", "queue", "start"} => done = <<>>

\* Each buffer is in one place.
Placed ==
    /\ Distinct(incoming) /\ Distinct(done)
    /\ \A b \in Buffers : b = index \/ b \in lost => Without(incoming, b) /\ Without(done, b)
    /\ index \notin lost
    /\ \A i \in 1 .. Len(done) : Without(incoming, done[i])

\* The frames pushed, the one to be copied and those filled follow each other.
Waiting == IF pc = "copy" THEN 1 ELSE 0

Numbered ==
    /\ \A i \in 1 .. Len(out) : out[i] = i
    /\ pc = "copy" => content[index] = Len(out) + 1
    /\ \A i \in 1 .. Len(done) : content[done[i]] = Len(out) + Waiting + i
    /\ streaming \/ pc # "ended" => captured = Len(out) + Waiting + Len(done)

CameraInv == TypeOK /\ Held /\ Placed /\ Numbered

-----------------------------------------------------------------------------
(* Sequences.                                                              *)

LEMMA Appended ==
    ASSUME NEW S, NEW s \in Seq(S), NEW e \in S
    PROVE  /\ Append(s, e) \in Seq(S) /\ Len(Append(s, e)) = Len(s) + 1
           /\ \A i \in 1 .. Len(s) : Append(s, e)[i] = s[i]
           /\ Append(s, e)[Len(s) + 1] = e
  OBVIOUS

LEMMA Removed ==
    ASSUME NEW S, NEW s \in Seq(S), s # <<>>
    PROVE  /\ Tail(s) \in Seq(S) /\ Len(Tail(s)) = Len(s) - 1 /\ Len(s) \in Nat \ {0}
           /\ Head(s) \in S /\ Head(s) = s[1]
           /\ \A i \in 1 .. Len(Tail(s)) : Tail(s)[i] = s[i + 1]
  OBVIOUS

LEMMA DistinctAppend ==
    ASSUME NEW S, NEW s \in Seq(S), NEW e \in S, Distinct(s), Without(s, e)
    PROVE  Distinct(Append(s, e))
  BY Appended DEF Distinct, Without

LEMMA DistinctTail ==
    ASSUME NEW S, NEW s \in Seq(S), s # <<>>, Distinct(s)
    PROVE  Distinct(Tail(s)) /\ Without(Tail(s), Head(s))
  BY Removed DEF Distinct, Without

LEMMA WithoutTail ==
    ASSUME NEW S, NEW s \in Seq(S), s # <<>>, NEW b, Without(s, b)
    PROVE  Without(Tail(s), b) /\ Head(s) # b
  BY Removed DEF Without

LEMMA WithoutAppend ==
    ASSUME NEW S, NEW s \in Seq(S), NEW e \in S, NEW b, Without(s, b), b # e
    PROVE  Without(Append(s, e), b)
  BY Appended DEF Without

\* The loop of init() queues each buffer once, and none that was refused.
LEMMA LoopOrder ==
    ASSUME NBuf \in Nat, NEW failing \in SUBSET Buffers, NEW s \in InLoopOrder(AllBuffers \ failing)
    PROVE  s \in Seq(Buffers) /\ Distinct(s) /\ \A b \in failing : Without(s, b)
  <1> DEFINE S == AllBuffers \ failing
  <1>1. IsFiniteSet(S)
    <2>1. 0 \in Int /\ NBuf - 1 \in Int
      OBVIOUS
    <2>2. IsFiniteSet(AllBuffers)
      BY <2>1, FS_Interval DEF AllBuffers
    <2> QED
      BY <2>2, FS_Subset
  <1>2. Cardinality(S) \in Nat
    BY <1>1, FS_CardinalityType
  <1>3. S \subseteq Buffers /\ \A b \in S : b \notin failing /\ b \in Int
    BY DEF AllBuffers, Buffers
  <1>4. s \in [1 .. Cardinality(S) -> S] /\ \A i, j \in DOMAIN s : i < j => s[i] < s[j]
    BY DEF InLoopOrder
  <1> HIDE DEF S
  <1>5. DOMAIN s = 1 .. Cardinality(S) /\ s \in [1 .. Cardinality(S) -> Buffers]
    BY <1>3, <1>4
  <1>6. s \in Seq(Buffers) /\ Len(s) = Cardinality(S)
    BY <1>2, <1>5
  <1>7. ASSUME NEW i \in 1 .. Len(s), NEW j \in 1 .. Len(s), s[i] = s[j] PROVE i = j
    <2>1. s[i] \in Int /\ ~(i < j) /\ ~(j < i)
      BY <1>2, <1>3, <1>4, <1>5, <1>6, <1>7
    <2> QED
      BY <2>1, <1>2, <1>6
  <1>8. \A b \in failing : \A i \in 1 .. Len(s) : s[i] # b
    BY <1>2, <1>3, <1>4, <1>6
  <1> QED
    BY <1>6, <1>7, <1>8 DEF Distinct, Without

-----------------------------------------------------------------------------
(* The types.                                                              *)

LEMMA CameraTypes == TypeOK /\ Held /\ [Next]_vars => TypeOK'
  <1> SUFFICES ASSUME TypeOK, Held, [Next]_vars PROVE TypeOK'
    OBVIOUS
  <1> USE BufferAssumption
  <1>1. CASE UNCHANGED vars
    BY <1>1 DEF vars, TypeOK
  <1>2. CASE SetFormat
    BY <1>2 DEF SetFormat, TypeOK, driver
  <1>3. CASE SetBuffer
    <2>1. mapped' \subseteq Buffers
      BY <1>3 DEF SetBuffer, Buffers
    <2> QED
      BY <1>3, <2>1 DEF SetBuffer, TypeOK, driver
  <1>4. CASE QueueAll
    <2>1. incoming' \in Seq(Buffers) /\ lost' \subseteq Buffers
      BY <1>4, LoopOrder DEF QueueAll
    <2> QED
      BY <1>4, <2>1 DEF QueueAll, TypeOK, setup
  <1>5. CASE StreamOn
    BY <1>5 DEF StreamOn, TypeOK, setup
  <1>6. CASE Capture
    <2>1. Head(incoming) \in Buffers /\ Tail(incoming) \in Seq(Buffers)
      BY <1>6, Removed DEF Capture, TypeOK
    <2>2. Append(done, Head(incoming)) \in Seq(Buffers)
      BY <2>1 DEF TypeOK
    <2> QED
      BY <1>6, <2>1, <2>2 DEF Capture, TypeOK, setup
  <1>7. CASE SelectReady \/ SelectFails \/ SelectTimeout
    BY <1>7 DEF SelectReady, SelectFails, SelectTimeout, AfterTimeout, TypeOK, setup, driver
  <1>8. CASE Dequeue
    <2>1. Head(done) \in Buffers /\ Tail(done) \in Seq(Buffers)
      BY <1>8, Removed DEF Dequeue, TypeOK
    <2> QED
      BY <1>8, <2>1 DEF Dequeue, WhileHeld, TypeOK, setup
  <1>9. CASE DequeueFails
    <2>1. incoming' \in Seq(Buffers) /\ done' \in Seq(Buffers) /\ streaming' \in BOOLEAN
      <3>1. \/ streaming' = FALSE /\ incoming' = <<>> /\ done' = <<>>
            \/ UNCHANGED <<streaming, incoming, done>>
        BY <1>9 DEF DequeueFails
      <3>2. CASE UNCHANGED <<streaming, incoming, done>>
        BY <3>2 DEF TypeOK
      <3>3. CASE streaming' = FALSE /\ incoming' = <<>> /\ done' = <<>>
        <4>1. <<>> \in Seq(Buffers)
          OBVIOUS
        <4>2. streaming' \in BOOLEAN
          BY <3>3
        <4> QED
          BY <3>3, <4>1, <4>2
      <3> QED
        BY <3>1, <3>2, <3>3
    <2>2. ret' \in {-1, 0, 1} /\ pc' = "ended" /\ UNCHANGED <<content, captured, lost, setup, index, out,
                                                          interrupted, crashed>>
      BY <1>9 DEF DequeueFails
    <2>3. pc' \in {"format", "buffers", "queue", "start", "select", "dequeue", "copy", "requeue", "ended"}
      BY <2>2
    <2>4. /\ fd' \in BOOLEAN /\ allocated' \in BOOLEAN /\ interrupted' \in BOOLEAN /\ crashed' \in BOOLEAN
          /\ mapped' \subseteq Buffers /\ lost' \subseteq Buffers
      BY <2>2 DEF TypeOK, setup
    <2>5. content' \in [Buffers -> Nat] /\ index' \in Buffers \cup {-1}
      BY <2>2 DEF TypeOK
    <2>6. out' \in Seq(Nat) /\ captured' \in Nat
      BY <2>2 DEF TypeOK
    <2> QED
      BY <2>1, <2>2, <2>3, <2>4, <2>5, <2>6 DEF TypeOK
  <1>10. CASE Copy
    <2>1. out' \in Seq(Nat)
      <3>1. CASE index \in mapped
        <4>1. out' = Append(out, content[index]) /\ content[index] \in Nat /\ out \in Seq(Nat)
          BY <1>10, <3>1 DEF Copy, TypeOK
        <4> QED
          BY <4>1
      <3> QED
        BY <1>10, <3>1 DEF Copy, TypeOK
    <2>2. /\ pc' \in {"copy", "requeue"} /\ crashed' \in BOOLEAN
          /\ UNCHANGED <<driver, setup, index, ret, interrupted>>
      BY <1>10 DEF Copy, TypeOK
    <2> QED
      BY <2>1, <2>2 DEF TypeOK, setup, driver
  <1>11. CASE Requeue
    <2>1. index \in Buffers
      BY <1>11 DEF Requeue, Held, TypeOK
    <2>2. incoming' \in Seq(Buffers) /\ lost' \subseteq Buffers
      <3>1. incoming \in Seq(Buffers) /\ lost \subseteq Buffers
        BY DEF TypeOK
      <3>2. Append(incoming, index) \in Seq(Buffers)
        BY <2>1, <3>1, Appended
      <3> QED
        BY <1>11, <2>1, <3>1, <3>2 DEF Requeue, QueuedIndex
    <2>3. /\ index' = -1 /\ pc' = "select"
          /\ UNCHANGED <<done, content, streaming, captured, setup, ret, out, interrupted, crashed>>
      BY <1>11 DEF Requeue
    <2>4. pc' \in {"format", "buffers", "queue", "start", "select", "dequeue", "copy", "requeue", "ended"}
      BY <2>3
    <2>5. index' \in Buffers \cup {-1}
      BY <2>3
    <2> QED
      BY <2>2, <2>3, <2>4, <2>5 DEF TypeOK, setup
  <1> QED
    BY <1>1, <1>2, <1>3, <1>4, <1>5, <1>6, <1>7, <1>8, <1>9, <1>10, <1>11 DEF Next, Step

LEMMA HeldStep == TypeOK /\ Held /\ [Next]_vars => Held'
  <1> SUFFICES ASSUME TypeOK, Held, [Next]_vars PROVE Held'
    OBVIOUS
  <1> USE BufferAssumption DEF TypeOK, Held
  <1>1. CASE UNCHANGED vars
    BY <1>1 DEF vars
  <1>2. CASE SetFormat \/ SetBuffer \/ QueueAll \/ StreamOn
    BY <1>2 DEF SetFormat, SetBuffer, QueueAll, StreamOn, driver, setup
  <1>3. CASE Capture
    BY <1>3 DEF Capture, setup
  <1>4. CASE SelectReady \/ SelectFails \/ SelectTimeout
    BY <1>4 DEF SelectReady, SelectFails, SelectTimeout, AfterTimeout, setup, driver
  <1>5. CASE Dequeue
    <2>1. Head(done) \in 0 .. NBuf - 1
      BY <1>5, Removed DEF Dequeue, Buffers
    <2>2. Head(done) # -1
      BY <2>1
    <2> QED
      BY <1>5, <2>2 DEF Dequeue, WhileHeld, setup
  <1>6. CASE DequeueFails \/ Copy \/ Requeue
    BY <1>6 DEF DequeueFails, Copy, Requeue, setup, driver
  <1> QED
    BY <1>1, <1>2, <1>3, <1>4, <1>5, <1>6 DEF Next, Step

-----------------------------------------------------------------------------
(* One owner.                                                              *)

LEMMA PlacedStep == TypeOK /\ Held /\ Placed /\ [Next]_vars => Placed'
  <1> SUFFICES ASSUME TypeOK, Held, Placed, [Next]_vars PROVE Placed'
    OBVIOUS
  <1>1. incoming \in Seq(Buffers) /\ done \in Seq(Buffers) /\ lost \subseteq Buffers /\ -1 \notin Buffers
    BY BufferAssumption DEF TypeOK, Buffers
  <1>2. CASE UNCHANGED <<incoming, done, index, lost>>
    BY <1>2 DEF Placed
  <1>3. CASE QueueAll
    <2>1. PICK failing \in SUBSET Buffers :
              lost' = failing /\ incoming' \in InLoopOrder(AllBuffers \ failing)
      BY <1>3 DEF QueueAll
    <2>2. done' = <<>> /\ index' = -1
      BY <1>3 DEF QueueAll, Held
    <2>3. Distinct(incoming') /\ \A b \in lost' : Without(incoming', b)
      BY <2>1, LoopOrder, BufferAssumption
    <2> QED
      BY <1>1, <2>1, <2>2, <2>3 DEF Placed, Distinct, Without
  <1>4. CASE Capture
    <2> DEFINE b == Head(incoming)
    <2>1. incoming # <<>> /\ done' = Append(done, b) /\ incoming' = Tail(incoming) /\ UNCHANGED <<index, lost>>
      BY <1>4 DEF Capture
    <2>2. b \in Buffers /\ b = incoming[1] /\ 1 \in 1 .. Len(incoming)
      BY <1>1, <2>1, Removed
    <2>3. Without(done, b)
      BY <1>1, <2>2 DEF Placed, Without
    <2>4. b # index /\ b \notin lost
      BY <2>2 DEF Placed, Without
    <2>5. Distinct(incoming') /\ Distinct(done') /\ Without(incoming', b)
      BY <1>1, <2>1, <2>2, <2>3, DistinctAppend, DistinctTail DEF Placed
    <2>6. ASSUME NEW c \in Buffers, c = index \/ c \in lost PROVE Without(incoming', c) /\ Without(done', c)
      BY <1>1, <2>1, <2>2, <2>4, <2>6, WithoutTail, WithoutAppend DEF Placed
    <2>7. ASSUME NEW i \in 1 .. Len(done') PROVE Without(incoming', done'[i])
      <3>1. CASE i \in 1 .. Len(done)
        <4>1. done'[i] = done[i] /\ Without(incoming, done[i])
          BY <1>1, <2>1, <2>2, <3>1, Appended DEF Placed
        <4> QED
          BY <1>1, <2>1, <4>1, WithoutTail
      <3>2. CASE i \notin 1 .. Len(done)
        <4>1. i = Len(done) + 1 /\ done'[i] = b
          <5>1. Len(done') = Len(done) + 1 /\ Append(done, b)[Len(done) + 1] = b /\ Len(done) \in Nat
            BY <1>1, <2>1, <2>2, Appended
          <5> HIDE DEF b
          <5> QED
            BY <2>1, <3>2, <5>1
        <4> QED
          BY <2>5, <4>1
      <3> QED
        BY <3>1, <3>2
    <2> QED
      BY <2>1, <2>5, <2>6, <2>7 DEF Placed
  <1>5. CASE Dequeue
    <2> DEFINE b == Head(done)
    <2>1. done # <<>> /\ index' = b /\ done' = Tail(done) /\ UNCHANGED <<incoming, lost>>
      BY <1>5 DEF Dequeue, WhileHeld
    <2>2. b \in Buffers /\ b = done[1] /\ 1 \in 1 .. Len(done)
      BY <1>1, <2>1, Removed
    <2>3. Without(incoming, b) /\ b \notin lost
      BY <1>1, <2>2 DEF Placed, Without
    <2>4. Distinct(done') /\ Without(done', b)
      BY <1>1, <2>1, DistinctTail DEF Placed
    <2>5. ASSUME NEW c \in lost PROVE Without(incoming, c) /\ Without(done', c)
      BY <1>1, <2>1, WithoutTail DEF Placed
    <2>6. ASSUME NEW i \in 1 .. Len(done') PROVE Without(incoming, done'[i])
      <3>1. done'[i] = done[i + 1] /\ i + 1 \in 1 .. Len(done)
        BY <1>1, <2>1, Removed
      <3> QED
        BY <3>1 DEF Placed
    <2> QED
      BY <2>1, <2>3, <2>4, <2>5, <2>6 DEF Placed
  <1>6. CASE DequeueFails
    <2>1. UNCHANGED <<index, lost>> /\ (UNCHANGED <<incoming, done>> \/ (incoming' = <<>> /\ done' = <<>>))
      BY <1>6 DEF DequeueFails
    <2> QED
      BY <1>2, <2>1 DEF Placed, Distinct, Without
  <1>7. CASE Requeue
    <2>1. /\ index \in Buffers /\ index' = -1 /\ UNCHANGED done
          /\ \/ incoming' = Append(incoming, index) /\ UNCHANGED lost
             \/ lost' = lost \cup {index} /\ UNCHANGED incoming
      BY <1>7 DEF Requeue, QueuedIndex, Held, TypeOK
    <2>2. Without(incoming, index) /\ Without(done, index) /\ index \notin lost
      BY <2>1 DEF Placed
    <2>3. CASE lost' = lost \cup {index} /\ UNCHANGED incoming
      BY <1>1, <2>1, <2>2, <2>3 DEF Placed
    <2>4. CASE incoming' = Append(incoming, index) /\ UNCHANGED lost
      <3>1. Distinct(incoming')
        BY <1>1, <2>1, <2>2, <2>4, DistinctAppend DEF Placed
      <3>2. \A b \in lost : Without(incoming', b) /\ Without(done, b)
        BY <1>1, <2>1, <2>2, <2>4, WithoutAppend DEF Placed
      <3>3. ASSUME NEW i \in 1 .. Len(done) PROVE Without(incoming', done[i])
        <4>1. done[i] # index /\ Without(incoming, done[i])
          BY <2>2 DEF Placed, Without
        <4> QED
          BY <1>1, <2>1, <2>4, <4>1, WithoutAppend
      <3> QED
        BY <1>1, <2>1, <2>4, <3>1, <3>2, <3>3 DEF Placed
    <2> QED
      BY <2>1, <2>3, <2>4
  <1> QED
    BY <1>2, <1>3, <1>4, <1>5, <1>6, <1>7 DEF Next, Step, SetFormat, SetBuffer, StreamOn, SelectReady,
       SelectFails, SelectTimeout, Copy, driver, vars

-----------------------------------------------------------------------------
(* Frames in order.                                                        *)

LEMMA NumberedStep == CameraInv /\ [Next]_vars => Numbered'
  <1> SUFFICES ASSUME CameraInv, [Next]_vars PROVE Numbered'
    OBVIOUS
  <1>1. /\ incoming \in Seq(Buffers) /\ done \in Seq(Buffers) /\ content \in [Buffers -> Nat]
        /\ out \in Seq(Nat) /\ Len(out) \in Nat /\ Len(done) \in Nat /\ captured \in Nat
    BY DEF CameraInv, TypeOK
  <1>2. Waiting \in {0, 1} /\ (pc = "copy" <=> Waiting = 1)
    BY DEF Waiting
  <1>3. CASE UNCHANGED <<done, content, out, captured>> /\ pc' # "copy" /\ pc # "copy"
             /\ (streaming' \/ pc' # "ended" => streaming \/ pc # "ended")
    BY <1>3 DEF CameraInv, Numbered, Waiting
  <1>4. CASE Capture
    <2> DEFINE b == Head(incoming)
    <2>1. /\ incoming # <<>> /\ done' = Append(done, b) /\ captured' = captured + 1 /\ streaming
          /\ content' = [content EXCEPT ![b] = captured + 1] /\ UNCHANGED <<pc, out, index>>
      BY <1>4 DEF Capture
    <2>2. b \in Buffers /\ b = incoming[1] /\ 1 \in 1 .. Len(incoming)
      BY <1>1, <2>1, Removed
    <2>3. b # index /\ Without(done, b)
      BY <2>2 DEF CameraInv, Placed, Without
    <2>4. captured = Len(out) + Waiting + Len(done)
      BY <2>1 DEF CameraInv, Numbered
    <2>5. Waiting' = Waiting
      BY <2>1 DEF Waiting
    <2>6. pc = "copy" => content'[index] = Len(out) + 1
      <3>1. content'[index] = content[index]
        BY <1>1, <2>1, <2>3
      <3> QED
        BY <3>1 DEF CameraInv, Numbered
    <2>7. Len(done') = Len(done) + 1 /\ done'[Len(done) + 1] = b
          /\ \A i \in 1 .. Len(done) : done'[i] = done[i]
      BY <1>1, <2>1, <2>2, Appended
    <2>8. content'[b] = captured + 1 /\ \A c \in Buffers \ {b} : content'[c] = content[c]
      BY <1>1, <2>1, <2>2
    <2> HIDE DEF b
    <2>9. ASSUME NEW i \in 1 .. Len(done') PROVE content'[done'[i]] = Len(out) + Waiting + i
      <3>1. CASE i \in 1 .. Len(done)
        <4>1. done[i] \in Buffers \ {b} /\ done'[i] = done[i]
          BY <1>1, <2>3, <2>7, <3>1 DEF Without
        <4> QED
          BY <2>8, <3>1, <4>1 DEF CameraInv, Numbered
      <3>2. CASE i \notin 1 .. Len(done)
        <4>1. i = Len(done) + 1
          BY <1>1, <2>7, <3>2
        <4> QED
          BY <1>1, <1>2, <2>4, <2>7, <2>8, <4>1
      <3> QED
        BY <3>1, <3>2
    <2>10. captured' = Len(out) + Waiting + Len(done')
      <3>1. captured' = captured + 1
        BY <2>1
      <3>2. Waiting \in {0, 1}
        BY <1>2
      <3> QED
        BY <1>1, <2>4, <2>7, <3>1, <3>2
    <2> QED
      BY <2>1, <2>5, <2>6, <2>9, <2>10 DEF CameraInv, Numbered
  <1>5. CASE Dequeue
    <2>1. /\ done # <<>> /\ index' = Head(done) /\ done' = Tail(done) /\ pc = "dequeue" /\ pc' = "copy"
          /\ UNCHANGED <<content, streaming, captured, out>>
      BY <1>5 DEF Dequeue
    <2>2. /\ Head(done) = done[1] /\ Len(done') = Len(done) - 1 /\ Len(done) \in Nat \ {0}
          /\ \A i \in 1 .. Len(done') : done'[i] = done[i + 1]
      BY <1>1, <2>1, Removed
    <2>3. Waiting = 0 /\ Waiting' = 1
      BY <2>1 DEF Waiting
    <2>4. content[index'] = Len(out) + 1
      BY <1>1, <2>1, <2>2, <2>3 DEF CameraInv, Numbered
    <2>5. ASSUME NEW i \in 1 .. Len(done') PROVE content[done'[i]] = Len(out) + 1 + i
      <3>1. i + 1 \in 1 .. Len(done) /\ done'[i] = done[i + 1]
        BY <2>2
      <3> QED
        BY <1>1, <2>3, <3>1 DEF CameraInv, Numbered
    <2>6. captured = Len(out) + 1 + Len(done')
      BY <1>1, <2>1, <2>2, <2>3 DEF CameraInv, Numbered
    <2> QED
      BY <2>1, <2>3, <2>4, <2>5, <2>6 DEF CameraInv, Numbered
  <1>6. CASE DequeueFails
    <2>1. /\ pc = "dequeue" /\ pc' = "ended" /\ UNCHANGED <<content, captured, out>>
          /\ UNCHANGED done \/ (streaming' = FALSE /\ done' = <<>>)
      BY <1>6 DEF DequeueFails
    <2>2. Waiting = 0 /\ Waiting' = 0 /\ captured = Len(out) + 0 + Len(done)
      BY <2>1 DEF CameraInv, Numbered, Waiting
    <2>3. CASE UNCHANGED done
      BY <2>1, <2>2, <2>3 DEF CameraInv, Numbered
    <2>4. CASE streaming' = FALSE /\ done' = <<>>
      <3>1. ~streaming' /\ Len(done') = 0
        BY <2>4
      <3>2. \A i \in 1 .. Len(done') : content'[done'[i]] = Len(out') + Waiting' + i
        BY <3>1
      <3> QED
        BY <2>1, <2>2, <3>1, <3>2 DEF CameraInv, Numbered
    <2> QED
      BY <2>1, <2>3, <2>4
  <1>7. CASE Copy
    <2>1. CASE UNCHANGED <<out, pc>>
      BY <1>7, <2>1 DEF Copy, CameraInv, Numbered, Waiting, driver
    <2>2. CASE out' = Append(out, content[index]) /\ pc' = "requeue"
      <3>1. pc = "copy" /\ UNCHANGED <<done, content, streaming, captured, index>> /\ index \in Buffers
        BY <1>7 DEF Copy, driver, CameraInv, Held, TypeOK
      <3>2. content[index] \in Nat /\ content[index] = Len(out) + 1
        BY <1>1, <3>1 DEF CameraInv, Numbered
      <3>3. /\ Len(out') = Len(out) + 1 /\ out'[Len(out) + 1] = Len(out) + 1
            /\ \A i \in 1 .. Len(out) : out'[i] = out[i]
        BY <1>1, <2>2, <3>2, Appended
      <3>4. \A i \in 1 .. Len(out') : out'[i] = i
        <4>1. \A i \in 1 .. Len(out) : out[i] = i
          BY DEF CameraInv, Numbered
        <4>2. ASSUME NEW i \in 1 .. Len(out) + 1 PROVE out'[i] = i
          <5>1. i \in 1 .. Len(out) \/ i = Len(out) + 1
            BY <1>1
          <5>2. CASE i \in 1 .. Len(out)
            BY <3>3, <4>1, <5>2
          <5>3. CASE i = Len(out) + 1
            BY <3>3, <5>3
          <5> QED
            BY <5>1, <5>2, <5>3
        <4> QED
          BY <3>3, <4>2
      <3>5. Waiting = 1 /\ Waiting' = 0
        BY <2>2, <3>1 DEF Waiting
      <3>6. \A i \in 1 .. Len(done) : content[done[i]] = Len(out) + 1 + i
        BY <3>5 DEF CameraInv, Numbered
      <3>7. captured = Len(out) + 1 + Len(done)
        BY <3>1, <3>5 DEF CameraInv, Numbered
      <3>8. \A i \in 1 .. Len(done) : content[done[i]] = Len(out') + 0 + i
        BY <1>1, <3>3, <3>6
      <3>9. captured = Len(out') + 0 + Len(done)
        BY <1>1, <3>3, <3>7
      <3> QED
        BY <2>2, <3>1, <3>4, <3>5, <3>8, <3>9 DEF Numbered
    <2> QED
      BY <1>7, <2>1, <2>2 DEF Copy
  <1>8. CASE UNCHANGED vars
    BY <1>8 DEF vars, CameraInv, Numbered, Waiting
  <1> QED
    BY <1>3, <1>4, <1>5, <1>6, <1>7, <1>8 DEF Next, Step, SetFormat, SetBuffer, QueueAll, StreamOn,
       SelectReady, SelectFails, SelectTimeout, AfterTimeout, Requeue, driver

LEMMA CameraAlways == Spec => []CameraInv
  <1>1. Init => CameraInv
    <2> SUFFICES ASSUME Init PROVE CameraInv
      OBVIOUS
    <2>1. TypeOK
      <3>1. <<>> \in Seq(Buffers) /\ <<>> \in Seq(Nat)
        OBVIOUS
      <3>2. content \in [Buffers -> Nat] /\ captured \in Nat
        BY DEF Init
      <3>3. incoming \in Seq(Buffers) /\ done \in Seq(Buffers) /\ out \in Seq(Nat)
        BY <3>1 DEF Init
      <3> QED
        BY <3>2, <3>3 DEF Init, TypeOK
    <2>2. Held /\ Placed /\ Numbered
      BY DEF Init, Held, Placed, Numbered, Waiting, Distinct, Without
    <2> QED
      BY <2>1, <2>2 DEF CameraInv
  <1>2. CameraInv /\ [Next]_vars => CameraInv'
    BY CameraTypes, HeldStep, PlacedStep, NumberedStep DEF CameraInv
  <1> QED
    BY <1>1, <1>2, PTL DEF Spec

-----------------------------------------------------------------------------
(* The properties.                                                         *)

LEMMA Joined ==
    ASSUME NEW S, NEW s \in Seq(S), NEW t \in Seq(S)
    PROVE  /\ s \o t \in Seq(S) /\ Len(s \o t) = Len(s) + Len(t)
           /\ \A i \in 1 .. Len(s) : (s \o t)[i] = s[i]
           /\ \A i \in Len(s) + 1 .. Len(s) + Len(t) : (s \o t)[i] = t[i - Len(s)]
  OBVIOUS

LEMMA Counting ==
    ASSUME NEW n \in Nat, NEW s \in Seq(Nat), Len(s) = n, \A i \in 1 .. n : s[i] = i
    PROVE  s = [i \in 1 .. n |-> i]
  OBVIOUS

LEMMA JoinedDistinct ==
    ASSUME NEW S, NEW s \in Seq(S), NEW t \in Seq(S), Distinct(s), Distinct(t),
           \A i \in 1 .. Len(t) : Without(s, t[i])
    PROVE  Distinct(s \o t)
  <1>1. Len(s) \in Nat /\ Len(t) \in Nat /\ Len(s \o t) = Len(s) + Len(t)
    BY Joined
  <1>2. ASSUME NEW i \in 1 .. Len(s \o t), NEW j \in 1 .. Len(s \o t), (s \o t)[i] = (s \o t)[j]
        PROVE  i = j
    <2>1. CASE i <= Len(s) /\ j <= Len(s)
      BY <1>1, <1>2, <2>1, Joined DEF Distinct
    <2>2. CASE i > Len(s) /\ j > Len(s)
      <3>1. /\ i - Len(s) \in 1 .. Len(t) /\ j - Len(s) \in 1 .. Len(t)
            /\ t[i - Len(s)] = t[j - Len(s)]
        BY <1>1, <1>2, <2>2, Joined
      <3>2. i - Len(s) = j - Len(s)
        BY <3>1 DEF Distinct
      <3> QED
        BY <1>1, <3>2
    <2>3. CASE i <= Len(s) /\ j > Len(s)
      <3>1. i \in 1 .. Len(s) /\ j - Len(s) \in 1 .. Len(t) /\ s[i] = t[j - Len(s)]
        BY <1>1, <1>2, <2>3, Joined
      <3> QED
        BY <3>1 DEF Without
    <2>4. CASE i > Len(s) /\ j <= Len(s)
      <3>1. j \in 1 .. Len(s) /\ i - Len(s) \in 1 .. Len(t) /\ s[j] = t[i - Len(s)]
        BY <1>1, <1>2, <2>4, Joined
      <3> QED
        BY <3>1 DEF Without
    <2> QED
      BY <1>1, <2>1, <2>2, <2>3, <2>4
  <1> QED
    BY <1>2 DEF Distinct

LEMMA JoinedWithout ==
    ASSUME NEW S, NEW s \in Seq(S), NEW t \in Seq(S), NEW b, Without(s, b), Without(t, b)
    PROVE  Without(s \o t, b)
  <1>1. Len(s) \in Nat /\ Len(t) \in Nat /\ Len(s \o t) = Len(s) + Len(t)
    BY Joined
  <1>2. ASSUME NEW i \in 1 .. Len(s \o t) PROVE (s \o t)[i] # b
    <2>1. CASE i <= Len(s)
      BY <1>1, <2>1, Joined DEF Without
    <2>2. CASE i > Len(s)
      <3>1. i - Len(s) \in 1 .. Len(t) /\ (s \o t)[i] = t[i - Len(s)]
        BY <1>1, <2>2, Joined
      <3> QED
        BY <3>1 DEF Without
    <2> QED
      BY <1>1, <2>1, <2>2
  <1> QED
    BY <1>2 DEF Without

\* Type correctness of the camera thread, for any number of buffers and frames.
THEOREM CameraTypesCorrect == Spec => []TypeOK
  <1>1. CameraInv => TypeOK
    BY DEF CameraInv
  <1> QED
    BY <1>1, CameraAlways, PTL

\* For any number of buffers, whichever calls of the device fail: a buffer is queued,
\* filled, in the thread's hands or out of use, and never in two of these places.
THEOREM BufferHasOneOwner == Spec => []OneOwner
  <1>1. ASSUME CameraInv PROVE OneOwner
    <2>1. incoming \in Seq(Buffers) /\ done \in Seq(Buffers) /\ index \in Buffers \cup {-1} /\ lost \subseteq Buffers
      BY <1>1 DEF CameraInv, TypeOK
    <2>2. /\ InHand \in Seq(Buffers) /\ Distinct(InHand)
          /\ \A i \in 1 .. Len(InHand) : InHand[i] = index /\ index \in Buffers
      BY <2>1 DEF InHand, Distinct
    <2> DEFINE queued == incoming \o done
    <2>3. queued \in Seq(Buffers) /\ Distinct(queued)
      BY <1>1, <2>1, Joined, JoinedDistinct DEF CameraInv, Placed
    <2>4. \A b \in lost : Without(queued, b)
      BY <1>1, <2>1, JoinedWithout DEF CameraInv, Placed
    <2>5. index \in Buffers => Without(queued, index)
      BY <1>1, <2>1, JoinedWithout DEF CameraInv, Placed
    <2>6. \A b \in lost : Without(InHand, b)
      BY <1>1, <2>2 DEF CameraInv, Placed, Without
    <2> HIDE DEF queued
    <2>7. Distinct(queued \o InHand)
      BY <2>2, <2>3, <2>5, JoinedDistinct
    <2>8. \A b \in lost : Without(queued \o InHand, b)
      BY <2>2, <2>3, <2>4, <2>6, JoinedWithout
    <2> QED
      BY <2>7, <2>8 DEF OneOwner, Distinct, Without, queued
  <1> QED
    BY <1>1, CameraAlways, PTL

\* For any number of buffers and frames: every frame delivered is pushed once and in
\* order, and none is overwritten before it has been copied.
THEOREM FramesAreCopiedInOrder == Spec => []FramesCopiedInOrder
  <1>1. ASSUME CameraInv PROVE FramesCopiedInOrder
    <2> DEFINE filled == (IF pc = "copy" THEN InHand ELSE <<>>) \o done
               shown == [i \in 1 .. Len(filled) |-> content[filled[i]]]
    <2>1. /\ done \in Seq(Buffers) /\ content \in [Buffers -> Nat] /\ out \in Seq(Nat)
          /\ Len(out) \in Nat /\ Len(done) \in Nat /\ (pc = "copy" => index \in Buffers /\ InHand = <<index>>)
      BY <1>1 DEF CameraInv, TypeOK, Held, InHand
    <2>2. /\ filled \in Seq(Buffers) /\ Len(filled) = Waiting + Len(done) /\ Len(filled) \in Nat
          /\ \A i \in 1 .. Len(filled) : content[filled[i]] = Len(out) + i
      <3>1. CASE pc = "copy"
        <4>1. /\ filled = <<index>> \o done /\ Waiting = 1 /\ <<index>> \in Seq(Buffers)
              /\ Len(<<index>>) = 1 /\ <<index>>[1] = index
          <5>1. /\ <<index>> \in Seq(Buffers) /\ Len(<<index>>) = 1 /\ <<index>>[1] = index
            BY <2>1, <3>1
          <5>2. Waiting = 1 /\ filled = <<index>> \o done
            BY <2>1, <3>1 DEF Waiting
          <5> QED
            BY <5>1, <5>2
        <4>2. content[index] = Len(out) + 1 /\ \A i \in 1 .. Len(done) : content[done[i]] = Len(out) + 1 + i
          BY <1>1, <3>1, <4>1 DEF CameraInv, Numbered
        <4>3. /\ filled \in Seq(Buffers) /\ Len(filled) = 1 + Len(done) /\ filled[1] = index
              /\ \A i \in 2 .. 1 + Len(done) : filled[i] = done[i - 1]
          <5>1. /\ <<index>> \o done \in Seq(Buffers) /\ Len(<<index>> \o done) = 1 + Len(done)
                /\ \A i \in 1 .. 1 : (<<index>> \o done)[i] = <<index>>[i]
                /\ \A i \in 1 + 1 .. 1 + Len(done) : (<<index>> \o done)[i] = done[i - 1]
            BY <2>1, <4>1, Joined
          <5>2. (<<index>> \o done)[1] = index
            BY <4>1, <5>1
          <5> HIDE DEF filled
          <5> QED
            BY <4>1, <5>1, <5>2
        <4> HIDE DEF filled
        <4>4. ASSUME NEW i \in 1 .. Len(filled) PROVE content[filled[i]] = Len(out) + i
          <5>1. CASE i = 1
            BY <4>2, <4>3, <5>1
          <5>2. CASE i # 1
            <6>1. i \in 2 .. 1 + Len(done) /\ i - 1 \in 1 .. Len(done) /\ filled[i] = done[i - 1]
              BY <2>1, <4>3, <5>2
            <6>2. content[done[i - 1]] = Len(out) + 1 + (i - 1)
              BY <4>2, <6>1
            <6> QED
              BY <2>1, <6>1, <6>2
          <5> QED
            BY <5>1, <5>2
        <4> QED
          BY <2>1, <4>1, <4>3, <4>4
      <3>2. CASE pc # "copy"
        <4>1. filled = done /\ Waiting = 0
          BY <2>1, <3>2 DEF Waiting
        <4> HIDE DEF filled
        <4> QED
          BY <1>1, <2>1, <4>1 DEF CameraInv, Numbered
      <3> QED
        BY <3>1, <3>2
    <2> HIDE DEF filled
    <2>3. /\ shown \in Seq(Nat) /\ Len(shown) = Len(filled)
          /\ \A i \in 1 .. Len(filled) : shown[i] = Len(out) + i
      BY <2>1, <2>2
    <2> HIDE DEF shown
    <2>4. /\ out \o shown \in Seq(Nat) /\ Len(out \o shown) = Len(out) + Len(filled)
          /\ \A i \in 1 .. Len(out) + Len(filled) : (out \o shown)[i] = i
      <3>1. /\ out \o shown \in Seq(Nat) /\ Len(out \o shown) = Len(out) + Len(filled)
            /\ \A i \in 1 .. Len(out) : (out \o shown)[i] = out[i]
            /\ \A i \in Len(out) + 1 .. Len(out) + Len(filled) : (out \o shown)[i] = shown[i - Len(out)]
        <4>1. /\ out \o shown \in Seq(Nat) /\ Len(out \o shown) = Len(out) + Len(shown)
              /\ \A i \in 1 .. Len(out) : (out \o shown)[i] = out[i]
              /\ \A i \in Len(out) + 1 .. Len(out) + Len(shown) : (out \o shown)[i] = shown[i - Len(out)]
          BY <2>1, <2>3, Joined
        <4>2. Len(shown) = Len(filled)
          BY <2>3
        <4> QED
          BY <4>1, <4>2
      <3>2. \A i \in 1 .. Len(out) : out[i] = i
        BY <1>1 DEF CameraInv, Numbered
      <3> QED
        BY <2>1, <2>2, <2>3, <3>1, <3>2
    <2>5. out \o shown = [i \in 1 .. Len(out) + Len(filled) |-> i]
      <3>1. Len(out) + Len(filled) \in Nat
        BY <2>1, <2>2
      <3> QED
        BY <2>4, <3>1, Counting
    <2>6. pc # "ended" => Len(out) + Len(filled) = captured
      <3>1. Waiting \in {0, 1}
        BY DEF Waiting
      <3> QED
        BY <1>1, <2>1, <2>2, <3>1 DEF CameraInv, Numbered
    <2> QED
      BY <2>5, <2>6 DEF FramesCopiedInOrder, filled, shown
  <1> QED
    BY <1>1, CameraAlways, PTL
=============================================================================
