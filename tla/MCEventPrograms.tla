--------------------------- MODULE MCEventPrograms ---------------------------
(***************************************************************************)
(* Instances of EventPrograms: program a is on disk, b comes by upload.    *)
(***************************************************************************)
EXTENDS EventPrograms

CONSTANTS a, b, r1, r2

Start(n) == [what |-> "start", name |-> n]
Stop(n)  == [what |-> "stop", name |-> n]

\* The directory of a may be in order, or say 0 and name a rate above _device_fps,
\* or be what a removal that failed has left.
Disks == {[so |-> TRUE, rate |-> "good", enable |-> "1"],
          [so |-> TRUE, rate |-> "high", enable |-> "0"],
          [so |-> TRUE, rate |-> "good", enable |-> "none"]}

\* Each request may be repeated, and main() starts a: two starts would add nothing.
SomeAsks == {q \in [{r1, r2} -> {Start(a), Stop(a), Start(b)}] :
               <<q[r1], q[r2]>> \in {<<Start(a), Stop(a)>>, <<Stop(a), Start(b)>>}}
=============================================================================
