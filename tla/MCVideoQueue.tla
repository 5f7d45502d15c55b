---------------------------- MODULE MCVideoQueue ----------------------------
(***************************************************************************)
(* Instances of VideoQueue for TLC: the live stream and an event whose     *)
(* queue is popped by two threads, and an event that two threads subscribe *)
(* to, at the same time or one after the other.                            *)
(***************************************************************************)
EXTENDS VideoQueue, TLC

CONSTANTS d1, d2, live, ev, cLive, cEv, cEv2

SteadyNameOf == [c \in {cLive, cEv, cEv2} |-> IF c = cLive THEN live ELSE ev]
SteadyFps == [n \in {live, ev} |-> IF n = live THEN 2 ELSE 1]

ChurnNameOf == [c \in {cEv, cEv2} |-> ev]
ChurnFps == [n \in {ev} |-> 2]

LoneNameOf == [c \in {cEv} |-> ev]
LoneFps == [n \in {ev} |-> 1]

DistributorSymmetry == Permutations({d1, d2})
=============================================================================
