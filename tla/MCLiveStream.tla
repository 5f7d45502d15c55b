---------------------------- MODULE MCLiveStream ----------------------------
(***************************************************************************)
(* Instances of LiveStream: the start-up probe and two sessions.  Four     *)
(* caps fields stand for the seven that new_sample looks for: the two that *)
(* the code relates and two that stand alone.                              *)
(***************************************************************************)
EXTENDS LiveStream

CONSTANTS s1, s2

FieldNames == {"encoding-name", "a-framerate", "profile-level-id", "ssrc"}

\* Caps without the frame rate, caps without the ssrc, and complete ones.
SampleCaps == {FieldNames \ {"a-framerate"}, FieldNames \ {"ssrc"}, FieldNames}
=============================================================================
