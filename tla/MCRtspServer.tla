---------------------------- MODULE MCRtspServer ----------------------------
(***************************************************************************)
(* Instances of RtspServer: two connections.                               *)
(***************************************************************************)
EXTENDS RtspServer

CONSTANTS c1, c2
=============================================================================
