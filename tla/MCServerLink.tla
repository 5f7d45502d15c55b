---------------------------- MODULE MCServerLink ----------------------------
(***************************************************************************)
(* Instances of ServerLink: two requests, with one id or with two.         *)
(***************************************************************************)
EXTENDS ServerLink

CONSTANTS e1, e2, i1, i2
=============================================================================
