----------------------------- MODULE MCRequests -----------------------------
(***************************************************************************)
(* Requests for TLC: the names of the sessions; the configurations say     *)
(* which of them there are, and what their calls want.                     *)
(***************************************************************************)
EXTENDS Requests

CONSTANTS s1, s2
=============================================================================
