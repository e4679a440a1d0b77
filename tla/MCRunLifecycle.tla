--------------------------- MODULE MCRunLifecycle ---------------------------
(***************************************************************************)
(* RunLifecycle for TLC: the names of the requests and of the keys; the    *)
(* configurations say which of them there are.                             *)
(***************************************************************************)
EXTENDS RunLifecycle

CONSTANTS x1, x2, u1, r1, r2, k1, k2
=============================================================================
