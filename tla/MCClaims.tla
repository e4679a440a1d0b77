------------------------------ MODULE MCClaims ------------------------------
(***************************************************************************)
(* A small workspace for Claims: the root, a directory and a file in it.   *)
(***************************************************************************)
EXTENDS Claims

CONSTANTS src, api

Segments == {src, api}
Nested   == {<<>>, <<src>>, <<src, api>>}
=============================================================================
