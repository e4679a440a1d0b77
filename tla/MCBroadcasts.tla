---------------------------- MODULE MCBroadcasts ----------------------------
(***************************************************************************)
(* Broadcasts for TLC: every gesture is a broadcast to every session.      *)
(***************************************************************************)
EXTENDS Broadcasts

CONSTANTS r1, r2, g1, g2

ToEveryone == [g \in Gesture |-> Session]
=============================================================================
