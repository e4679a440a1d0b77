----------------------------- MODULE MCServices -----------------------------
(***************************************************************************)
(* The smaller services for TLC: a session with two calls, a plugin with   *)
(* two, a parent and the child it delegated to, a broadcast to two, an     *)
(* asker of two records, and two shells.                                   *)
(***************************************************************************)
EXTENDS Services

CONSTANTS s1, p1, p2, parent, child, b1, b2, g1, g2, a1, hosted, other, h1, h2

(* A parent and the child it delegated to, a cap on the parent's run and a *)
(* ceiling over both.                                                      *)
ParentAndChild == [s \in {parent, child} |-> IF s = child THEN {parent, child} ELSE {parent}]
TwoTurns       == [c \in {{parent}} |-> 2]

(* A broadcast to two, and another gesture to one of them. *)
OneToBoth == [g \in {g1, g2} |-> IF g = g1 THEN {b1, b2} ELSE {b2}]

(* An allow and a deny for the asker. *)
AllowAndDeny == [effect : {"allow", "deny"}, askers : {{a1}}]
=============================================================================
