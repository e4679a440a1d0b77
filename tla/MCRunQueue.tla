---------------------------- MODULE MCRunQueue ----------------------------
(***************************************************************************)
(* Small boards and gestures for RunQueue.  On the board, c2 consumes the  *)
(* output of c1 and the object o1; so does c4, with its inputs wired in    *)
(* the other order; c1 and c3 consume nothing.  Gestures ga and gc are     *)
(* scopes; gb and gd run one command each.                                 *)
(***************************************************************************)
EXTENDS RunQueue, TLC

CONSTANTS ga, gb, gc, gd, c1, c2, c3, c4, o1, a1, a2, b3, s1, s4, d1

(* c1 and c2 as one scope. *)
ChainEntries  == {a1, a2}
ChainBatchOf  == a1 :> ga @@ a2 :> ga
ChainCommands == a1 :> c1 @@ a2 :> c2
ChainPosition == a1 :> 1 @@ a2 :> 2

(* That scope, and c1 with c4 as another. *)
ChainsEntries  == {a1, a2, s1, s4}
ChainsBatchOf  == ChainBatchOf @@ s1 :> gc @@ s4 :> gc
ChainsCommands == ChainCommands @@ s1 :> c1 @@ s4 :> c4
ChainsPosition == ChainPosition @@ s1 :> 1 @@ s4 :> 2

(* The first scope beside a single run of c3. *)
MixedEntries  == {a1, a2, b3}
MixedBatchOf  == ChainBatchOf @@ b3 :> gb
MixedCommands == ChainCommands @@ b3 :> c3
MixedPosition == ChainPosition @@ b3 :> 1

(* One single run, and two. *)
SingleEntries  == {b3}
SingleBatchOf  == b3 :> gb
SingleCommands == b3 :> c3
SinglePosition == b3 :> 1
SinglesEntries  == {b3, d1}
SinglesBatchOf  == SingleBatchOf @@ d1 :> gd
SinglesCommands == SingleCommands @@ d1 :> c1
SinglesPosition == SinglePosition @@ d1 :> 1

(* The object before the producer for c2, and behind it for c4. *)
Wired     == c1 :> <<>> @@ c2 :> <<o1, c1>> @@ c3 :> <<>> @@ c4 :> <<c1, o1>>
(* The board without its wires. *)
Unchained == c1 :> <<>> @@ c2 :> <<>> @@ c3 :> <<>> @@ c4 :> <<>>
===========================================================================
