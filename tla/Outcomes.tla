------------------------------ MODULE Outcomes ------------------------------
(***************************************************************************)
(* What a session and its run promise about how they end.  A session keeps *)
(* the first end it is given until somebody resumes it.  Its run ends once *)
(* and for all: completed when its outcome is proven, which is before any  *)
(* session says completed, and otherwise with the outcome that the end of  *)
(* the session stands for.                                                 *)
(***************************************************************************)

VARIABLES session, run

SessionEnds == {"completed", "failed", "out-of-budget", "stopped",
                "ended-by-user", "interrupted"}

RunOutcome(end) ==
  CASE end \in {"failed", "interrupted"}                   -> end
    [] end = "out-of-budget"                               -> "out_of_budget"
    [] end \in {"completed", "stopped", "ended-by-user"} -> "stopped"

Init == session = "none" /\ run = "none"

Begin  == session = "none" /\ run = "none" /\ run' = "running" /\ UNCHANGED session
Refuse == session = "none" /\ run = "running" /\ run' = "failed" /\ UNCHANGED session
Open   == session = "none" /\ run = "running" /\ session' = "live" /\ UNCHANGED run

(* Proof ends the run, and the session unless that has ended already. *)
Prove ==
  /\ session # "none"
  /\ run = "running"
  /\ run' = "completed"
  /\ session' = IF session = "live" THEN "completed" ELSE session

(* The run of a session that ends follows at once or later. *)
End(end) ==
  /\ session = "live"
  /\ end = "completed" => run = "completed"
  /\ session' = end
  /\ \/ UNCHANGED run
     \/ run = "running" /\ run' = RunOutcome(end)

Settle ==
  /\ session \in SessionEnds
  /\ run = "running"
  /\ run' = RunOutcome(session)
  /\ UNCHANGED session

Resume == session \in SessionEnds /\ session' = "live" /\ UNCHANGED run

Next == \/ Begin \/ Refuse \/ Open \/ Prove \/ Settle \/ Resume
        \/ \E end \in SessionEnds : End(end)

Spec == Init /\ [][Next]_<<session, run>>
=============================================================================
