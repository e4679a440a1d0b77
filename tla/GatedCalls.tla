----------------------------- MODULE GatedCalls -----------------------------
(***************************************************************************)
(* What the permission gate promises of the calls of a runtime.  A call    *)
(* waits from when it is raised; it is let go once, for good; and a tool   *)
(* runs only when it was permitted.  How the answer travels, what is       *)
(* retried and what is lost on the way is none of its business.            *)
(***************************************************************************)
CONSTANT Call
VARIABLES call, permitted

Outcomes == {"ran", "refused", "answered", "gone"}

Init == call = [c \in Call |-> "unborn"] /\ permitted = {}

Raise(c) ==
  /\ call[c] = "unborn"
  /\ call' = [call EXCEPT ![c] = "waiting"]
  /\ UNCHANGED permitted

Permit(c) ==
  /\ permitted' = permitted \union {c}
  /\ UNCHANGED call

Release(c, outcome) ==
  /\ call[c] = "waiting"
  /\ outcome = "ran" => c \in permitted
  /\ call' = [call EXCEPT ![c] = outcome]
  /\ UNCHANGED permitted

(* A runtime that goes takes its waiting calls with it. *)
Abandon(calls) ==
  /\ \A c \in calls : call[c] = "waiting"
  /\ call' = [c \in Call |-> IF c \in calls THEN "gone" ELSE call[c]]
  /\ UNCHANGED permitted

Next == \/ \E c \in Call : Raise(c) \/ Permit(c)
        \/ \E c \in Call, outcome \in Outcomes : Release(c, outcome)
        \/ \E calls \in SUBSET Call : Abandon(calls)

Spec == Init /\ [][Next]_<<call, permitted>>
=============================================================================
