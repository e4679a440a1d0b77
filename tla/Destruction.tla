---------------------------- MODULE Destruction ----------------------------
(***************************************************************************)
(* A session's destructive gestures: apps/server/src/approvals (guard.ts,  *)
(* destruction.ts, service.ts) and packages/core/src/sessions/approvals.   *)
(*                                                                         *)
(* A session's DELETE is answered by its last approval for that record, or *)
(* by a standing decision, or else it raises an approval; approving one    *)
(* performs the deletion, in the session's name.  Deleting the record of a *)
(* running session stops it first, and waits for that.                     *)
(*                                                                         *)
(* The records are outside the askers' own chains, which another guard     *)
(* refuses before this one.  Approvals are kept in the order they were     *)
(* raised in.  A resumption is one step here: RunLifecycle has its stages. *)
(***************************************************************************)
EXTENDS Naturals, Sequences

CONSTANTS
  Asker,       \* the sessions that ask to destroy
  Record,      \* the records they may name
  Hosted,      \* those that are sessions with a runtime of their own
  Grant,       \* standing decisions: [effect, askers]
  Operator,
  Kept,        \* not deleted by anybody
  MaxRaised    \* bound on approvals

HostedAreRecords == Hosted \subseteq Record
NotAskers == Operator \notin Asker /\ Kept \notin Asker \cup {Operator}
Grants == Grant \subseteq [effect : {"allow", "deny"}, askers : SUBSET Asker]
Raisable == MaxRaised \in Nat

VARIABLES
  deletedBy,   \* of each record: Kept, or in whose name it is deleted
  live,        \* the hosted records that have not ended
  approvals,   \* destruction approvals, oldest first
  grants,      \* what became of each standing decision
  stopping     \* deletions suspended while a runtime stops

vars == <<deletedBy, live, approvals, grants, stopping>>

Approval == [by : Asker, record : Record,
             answer : {"none", "approve", "deny"}, failed : BOOLEAN]
Deletion == [by : Asker \cup {Operator}, record : Hosted, approval : 0..MaxRaised]

TypeOK ==
  /\ deletedBy \in [Record -> Asker \cup {Operator, Kept}]
  /\ live \subseteq Hosted
  /\ approvals \in Seq(Approval) /\ Len(approvals) <= MaxRaised
  /\ grants \in [Grant -> {"undeclared", "standing", "withdrawn"}]
  /\ stopping \subseteq Deletion

Init ==
  /\ deletedBy = [r \in Record |-> Kept]
  /\ live \in SUBSET Hosted
  /\ approvals = <<>>
  /\ grants = [g \in Grant |-> "undeclared"]
  /\ stopping = {}

-----------------------------------------------------------------------------
(* The verdict on a session's gesture. *)

Settles(i, s, r) == approvals[i].by = s /\ approvals[i].record = r

(* Mutant: the lookup compares the asker alone. *)
LatestOfAsker(s, r) ==
  LET its == {i \in DOMAIN approvals : approvals[i].by = s}
  IN IF its = {} THEN 0 ELSE CHOOSE i \in its : \A j \in its : j <= i

LatestFor(s, r) ==
  LET its == {i \in DOMAIN approvals : Settles(i, s, r)}
  IN IF its = {} THEN 0 ELSE CHOOSE i \in its : \A j \in its : j <= i

Answered(i) == i # 0 /\ approvals[i].answer # "none"
Approved(a) == a.answer = "approve" /\ ~a.failed

Granted(s, effect) ==
  \E g \in Grant : grants[g] = "standing" /\ g.effect = effect /\ s \in g.askers

MayDestroy(s, r) ==
  LET i == LatestFor(s, r)
  IN IF Answered(i) THEN Approved(approvals[i])
     ELSE Granted(s, "allow") /\ ~Granted(s, "deny")

MustAsk(s, r) ==
  ~Answered(LatestFor(s, r)) /\ ~Granted(s, "allow") /\ ~Granted(s, "deny")

-----------------------------------------------------------------------------
(* The effect. *)

Deleted(by, r) ==
  deletedBy' = IF deletedBy[r] = Kept THEN [deletedBy EXCEPT ![r] = by] ELSE deletedBy

(* A running session's end is recorded before its runtime is stopped, so only one *)
(* of the deletions that follow it waits.                                          *)
Stops(by, r, i) ==
  /\ r \in live /\ deletedBy[r] = Kept
  /\ live' = live \ {r}
  /\ stopping' = stopping \cup {[by |-> by, record |-> r, approval |-> i]}
  /\ UNCHANGED deletedBy

DeletesAtOnce(by, r) ==
  /\ ~(r \in live /\ deletedBy[r] = Kept)
  /\ Deleted(by, r)
  /\ UNCHANGED <<live, stopping>>

FailedEffect(i) == [approvals EXCEPT ![i].failed = TRUE]

-----------------------------------------------------------------------------
(* The gestures. *)

(* DELETE by a session nobody agreed with yet: it is told to wait. *)
Asks(s, r) ==
  /\ MustAsk(s, r)
  /\ Len(approvals) < MaxRaised
  /\ approvals' = Append(approvals,
       [by |-> s, record |-> r, answer |-> "none", failed |-> FALSE])
  /\ UNCHANGED <<deletedBy, live, grants, stopping>>

(* DELETE by a session whose gesture is already agreed to. *)
Destroys(s, r) ==
  /\ MayDestroy(s, r)
  /\ Stops(s, r, 0) \/ DeletesAtOnce(s, r)
  /\ UNCHANGED <<approvals, grants>>

(* DELETE by the operator, who is never gated. *)
OperatorDestroys(r) ==
  /\ Stops(Operator, r, 0) \/ DeletesAtOnce(Operator, r)
  /\ UNCHANGED <<approvals, grants>>

(* The answer is saved, then acted on; a listener or a write that throws is *)
(* recorded on the approval, and nothing is deleted.                        *)
Approve(i) ==
  /\ approvals[i].answer = "none"
  /\ LET answered == [approvals EXCEPT ![i].answer = "approve"] IN
     \/ /\ Stops(approvals[i].by, approvals[i].record, i)
           \/ DeletesAtOnce(approvals[i].by, approvals[i].record)
        /\ approvals' = answered
     \/ /\ approvals' = [answered EXCEPT ![i].failed = TRUE]
        /\ UNCHANGED <<deletedBy, live, stopping>>
  /\ UNCHANGED grants

Deny(i) ==
  /\ approvals[i].answer = "none"
  /\ approvals' = [approvals EXCEPT ![i].answer = "deny"]
  /\ UNCHANGED <<deletedBy, live, grants, stopping>>

(* The runtime stopped: the record goes, unless another deletion took it. *)
StopEnds(d) ==
  /\ stopping' = stopping \ {d}
  /\ Deleted(d.by, d.record)
  /\ UNCHANGED <<live, approvals, grants>>

StopFails(d) ==
  /\ stopping' = stopping \ {d}
  /\ approvals' = IF d.approval = 0 THEN approvals ELSE FailedEffect(d.approval)
  /\ UNCHANGED <<deletedBy, live, grants>>

Restore(r) ==
  /\ deletedBy[r] # Kept
  /\ deletedBy' = [deletedBy EXCEPT ![r] = Kept]
  /\ UNCHANGED <<live, approvals, grants, stopping>>

(* Nothing here refuses to resume a deleted session. *)
Resume(r) ==
  /\ live' = live \cup {r}
  /\ live' # live
  /\ UNCHANGED <<deletedBy, approvals, grants, stopping>>

Declare(g) ==
  /\ grants[g] # "standing"
  /\ grants' = [grants EXCEPT ![g] = "standing"]
  /\ UNCHANGED <<deletedBy, live, approvals, stopping>>

Withdraw(g) ==
  /\ grants[g] = "standing"
  /\ grants' = [grants EXCEPT ![g] = "withdrawn"]
  /\ UNCHANGED <<deletedBy, live, approvals, stopping>>

(* The server dies and starts again: an answer that was saved is never acted on. *)
Restart ==
  /\ stopping' = {}
  /\ live' = {}
  /\ UNCHANGED <<deletedBy, approvals, grants>>

Next ==
  \/ \E s \in Asker, r \in Record : Asks(s, r) \/ Destroys(s, r)
  \/ \E r \in Record : OperatorDestroys(r) \/ Restore(r)
  \/ \E r \in Hosted : Resume(r)
  \/ \E i \in DOMAIN approvals : Approve(i) \/ Deny(i)
  \/ \E d \in stopping : StopEnds(d) \/ StopFails(d)
  \/ \E g \in Grant : Declare(g) \/ Withdraw(g)
  \/ Restart

Spec == Init /\ [][Next]_vars

-----------------------------------------------------------------------------
(* What is deleted in a session's name, at once or after a stop, the       *)
(* operator agreed to: an approval that session raised for that record was *)
(* approved, or a standing decision has allowed the session.               *)
NothingDestroyedUnasked ==
  \A r \in Record : deletedBy[r] \in Asker =>
    \/ \E i \in DOMAIN approvals :
         Settles(i, deletedBy[r], r) /\ approvals[i].answer = "approve"
    \/ \E g \in Grant : /\ grants[g] # "undeclared"
                        /\ g.effect = "allow" /\ deletedBy[r] \in g.askers
=============================================================================
