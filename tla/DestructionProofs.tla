------------------------- MODULE DestructionProofs -------------------------
(***************************************************************************)
(* Nothing is deleted in a session's name that nobody agreed to, for every *)
(* set of askers, records and standing decisions.  The deletions that wait *)
(* for a runtime to stop must have been agreed to as well, and agreement   *)
(* is never taken back: an answer stays and so does the row of a decision. *)
(***************************************************************************)
EXTENDS Destruction, TLAPS, WellFoundedInduction

(* The operator agreed that s may destroy r. *)
Agreed(s, r) ==
  \/ \E i \in DOMAIN approvals : Settles(i, s, r) /\ approvals[i].answer = "approve"
  \/ \E g \in Grant : grants[g] # "undeclared" /\ g.effect = "allow" /\ s \in g.askers

(* A deletion under way was agreed to, and knows its approval. *)
StoppingAgreed ==
  \A d \in stopping : /\ d.approval <= Len(approvals)
                      /\ d.by \in Asker => Agreed(d.by, d.record)

(* What is assumed of the constants, in Destruction's own words. *)
Given == HostedAreRecords /\ NotAskers /\ Grants /\ Raisable

(* So was every deletion in a session's name. *)
DeletedAgreed ==
  \A r \in Record, s \in Asker : deletedBy[r] = s => Agreed(s, r)

IndInv == TypeOK /\ StoppingAgreed /\ DeletedAgreed

-----------------------------------------------------------------------------
(* There is a latest approval wherever there is one. *)
LEMMA LatestExists ==
  ASSUME NEW n \in Nat, NEW T \in SUBSET (1..n), T # {}
  PROVE  \E i \in T : \A j \in T : j <= i
<1> DEFINE D == {k \in Nat : \E i \in T : k = n - i}
<1>1. \A i \in T : n - i \in D
  <2> TAKE i \in T
  <2>1. i \in 1..n
    OBVIOUS
  <2>2. n - i \in Nat
    BY <2>1
  <2> QED
    BY <2>2
<1>2. D # {} /\ D \subseteq Nat
  BY <1>1
<1>3. PICK k \in D : \A m \in D : ~(<<m, k>> \in OpToRel(<, Nat))
  BY <1>2, WFMin, NatLessThanWellFounded
<1>4. \A m \in D : ~(m < k)
  BY <1>3 DEF OpToRel
<1>5. PICK i \in T : k = n - i
  BY <1>3
<1>6. ASSUME NEW j \in T PROVE j <= i
  <2>1. ~(n - j < k)
    BY <1>1, <1>4
  <2>2. i \in 1..n /\ j \in 1..n
    OBVIOUS
  <2> QED
    BY <2>1, <2>2, <1>5
<1> QED
  BY <1>6

(* The lookup finds an approval of that session for that record, or none. *)
LEMMA LatestSettles ==
  ASSUME TypeOK, NEW s, NEW r, LatestFor(s, r) # 0
  PROVE  LatestFor(s, r) \in DOMAIN approvals /\ Settles(LatestFor(s, r), s, r)
<1> DEFINE its == {i \in DOMAIN approvals : Settles(i, s, r)}
<1>1. its # {} /\ LatestFor(s, r) = CHOOSE i \in its : \A j \in its : j <= i
  BY DEF LatestFor
<1>2. DOMAIN approvals = 1..Len(approvals) /\ Len(approvals) \in Nat
  BY DEF TypeOK
<1>3. \E i \in its : \A j \in its : j <= i
  BY <1>1, <1>2, LatestExists
<1>4. LatestFor(s, r) \in its
  BY <1>1, <1>3
<1> QED
  BY <1>4

(* A verdict in the session's favour rests on an approval or on a decision. *)
LEMMA VerdictAgreed ==
  ASSUME TypeOK, NEW s \in Asker, NEW r \in Record, MayDestroy(s, r)
  PROVE  Agreed(s, r)
<1>1. CASE Answered(LatestFor(s, r))
  BY <1>1, LatestSettles DEF MayDestroy, Answered, Approved, Agreed
<1>2. CASE ~Answered(LatestFor(s, r))
  BY <1>2 DEF MayDestroy, Granted, Agreed
<1> QED
  BY <1>1, <1>2

(* Approvals grow, their answers stay, and what was decided stays in its row. *)
Remembers ==
  /\ Len(approvals') >= Len(approvals)
  /\ \A i \in DOMAIN approvals :
       /\ i \in DOMAIN approvals'
       /\ approvals'[i].by = approvals[i].by /\ approvals'[i].record = approvals[i].record
       /\ approvals[i].answer = "none" \/ approvals'[i].answer = approvals[i].answer
  /\ \A g \in Grant : grants[g] # "undeclared" => grants'[g] # "undeclared"

(* What was agreed to stays agreed to. *)
LEMMA AgreedStays ==
  ASSUME Remembers, NEW s, NEW r, Agreed(s, r)
  PROVE  Agreed(s, r)'
BY DEF Remembers, Agreed, Settles

(* A fresh server has deleted nothing. *)
LEMMA InitHolds == Given /\ Init => IndInv
<1> SUFFICES ASSUME Given, Init PROVE IndInv
  OBVIOUS
<1>1. approvals = <<>> /\ Len(approvals) = 0 /\ approvals \in Seq(Approval) /\ 0 <= MaxRaised
  BY DEF Init, Given, Raisable
<1>2. live \subseteq Hosted /\ stopping = {}
  BY DEF Init
<1>3. deletedBy \in [Record -> Asker \cup {Operator, Kept}] /\ \A r \in Record : deletedBy[r] = Kept
  BY DEF Init
<1>4. grants \in [Grant -> {"undeclared", "standing", "withdrawn"}]
  BY DEF Init
<1>5. TypeOK
  BY <1>1, <1>2, <1>3, <1>4 DEF TypeOK
<1>6. StoppingAgreed
  BY <1>2 DEF StoppingAgreed
<1>7. DeletedAgreed
  BY <1>3 DEF DeletedAgreed, Given, NotAskers
<1> QED
  BY <1>5, <1>6, <1>7 DEF IndInv

(* The deletions under way stay agreed to, when none is added to them. *)
LEMMA StoppingStays ==
  ASSUME Given, TypeOK, StoppingAgreed, Remembers,
         stopping' \subseteq stopping, approvals' \in Seq(Approval)
  PROVE  StoppingAgreed'
<1>1. ASSUME NEW e \in stopping'
      PROVE  e.approval <= Len(approvals') /\ (e.by \in Asker => Agreed(e.by, e.record)')
  <2>1. e.approval <= Len(approvals) /\ (e.by \in Asker => Agreed(e.by, e.record))
    BY DEF StoppingAgreed
  <2>2. e.approval \in Nat /\ Len(approvals) \in Nat /\ Len(approvals') \in Nat
    BY DEF TypeOK, Deletion, Given, Raisable
  <2>3. e.approval <= Len(approvals')
    BY <2>1, <2>2 DEF Remembers
  <2> QED
    BY <2>1, <2>3, AgreedStays
<1> QED
  BY <1>1 DEF StoppingAgreed, Agreed

(* So do the deletions there are, when no name is put to another record. *)
LEMMA DeletedStays ==
  ASSUME DeletedAgreed, Remembers,
         \A r \in Record : deletedBy'[r] \in Asker => deletedBy'[r] = deletedBy[r]
  PROVE  DeletedAgreed'
<1>1. ASSUME NEW q \in Record, NEW s \in Asker, deletedBy'[q] = s
      PROVE  Agreed(s, q)'
  BY <1>1, AgreedStays DEF DeletedAgreed
<1> QED
  BY <1>1 DEF DeletedAgreed, Agreed

(* What a stop or a deletion in somebody's name needs: that it was agreed to. *)
LEMMA EffectAgreed ==
  ASSUME Given, IndInv, Remembers, approvals' \in Seq(Approval), Len(approvals') <= MaxRaised,
         grants' \in [Grant -> {"undeclared", "standing", "withdrawn"}],
         NEW by \in Asker \cup {Operator}, NEW r \in Record, NEW i \in 0..Len(approvals'),
         by \in Asker => Agreed(by, r)',
         Stops(by, r, i) \/ DeletesAtOnce(by, r)
  PROVE  IndInv'
<1> USE DEF IndInv
<1>1. Len(approvals) \in Nat /\ Len(approvals') \in Nat /\ MaxRaised \in Nat
  BY DEF TypeOK, Given, Raisable
<1>2. CASE Stops(by, r, i)
  <2> DEFINE d == [by |-> by, record |-> r, approval |-> i]
  <2>1. /\ stopping' = stopping \cup {d} /\ UNCHANGED deletedBy
        /\ live' = live \ {r} /\ r \in live
    BY <1>2 DEF Stops
  <2>2. d \in Deletion
    <3>1. r \in Hosted
      BY <2>1 DEF TypeOK
    <3>2. i \in 0..MaxRaised
      BY <1>1
    <3> QED
      BY <3>1, <3>2 DEF Deletion
  <2>3. TypeOK'
    BY <2>1, <2>2 DEF TypeOK
  <2>4. StoppingAgreed'
    <3>1. ASSUME NEW e \in stopping'
          PROVE  e.approval <= Len(approvals') /\ (e.by \in Asker => Agreed(e.by, e.record)')
      <4>1. CASE e \in stopping
        <5>1. e.approval <= Len(approvals) /\ (e.by \in Asker => Agreed(e.by, e.record))
          BY <4>1 DEF StoppingAgreed
        <5>2. e.approval \in Nat
          BY <4>1, <1>1 DEF TypeOK, Deletion
        <5>3. e.approval <= Len(approvals')
          BY <5>1, <5>2, <1>1 DEF Remembers
        <5> QED
          BY <5>1, <5>3, AgreedStays
      <4>2. CASE e = d
        BY <4>2
      <4> QED
        BY <4>1, <4>2, <2>1
    <3> QED
      BY <3>1 DEF StoppingAgreed, Agreed
  <2>5. DeletedAgreed'
    BY <2>1, DeletedStays
  <2> QED
    BY <2>3, <2>4, <2>5
<1>3. CASE DeletesAtOnce(by, r)
  <2>1. /\ deletedBy' = [deletedBy EXCEPT ![r] = IF @ = Kept THEN by ELSE @]
        /\ UNCHANGED <<live, stopping>>
    BY <1>3 DEF DeletesAtOnce, Deleted, TypeOK
  <2>2. deletedBy' \in [Record -> Asker \cup {Operator, Kept}]
    BY <2>1 DEF TypeOK
  <2>3. TypeOK'
    BY <2>1, <2>2 DEF TypeOK
  <2>4. StoppingAgreed'
    BY <2>1, StoppingStays
  <2>5. DeletedAgreed'
    <3>1. ASSUME NEW q \in Record, NEW s \in Asker, deletedBy'[q] = s
          PROVE  Agreed(s, q)'
      <4>1. CASE deletedBy[q] = s
        BY <4>1, AgreedStays DEF DeletedAgreed
      <4>2. CASE deletedBy[q] # s
        <5>1. q = r /\ s = by
          BY <4>2, <3>1, <2>1 DEF TypeOK
        <5> QED
          BY <5>1
      <4> QED
        BY <4>1, <4>2
    <3> QED
      BY <3>1 DEF DeletedAgreed, Agreed
  <2> QED
    BY <2>3, <2>4, <2>5
<1> QED
  BY <1>2, <1>3

(* An action that deletes nothing and starts to delete nothing, and forgets nothing. *)
LEMMA OthersKeep ==
  ASSUME Given, IndInv, Remembers, TypeOK', stopping' \subseteq stopping,
         \A r \in Record : deletedBy'[r] \in Asker => deletedBy'[r] = deletedBy[r]
  PROVE  IndInv'
<1>1. approvals' \in Seq(Approval)
  BY DEF TypeOK
<1>2. StoppingAgreed'
  BY <1>1, StoppingStays DEF IndInv
<1>3. DeletedAgreed'
  BY DeletedStays DEF IndInv
<1> QED
  BY <1>2, <1>3 DEF IndInv

(* An approval keeps its type when it is answered, and when its effect fails. *)
LEMMA StaysApproval ==
  ASSUME NEW a \in Approval, NEW v \in {"approve", "deny"}
  PROVE  /\ [a EXCEPT !.answer = v] \in Approval
         /\ [a EXCEPT !.failed = TRUE] \in Approval
<1>1. [a EXCEPT !.answer = v] = [by |-> a.by, record |-> a.record, answer |-> v, failed |-> a.failed]
  BY DEF Approval
<1>2. ASSUME NEW t \in BOOLEAN
      PROVE  [a EXCEPT !.failed = t] \in Approval
  BY DEF Approval
<1> QED
  BY <1>1, <1>2 DEF Approval

(* An answer, or its failure, written on an approval nobody answered. *)
LEMMA Rewritten ==
  ASSUME TypeOK, NEW i \in DOMAIN approvals, NEW a \in Approval,
         a.by = approvals[i].by, a.record = approvals[i].record,
         approvals[i].answer = "none" \/ a.answer = approvals[i].answer,
         approvals' = [approvals EXCEPT ![i] = a], UNCHANGED grants
  PROVE  /\ Remembers
         /\ approvals' \in Seq(Approval) /\ Len(approvals') = Len(approvals)
<1>1. /\ approvals \in Seq(Approval) /\ DOMAIN approvals = 1..Len(approvals)
      /\ Len(approvals) \in Nat
  BY DEF TypeOK
<1>2. approvals' \in Seq(Approval) /\ Len(approvals') = Len(approvals)
  BY <1>1
<1>3. ASSUME NEW j \in DOMAIN approvals
      PROVE  approvals'[j] = IF j = i THEN a ELSE approvals[j]
  BY <1>1
<1>4. DOMAIN approvals' = DOMAIN approvals
  BY <1>1
<1> QED
  BY <1>1, <1>2, <1>3, <1>4 DEF Remembers

(* No step forgets, and none deletes what was not agreed to. *)
LEMMA NextKeeps ==
  ASSUME Given, IndInv, [Next]_vars
  PROVE  IndInv'
<1> USE DEF IndInv
<1>0. /\ approvals \in Seq(Approval) /\ DOMAIN approvals = 1..Len(approvals)
      /\ Len(approvals) \in Nat /\ Len(approvals) <= MaxRaised /\ MaxRaised \in Nat
      /\ grants \in [Grant -> {"undeclared", "standing", "withdrawn"}]
  BY DEF TypeOK, Given, Raisable
<1>q. ASSUME UNCHANGED <<approvals, grants>> PROVE Remembers
  BY <1>0, <1>q DEF Remembers
<1>1. ASSUME NEW s \in Asker, NEW r \in Record, Asks(s, r) PROVE IndInv'
  <2> DEFINE a == [by |-> s, record |-> r, answer |-> "none", failed |-> FALSE]
  <2>1. a \in Approval
    BY DEF Approval
  <2>2. /\ approvals' = Append(approvals, a) /\ Len(approvals) < MaxRaised
        /\ UNCHANGED <<deletedBy, live, grants, stopping>>
    BY <1>1 DEF Asks
  <2>3. /\ approvals' \in Seq(Approval) /\ Len(approvals') = Len(approvals) + 1
        /\ DOMAIN approvals' = 1..Len(approvals')
        /\ \A i \in DOMAIN approvals : approvals'[i] = approvals[i]
    BY <1>0, <2>1, <2>2
  <2>4. Remembers
    BY <1>0, <2>2, <2>3 DEF Remembers
  <2>5. Len(approvals') <= MaxRaised
    BY <1>0, <2>2, <2>3
  <2>6. TypeOK'
    BY <2>2, <2>3, <2>5 DEF TypeOK
  <2> QED
    BY <2>2, <2>4, <2>6, OthersKeep
<1>2. ASSUME NEW s \in Asker, NEW r \in Record, Destroys(s, r) PROVE IndInv'
  <2>1. MayDestroy(s, r) /\ UNCHANGED <<approvals, grants>>
    BY <1>2 DEF Destroys
  <2>2. Remembers /\ Agreed(s, r)'
    BY <2>1, <1>q, VerdictAgreed, AgreedStays
  <2>3. Stops(s, r, 0) \/ DeletesAtOnce(s, r)
    BY <1>2 DEF Destroys
  <2>4. 0 \in 0..Len(approvals') /\ s \in Asker \cup {Operator}
    BY <1>0, <2>1
  <2> QED
    BY <1>0, <2>1, <2>2, <2>3, <2>4, EffectAgreed
<1>3. ASSUME NEW r \in Record, OperatorDestroys(r) PROVE IndInv'
  <2>1. UNCHANGED <<approvals, grants>> /\ Operator \notin Asker
    BY <1>3 DEF OperatorDestroys, Given, NotAskers
  <2>3. Stops(Operator, r, 0) \/ DeletesAtOnce(Operator, r)
    BY <1>3 DEF OperatorDestroys
  <2>4. 0 \in 0..Len(approvals') /\ Operator \in Asker \cup {Operator}
    BY <1>0, <2>1
  <2> QED
    BY <1>0, <1>q, <2>1, <2>3, <2>4, EffectAgreed
<1>4. ASSUME NEW i \in DOMAIN approvals, Approve(i) PROVE IndInv'
  <2> DEFINE a == [approvals[i] EXCEPT !.answer = "approve"]
             f == [a EXCEPT !.failed = TRUE]
             by == approvals[i].by
             r == approvals[i].record
  <2>0. approvals[i] \in Approval
    BY <1>0
  <2>1. approvals[i] \in Approval /\ a \in Approval /\ f \in Approval
    BY <2>0, StaysApproval
  <2>2. /\ a.by = approvals[i].by /\ a.record = approvals[i].record
        /\ f.by = approvals[i].by /\ f.record = approvals[i].record
        /\ a.answer = "approve"
    BY <2>1 DEF Approval
  <2>3. approvals[i].answer = "none" /\ UNCHANGED grants
    BY <1>4 DEF Approve
  <2>4. CASE /\ Stops(by, r, i) \/ DeletesAtOnce(by, r)
             /\ approvals' = [approvals EXCEPT ![i].answer = "approve"]
    <3>1. approvals' = [approvals EXCEPT ![i] = a]
      BY <2>4
    <3>2. Remembers /\ approvals' \in Seq(Approval) /\ Len(approvals') = Len(approvals)
      BY <3>1, <2>1, <2>2, <2>3, Rewritten
    <3>3. i \in DOMAIN approvals' /\ approvals'[i] = a
      BY <1>0, <3>1
    <3>4. PICK b \in Asker, q \in Record : b = by /\ q = r
      BY <2>1 DEF Approval
    <3>5. Agreed(b, q)'
      BY <3>3, <3>4, <2>2 DEF Agreed, Settles
    <3>6. Stops(b, q, i) \/ DeletesAtOnce(b, q)
      BY <2>4, <3>4
    <3>7. i \in 0..Len(approvals') /\ b \in Asker \cup {Operator} /\ Len(approvals') <= MaxRaised
      BY <1>0, <3>2
    <3>8. grants' \in [Grant -> {"undeclared", "standing", "withdrawn"}]
      BY <1>0, <2>3
    <3> QED
      BY <3>2, <3>5, <3>6, <3>7, <3>8, EffectAgreed
  <2>5. CASE /\ approvals' = [[approvals EXCEPT ![i].answer = "approve"] EXCEPT ![i].failed = TRUE]
             /\ UNCHANGED <<deletedBy, live, stopping>>
    <3>1. approvals' = [approvals EXCEPT ![i] = f]
      BY <2>5, <1>0
    <3>2. Remembers /\ approvals' \in Seq(Approval) /\ Len(approvals') = Len(approvals)
      BY <3>1, <2>1, <2>2, <2>3, Rewritten
    <3>3. TypeOK'
      BY <2>3, <2>5, <3>2 DEF TypeOK
    <3> QED
      BY <2>5, <3>2, <3>3, OthersKeep
  <2> QED
    BY <1>4, <2>4, <2>5 DEF Approve
<1>5. ASSUME NEW i \in DOMAIN approvals, Deny(i) PROVE IndInv'
  <2> DEFINE a == [approvals[i] EXCEPT !.answer = "deny"]
  <2>0. approvals[i] \in Approval
    BY <1>0
  <2>1. approvals[i] \in Approval /\ a \in Approval
    BY <2>0, StaysApproval
  <2>2. /\ approvals' = [approvals EXCEPT ![i] = a] /\ approvals[i].answer = "none"
        /\ UNCHANGED <<deletedBy, live, grants, stopping>>
    BY <1>5 DEF Deny
  <2>3. a.by = approvals[i].by /\ a.record = approvals[i].record
    BY <2>1 DEF Approval
  <2>4. Remembers /\ approvals' \in Seq(Approval) /\ Len(approvals') = Len(approvals)
    BY <2>1, <2>2, <2>3, Rewritten
  <2>5. TypeOK'
    BY <2>2, <2>4 DEF TypeOK
  <2> QED
    BY <2>2, <2>4, <2>5, OthersKeep
<1>6. ASSUME NEW d \in stopping, StopEnds(d) PROVE IndInv'
  <2>1. /\ stopping' = stopping \ {d} /\ Deleted(d.by, d.record)
        /\ UNCHANGED <<live, approvals, grants>>
    BY <1>6 DEF StopEnds
  <2>2. d \in Deletion
    BY DEF TypeOK
  <2>3. d.by \in Asker \cup {Operator} /\ d.record \in Record
    BY <2>2 DEF Deletion, Given, HostedAreRecords
  <2>4. deletedBy' = [deletedBy EXCEPT ![d.record] = IF @ = Kept THEN d.by ELSE @]
    BY <2>1, <2>3 DEF Deleted, TypeOK
  <2>5. TypeOK'
    BY <2>1, <2>3, <2>4 DEF TypeOK
  <2>6. Remembers
    BY <2>1, <1>q
  <2>7. ASSUME NEW q \in Record, NEW s \in Asker, deletedBy'[q] = s
        PROVE  Agreed(s, q)'
    <3>1. CASE deletedBy[q] = s
      BY <3>1, <2>6, AgreedStays DEF DeletedAgreed
    <3>2. CASE deletedBy[q] # s
      <4>1. q = d.record /\ s = d.by
        BY <3>2, <2>3, <2>4, <2>7 DEF TypeOK
      <4>2. Agreed(s, q)
        BY <4>1 DEF StoppingAgreed
      <4> QED
        BY <4>2, <2>6, AgreedStays
    <3> QED
      BY <3>1, <3>2
  <2>8. DeletedAgreed'
    BY <2>7 DEF DeletedAgreed, Agreed
  <2>9. StoppingAgreed'
    BY <1>0, <2>1, <2>6, StoppingStays
  <2> QED
    BY <2>5, <2>8, <2>9
<1>7. ASSUME NEW d \in stopping, StopFails(d) PROVE IndInv'
  <2>1. /\ stopping' = stopping \ {d} /\ UNCHANGED <<deletedBy, live, grants>>
        /\ approvals' = IF d.approval = 0 THEN approvals ELSE FailedEffect(d.approval)
    BY <1>7 DEF StopFails
  <2>2. d.approval \in 0..MaxRaised /\ d.approval <= Len(approvals)
    BY DEF TypeOK, Deletion, StoppingAgreed
  <2>3. Remembers /\ approvals' \in Seq(Approval) /\ Len(approvals') = Len(approvals)
    <3>1. CASE d.approval = 0
      BY <3>1, <2>1, <1>0, <1>q
    <3>2. CASE d.approval # 0
      <4>1. PICK i \in DOMAIN approvals : i = d.approval
        BY <3>2, <2>2, <1>0
      <4> DEFINE f == [approvals[i] EXCEPT !.failed = TRUE]
      <4>0. approvals[i] \in Approval
        BY <1>0
      <4>2. approvals[i] \in Approval /\ f \in Approval
        BY <4>0, StaysApproval
      <4>3. /\ f.by = approvals[i].by /\ f.record = approvals[i].record
            /\ f.answer = approvals[i].answer
        BY <4>2 DEF Approval
      <4>4. approvals' = [approvals EXCEPT ![i] = f]
        BY <2>1, <3>2, <4>1 DEF FailedEffect
      <4> QED
        BY <2>1, <4>2, <4>3, <4>4, Rewritten
    <3> QED
      BY <3>1, <3>2
  <2>4. TypeOK'
    BY <2>1, <2>3 DEF TypeOK
  <2> QED
    BY <2>1, <2>3, <2>4, OthersKeep
<1>8. ASSUME NEW r \in Record, Restore(r) PROVE IndInv'
  <2>1. /\ deletedBy' = [deletedBy EXCEPT ![r] = Kept]
        /\ UNCHANGED <<live, approvals, grants, stopping>>
    BY <1>8 DEF Restore
  <2>2. \A q \in Record : deletedBy'[q] \in Asker => deletedBy'[q] = deletedBy[q]
    BY <2>1 DEF TypeOK, Given, NotAskers
  <2>3. TypeOK'
    BY <2>1 DEF TypeOK
  <2> QED
    BY <2>1, <2>2, <2>3, <1>q, OthersKeep
<1>9. ASSUME NEW r \in Hosted, Resume(r) PROVE IndInv'
  <2>1. /\ live' = live \cup {r}
        /\ UNCHANGED <<deletedBy, approvals, grants, stopping>>
    BY <1>9 DEF Resume
  <2>2. TypeOK'
    BY <2>1 DEF TypeOK
  <2> QED
    BY <2>1, <2>2, <1>q, OthersKeep
<1>10. ASSUME NEW g \in Grant, Declare(g) \/ Withdraw(g) PROVE IndInv'
  <2>1. PICK v \in {"standing", "withdrawn"} : grants' = [grants EXCEPT ![g] = v]
    BY <1>10 DEF Declare, Withdraw
  <2>2. UNCHANGED <<deletedBy, live, approvals, stopping>>
    BY <1>10 DEF Declare, Withdraw
  <2>3. Remembers
    BY <1>0, <2>1, <2>2 DEF Remembers
  <2>4. TypeOK'
    BY <2>1, <2>2 DEF TypeOK
  <2> QED
    BY <2>2, <2>3, <2>4, OthersKeep
<1>11. CASE Restart
  <2>1. stopping' = {} /\ live' = {} /\ UNCHANGED <<deletedBy, approvals, grants>>
    BY <1>11 DEF Restart
  <2>2. TypeOK'
    BY <2>1 DEF TypeOK
  <2> QED
    BY <2>1, <2>2, <1>q, OthersKeep
<1>12. CASE UNCHANGED vars
  <2>1. UNCHANGED <<deletedBy, live, approvals, grants, stopping>>
    BY <1>12 DEF vars
  <2>2. TypeOK'
    BY <2>1 DEF TypeOK
  <2> QED
    BY <2>1, <2>2, <1>q, OthersKeep
<1> QED
  BY <1>1, <1>2, <1>3, <1>4, <1>5, <1>6, <1>7, <1>8, <1>9, <1>10, <1>11, <1>12 DEF Next

(* What is deleted in a session's name is what NothingDestroyedUnasked says. *)
LEMMA AgreedIsAsked == DeletedAgreed => NothingDestroyedUnasked
BY DEF DeletedAgreed, NothingDestroyedUnasked, Agreed

(* Records, approvals, grants and deletions are typed in every reachable state. *)
THEOREM GesturesAreTyped == Given => (Spec => []TypeOK)
<1> SUFFICES ASSUME Given PROVE Spec => []TypeOK
  OBVIOUS
<1>1. Init => IndInv
  BY InitHolds
<1>2. IndInv /\ [Next]_vars => IndInv'
  BY NextKeeps
<1>3. IndInv => TypeOK
  BY DEF IndInv
<1> QED
  BY <1>1, <1>2, <1>3, PTL DEF Spec

(* What is deleted in a session's name, the operator agreed to. *)
THEOREM NobodyDestroysUnasked == Given => (Spec => []NothingDestroyedUnasked)
<1> SUFFICES ASSUME Given PROVE Spec => []NothingDestroyedUnasked
  OBVIOUS
<1>1. Init => IndInv
  BY InitHolds
<1>2. IndInv /\ [Next]_vars => IndInv'
  BY NextKeeps
<1>3. IndInv => NothingDestroyedUnasked
  BY AgreedIsAsked DEF IndInv
<1> QED
  BY <1>1, <1>2, <1>3, PTL DEF Spec
=============================================================================
