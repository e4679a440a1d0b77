--------------------------- MODULE RunQueueProofs ---------------------------
(***************************************************************************)
(* Theorems about RunQueue for every set of gestures, entries, commands    *)
(* and limits.  IndInv is TypeOK with what the code relies on without      *)
(* stating it:                                                             *)
(*   - what a batch's state says of its entries (RowsAgree);               *)
(*   - what an attempt in progress says of its key and its entry           *)
(*     (AttemptsAgree), and that none survives the process;                *)
(*   - ChainOrder and NoStrandedEntry themselves.                          *)
(* On top of it: WakeInv is what the drain loop knows of the entries it    *)
(* has passed over, NeverRan that a start takes the entry before the key,  *)
(* AgreedAsPreviewed that what was agreed was once the contract.           *)
(***************************************************************************)
EXTENDS RunQueue, FiniteSetTheorems, TLAPS

(* The batch's row and its entries' rows agree: a gesture enqueues all of its  *)
(* entries or none, a running batch has no parked entry, and a completed one   *)
(* has only settled ones.                                                      *)
RowsAgree ==
  \A e \in Entry :
    /\ batch[BatchOf[e]] = "none" <=> entry[e] = "none"
    /\ batch[BatchOf[e]] = "running" => entry[e] # "paused"
    /\ batch[BatchOf[e]] = "completed" => entry[e] \in Settled

(* An attempt holds its key until it has a session, a session spends its key,  *)
(* only a starting entry waits to be bound, and a key's session is its only    *)
(* one as long as no start is refused after recording it.                      *)
AttemptsAgree ==
  \A e \in Entry :
    /\ attempt[e] = "started" => entry[e] = "starting"
    /\ attempt[e] \in {"workspace", "runtime"} => init[e] = "claimed"
    /\ sess[e] # "none" => init[e] = "settled"
    /\ LateRefusals \/ made[e] = IF sess[e] = "none" THEN 0 ELSE 1
    /\ server \in {"down", "recovering"} => attempt[e] = "none"

IndInv == TypeOK /\ RowsAgree /\ AttemptsAgree /\ ChainOrder /\ NoStrandedEntry

-----------------------------------------------------------------------------
USE EntriesWellFormed, BoundsAreNaturals

(* Settling an entry writes legal states to the batch's rows (settleEntryFor). *)
LEMMA SettleEntryForTyped ==
  ASSUME TypeOK, NEW e \in Entry, NEW end, SettleEntryFor(e, end)
  PROVE  /\ batch' \in [Batch -> BatchState]
         /\ entry' \in [Entry -> EntryState]
BY DEF TypeOK, SettleEntryFor, PauseBatch, PauseRemainder, AbortBatch, AbortRemainder,
       SettleBatch, SettleBatchIfFinished, BatchState, EntryState, Settled, Cancellable

(* A call of drain() leaves the loop's bookkeeping well formed. *)
LEMMA RequestDrainTyped ==
  ASSUME TypeOK, RequestDrain
  PROVE  drain' \in [on : BOOLEAN, again : BOOLEAN, seen : SUBSET Entry,
                     cur : Entry \cup {Nobody}]
BY DEF TypeOK, RequestDrain, NewPass

(* A fresh install is well typed. *)
LEMMA InitTyped == Init => TypeOK
BY DEF Init, TypeOK, BatchState, EntryState, Settled, Cancellable, Idle

(* Every operation, step and restart keeps the types. *)
LEMMA NextTyped == TypeOK /\ [Next]_vars => TypeOK'
<1> SUFFICES ASSUME TypeOK, [Next]_vars PROVE TypeOK'
  OBVIOUS
<1> USE DEF TypeOK
<1>1. ASSUME NEW b \in Batch, Initiate(b) PROVE TypeOK'
  BY <1>1, RequestDrainTyped DEF Initiate, Enqueue, BatchState, EntryState, Cancellable
<1>2. ASSUME NEW b \in Batch, RunOneNow(b) PROVE TypeOK'
  BY <1>2 DEF RunOneNow, ClaimInitiation, EntriesOf
<1>3. ASSUME NEW b \in Batch, RunOneQueued(b) PROVE TypeOK'
  BY <1>3 DEF RunOneQueued, Enqueue, BatchState, EntryState, Cancellable, volatile
<1>4. ASSUME NEW b \in Batch, ResumeBatch(b) PROVE TypeOK'
  BY <1>4, RequestDrainTyped DEF ResumeBatch, BatchState, EntryState, Cancellable
<1>5. ASSUME NEW b \in Batch, ResumeSettles(b) PROVE TypeOK'
  BY <1>5 DEF ResumeSettles, SettleBatch, SettleBatchIfFinished, BatchState
<1>6. ASSUME NEW e \in Entry, Cancel(e) PROVE TypeOK'
  BY <1>6, RequestDrainTyped DEF Cancel, SettleBatch, SettleBatchIfFinished, BatchState, EntryState, Settled
<1>7. ASSUME NEW e \in Entry, Confirm(e) PROVE TypeOK'
  BY <1>7, RequestDrainTyped DEF Confirm, EntryState, Cancellable
<1>8. ASSUME NEW n \in Limits, SetConcurrencyLimit(n) PROVE TypeOK'
  BY <1>8, RequestDrainTyped DEF SetConcurrencyLimit, rows
<1>9. ASSUME NEW s \in Editable, Edit(s) PROVE TypeOK'
  BY <1>9 DEF Edit, rows, volatile
<1>10. CASE DrainPassEnds
  <2>1. drain' \in {NewPass, Idle} /\ resuming' \in [Batch -> {"no", "draining", "settling"}]
    BY <1>10 DEF DrainPassEnds
  <2>2. drain' \in [on : BOOLEAN, again : BOOLEAN, seen : SUBSET Entry, cur : Entry \cup {Nobody}]
    <3>1. CASE drain' = NewPass
      BY <3>1 DEF NewPass
    <3>2. CASE drain' = Idle
      BY <3>2 DEF Idle
    <3> QED
      BY <2>1, <3>1, <3>2
  <2> QED
    BY <1>10, <2>1, <2>2 DEF DrainPassEnds, rows
<1>11. ASSUME NEW e \in Entry, AdmitDeclines(e) PROVE TypeOK'
  BY <1>11 DEF AdmitDeclines, Declined, Seen, EntryState, Settled, Cancellable
<1>12. ASSUME NEW e \in Entry, AdmitWaits(e) PROVE TypeOK'
  BY <1>12 DEF AdmitWaits, Declined, Seen
<1>13. ASSUME NEW e \in Entry, AdmitAbandons(e) PROVE TypeOK'
  BY <1>13 DEF AdmitAbandons, Declined, Seen, SettleBatch, SettleBatchIfFinished, BatchState, EntryState, Settled
<1>14. ASSUME NEW e \in Entry, AdmitReasks(e) PROVE TypeOK'
  BY <1>14 DEF AdmitReasks, Declined, Seen, EntryState, Cancellable
<1>15. ASSUME NEW e \in Entry, AdmitStarts(e) PROVE TypeOK'
  BY <1>15 DEF AdmitStarts, ClaimInitiation, EntryState
<1>16. ASSUME NEW e \in Entry, AssembleRun(e) PROVE TypeOK'
  BY <1>16 DEF AssembleRun, rows
<1>17. ASSUME NEW e \in Entry, StartSession(e) PROVE TypeOK'
  BY <1>17 DEF StartSession
<1>18. ASSUME NEW e \in Entry, AttemptFails(e) PROVE TypeOK'
  <2>1. /\ batch' \in [Batch -> BatchState]
        /\ entry' \in [Entry -> EntryState]
    <3>1. CASE Drained(e)
      BY <1>18, <3>1 DEF AttemptFails, EntryRefused, PauseBatch, PauseRemainder, BatchState, EntryState, Settled, Cancellable
    <3>2. CASE ~Drained(e)
      BY <1>18, <3>2 DEF AttemptFails, EntryRefused
    <3> QED
      BY <3>1, <3>2
  <2>2. drain' \in [on : BOOLEAN, again : BOOLEAN, seen : SUBSET Entry, cur : Entry \cup {Nobody}]
    BY <1>18 DEF AttemptFails, EntryRefused
  <2>3. /\ attempt' \in [Entry -> {"none", "workspace", "runtime", "started", "refused"}]
        /\ init' \in [Entry -> {"free", "claimed", "settled"}]
    BY <1>18 DEF AttemptFails
  <2> QED
    BY <1>18, <2>1, <2>2, <2>3 DEF AttemptFails
<1>19. ASSUME NEW e \in Entry, BindEntry(e) PROVE TypeOK'
  BY <1>19, SettleEntryForTyped DEF BindEntry, EntryState
<1>20. ASSUME NEW e \in Entry, NEW end \in ObservedEnds, SessionEnds(e, end) PROVE TypeOK'
  BY <1>20, SettleEntryForTyped, RequestDrainTyped DEF SessionEnds, OnEvent, ObservedEnds
<1>21. ASSUME NEW e \in Entry, NEW end \in StopEnds, StopSession(e, end) PROVE TypeOK'
  BY <1>21 DEF StopSession, StopEnds, EndKind
<1>22. ASSUME NEW e \in Entry, PublishEnd(e) PROVE TypeOK'
  BY <1>22, SettleEntryForTyped, RequestDrainTyped DEF PublishEnd, OnEvent
<1>23. ASSUME NEW e \in Entry, DriverPublishesEnd(e) PROVE TypeOK'
  BY <1>23, SettleEntryForTyped, RequestDrainTyped DEF DriverPublishesEnd, OnEvent
<1>24. CASE OutsideStarts
  BY <1>24 DEF OutsideStarts, rows, volatile
<1>25. CASE OutsideEnds
  BY <1>25, RequestDrainTyped DEF OutsideEnds, rows
<1>26. CASE StopQueue
  BY <1>26 DEF StopQueue, rows, volatile
<1>27. ASSUME NEW e \in Entry, ShutdownInterrupts(e) PROVE TypeOK'
  BY <1>27 DEF ShutdownInterrupts, volatile, EndKind
<1>28. CASE ShutdownEnds
  BY <1>28 DEF ShutdownEnds, NothingVolatile, Idle, rows
<1>29. CASE Crash
  BY <1>29 DEF Crash, NothingVolatile, Idle, rows
<1>30. CASE RecoverFromRestart
  BY <1>30 DEF RecoverFromRestart, EntryState, Cancellable, EndKind, volatile
<1>31. ASSUME NEW e \in Entry, Reconcile(e) PROVE TypeOK'
  BY <1>31, SettleEntryForTyped DEF Reconcile, volatile
<1>32. CASE Reconciled
  BY <1>32 DEF Reconciled, NewPass, rows
<1>33. CASE UNCHANGED vars
  BY <1>33 DEF vars, rows, volatile
<1>34. ASSUME NEW e \in Entry, StartRefusedLate(e) PROVE TypeOK'
  <2>1. /\ batch' \in [Batch -> BatchState]
        /\ entry' \in [Entry -> EntryState]
    BY <1>34 DEF StartRefusedLate, EntryRefused, PauseBatch, PauseRemainder, BatchState, EntryState, Settled, Cancellable
  <2>2. drain' \in [on : BOOLEAN, again : BOOLEAN, seen : SUBSET Entry, cur : Entry \cup {Nobody}]
    BY <1>34 DEF StartRefusedLate, EntryRefused
  <2>3. /\ attempt' \in [Entry -> {"none", "workspace", "runtime", "started", "refused"}]
        /\ init' \in [Entry -> {"free", "claimed", "settled"}]
        /\ made' \in [Entry -> Nat]
        /\ outside' \in 0..MaxOutside
    BY <1>34 DEF StartRefusedLate
  <2> QED
    BY <1>34, <2>1, <2>2, <2>3 DEF StartRefusedLate
<1> QED
  BY <1>1, <1>2, <1>3, <1>4, <1>5, <1>6, <1>7, <1>8, <1>9, <1>10, <1>11, <1>12, <1>13, <1>14, <1>15, <1>16, <1>17, <1>18, <1>19, <1>20, <1>21, <1>22, <1>23, <1>24, <1>25, <1>26, <1>27, <1>28, <1>29, <1>30, <1>31, <1>32, <1>33, <1>34
     DEF Next, Gesture, DrainStep, RunPathStep, SessionStep, ServerStep, ServerProceeds

(* Every row, key and process state keeps its type. *)
THEOREM TypeCorrect == Spec => []TypeOK
BY InitTyped, NextTyped, PTL DEF Spec

-----------------------------------------------------------------------------
(* What one settled session end does to the rows.  The entry it is about was in *)
(* flight; the others keep their state, are parked, or are called off.          *)
LEMMA SettleEntryForMoves ==
  ASSUME TypeOK, NEW e \in Entry, NEW end, SettleEntryFor(e, end)
  PROVE  /\ entry'[e] \in Settled
         /\ \A x \in Entry \ {e} :
              \/ entry'[x] = entry[x]
              \/ entry[x] = "queued" /\ entry'[x] = "paused"
              \/ entry[x] \in Cancellable /\ entry'[x] = "cancelled"
BY DEF TypeOK, SettleEntryFor, PauseBatch, PauseRemainder, AbortBatch, AbortRemainder,
       SettleBatch, Settled, Cancellable

(* ... and they still agree with their batches. *)
LEMMA SettleEntryForAgrees ==
  ASSUME TypeOK, RowsAgree, NEW e \in Entry, NEW end, SettleEntryFor(e, end),
         entry[e] \in {"starting", "running"}
  PROVE  RowsAgree'
<1> USE DEF TypeOK, RowsAgree, Settled, Cancellable
<1>1. CASE PauseBatch(BatchOf[e], [entry EXCEPT ![e] = "failed"])
  BY <1>1 DEF PauseBatch, PauseRemainder
<1>2. CASE PauseBatch(BatchOf[e], [entry EXCEPT ![e] = "interrupted"])
  BY <1>2 DEF PauseBatch, PauseRemainder
<1>3. CASE AbortBatch(BatchOf[e], [entry EXCEPT ![e] = "cancelled"])
  BY <1>3 DEF AbortBatch, AbortRemainder
<1>4. CASE SettleBatch(BatchOf[e], [entry EXCEPT ![e] = "done"])
  BY <1>4 DEF SettleBatch, SettleBatchIfFinished, EntriesOf, Outstanding, EntryState
<1> QED
  BY <1>1, <1>2, <1>3, <1>4 DEF SettleEntryFor

(* Settling an entry that is not in flight, by a cancellation. *)
LEMMA CancellingAgrees ==
  ASSUME TypeOK, RowsAgree, NEW e \in Entry, entry[e] \in Cancellable,
         SettleBatch(BatchOf[e], [entry EXCEPT ![e] = "cancelled"])
  PROVE  RowsAgree'
BY DEF TypeOK, RowsAgree, Settled, Cancellable, SettleBatch, SettleBatchIfFinished,
       EntriesOf, Outstanding, EntryState

(* No step puts a batch and its entries at odds. *)
LEMMA RowsAgreeNext == TypeOK /\ RowsAgree /\ AttemptsAgree /\ [Next]_vars => RowsAgree'
<1> SUFFICES ASSUME TypeOK, RowsAgree, AttemptsAgree, [Next]_vars PROVE RowsAgree'
  OBVIOUS
<1>1. ASSUME NEW b \in Batch, Initiate(b) PROVE RowsAgree'
  BY <1>1 DEF Initiate, Enqueue, TypeOK, RowsAgree
<1>2. ASSUME NEW b \in Batch, RunOneNow(b) PROVE RowsAgree'
  BY <1>2 DEF RunOneNow, RowsAgree
<1>3. ASSUME NEW b \in Batch, RunOneQueued(b) PROVE RowsAgree'
  BY <1>3 DEF RunOneQueued, Enqueue, TypeOK, RowsAgree
<1>4. ASSUME NEW b \in Batch, ResumeBatch(b) PROVE RowsAgree'
  BY <1>4 DEF ResumeBatch, TypeOK, RowsAgree, Settled
<1>5. ASSUME NEW b \in Batch, ResumeSettles(b) PROVE RowsAgree'
  BY <1>5 DEF ResumeSettles, SettleBatch, SettleBatchIfFinished, EntriesOf, Outstanding, EntryState, Cancellable, TypeOK, RowsAgree
<1>6. ASSUME NEW e \in Entry, Cancel(e) PROVE RowsAgree'
  BY <1>6, CancellingAgrees DEF Cancel
<1>7. ASSUME NEW e \in Entry, Confirm(e) PROVE RowsAgree'
  BY <1>7 DEF Confirm, TypeOK, RowsAgree
<1>8. ASSUME NEW n \in Limits, SetConcurrencyLimit(n) PROVE RowsAgree'
  BY <1>8 DEF SetConcurrencyLimit, RowsAgree, rows, volatile, vars
<1>9. ASSUME NEW s \in Editable, Edit(s) PROVE RowsAgree'
  BY <1>9 DEF Edit, RowsAgree, rows, volatile, vars
<1>10. CASE DrainPassEnds
  BY <1>10 DEF DrainPassEnds, RowsAgree, rows
<1>11. ASSUME NEW e \in Entry, AdmitDeclines(e) PROVE RowsAgree'
  BY <1>11 DEF AdmitDeclines, Consider, HeadOfQueue, Candidates, TypeOK, RowsAgree, BatchState, Settled
<1>12. ASSUME NEW e \in Entry, AdmitWaits(e) PROVE RowsAgree'
  BY <1>12 DEF AdmitWaits, RowsAgree
<1>13. ASSUME NEW e \in Entry, AdmitAbandons(e) PROVE RowsAgree'
  BY <1>13, CancellingAgrees DEF AdmitAbandons, Consider, HeadOfQueue, Candidates, Cancellable
<1>14. ASSUME NEW e \in Entry, AdmitReasks(e) PROVE RowsAgree'
  BY <1>14 DEF AdmitReasks, TypeOK, RowsAgree
<1>15. ASSUME NEW e \in Entry, AdmitStarts(e) PROVE RowsAgree'
  BY <1>15 DEF AdmitStarts, TypeOK, RowsAgree
<1>16. ASSUME NEW e \in Entry, AssembleRun(e) PROVE RowsAgree'
  BY <1>16 DEF AssembleRun, RowsAgree, rows, volatile, vars
<1>17. ASSUME NEW e \in Entry, StartSession(e) PROVE RowsAgree'
  BY <1>17 DEF StartSession, RowsAgree, rows, volatile, vars
<1>18. ASSUME NEW e \in Entry, AttemptFails(e) PROVE RowsAgree'
  BY <1>18 DEF AttemptFails, EntryRefused, Drained, PauseBatch, PauseRemainder, TypeOK, RowsAgree, Settled
<1>19. ASSUME NEW e \in Entry, BindEntry(e) PROVE RowsAgree'
  <2>1. entry[e] = "starting"
    BY <1>19 DEF BindEntry, AttemptsAgree
  <2>2. CASE sess[e] = "live"
    BY <1>19, <2>1, <2>2 DEF BindEntry, TypeOK, RowsAgree, Settled
  <2>3. CASE sess[e] # "live"
    BY <1>19, <2>1, <2>3, SettleEntryForAgrees DEF BindEntry
  <2> QED
    BY <2>2, <2>3
<1>20. ASSUME NEW e \in Entry, NEW end \in ObservedEnds, SessionEnds(e, end) PROVE RowsAgree'
  BY <1>20, SettleEntryForAgrees DEF SessionEnds, OnEvent, RowsAgree
<1>21. ASSUME NEW e \in Entry, NEW end \in StopEnds, StopSession(e, end) PROVE RowsAgree'
  BY <1>21 DEF StopSession, RowsAgree, rows, volatile, vars
<1>22. ASSUME NEW e \in Entry, PublishEnd(e) PROVE RowsAgree'
  BY <1>22, SettleEntryForAgrees DEF PublishEnd, OnEvent, RowsAgree
<1>23. ASSUME NEW e \in Entry, DriverPublishesEnd(e) PROVE RowsAgree'
  BY <1>23, SettleEntryForAgrees DEF DriverPublishesEnd, OnEvent, RowsAgree
<1>24. CASE OutsideStarts
  BY <1>24 DEF OutsideStarts, RowsAgree, rows, volatile, vars
<1>25. CASE OutsideEnds
  BY <1>25 DEF OutsideEnds, RowsAgree, rows, volatile, vars
<1>26. CASE StopQueue
  BY <1>26 DEF StopQueue, RowsAgree, rows, volatile, vars
<1>27. ASSUME NEW e \in Entry, ShutdownInterrupts(e) PROVE RowsAgree'
  BY <1>27 DEF ShutdownInterrupts, RowsAgree, rows, volatile, vars
<1>28. CASE ShutdownEnds
  BY <1>28 DEF ShutdownEnds, RowsAgree, rows, volatile, vars
<1>29. CASE Crash
  BY <1>29 DEF Crash, RowsAgree, rows, volatile, vars
<1>30. CASE RecoverFromRestart
  BY <1>30 DEF RecoverFromRestart, TypeOK, RowsAgree, Settled
<1>31. ASSUME NEW e \in Entry, Reconcile(e) PROVE RowsAgree'
  BY <1>31, SettleEntryForAgrees DEF Reconcile
<1>32. CASE Reconciled
  BY <1>32 DEF Reconciled, RowsAgree, rows, volatile, vars
<1>33. CASE UNCHANGED vars
  BY <1>33 DEF vars, RowsAgree, rows, volatile, vars
<1>34. ASSUME NEW e \in Entry, StartRefusedLate(e) PROVE RowsAgree'
  BY <1>34 DEF StartRefusedLate, EntryRefused, Drained, PauseBatch, PauseRemainder, TypeOK, RowsAgree, Settled
<1> QED
  BY <1>1, <1>2, <1>3, <1>4, <1>5, <1>6, <1>7, <1>8, <1>9, <1>10, <1>11, <1>12, <1>13, <1>14, <1>15, <1>16, <1>17, <1>18, <1>19, <1>20, <1>21, <1>22, <1>23, <1>24, <1>25, <1>26, <1>27, <1>28, <1>29, <1>30, <1>31, <1>32, <1>33, <1>34
     DEF Next, Gesture, DrainStep, RunPathStep, SessionStep, ServerStep, ServerProceeds

(* No step lets an attempt and its key or its entry part. *)
LEMMA AttemptsAgreeNext == TypeOK /\ RowsAgree /\ AttemptsAgree /\ [Next]_vars => AttemptsAgree'
<1> SUFFICES ASSUME TypeOK, RowsAgree, AttemptsAgree, [Next]_vars PROVE AttemptsAgree'
  OBVIOUS
<1>1. ASSUME NEW b \in Batch, Initiate(b) PROVE AttemptsAgree'
  BY <1>1 DEF Initiate, Enqueue, Serving, RowsAgree, TypeOK, AttemptsAgree
<1>2. ASSUME NEW b \in Batch, RunOneNow(b) PROVE AttemptsAgree'
  <2>1. PICK e \in Entry : entry[e] = "none" /\ init[e] \in {"free", "settled"} /\ ClaimInitiation(e)
    BY <1>2 DEF RunOneNow, EntriesOf, RowsAgree
  <2>2. /\ init' = [init EXCEPT ![e] = IF @ = "free" THEN "claimed" ELSE @]
        /\ attempt' = [attempt EXCEPT ![e] = IF init[e] = "free" THEN "workspace" ELSE "none"]
    BY <2>1 DEF ClaimInitiation
  <2> QED
    BY <1>2, <2>1, <2>2 DEF RunOneNow, TypeOK, AttemptsAgree
<1>3. ASSUME NEW b \in Batch, RunOneQueued(b) PROVE AttemptsAgree'
  BY <1>3 DEF RunOneQueued, Enqueue, volatile, RowsAgree, TypeOK, AttemptsAgree
<1>4. ASSUME NEW b \in Batch, ResumeBatch(b) PROVE AttemptsAgree'
  BY <1>4 DEF ResumeBatch, TypeOK, AttemptsAgree
<1>5. ASSUME NEW b \in Batch, ResumeSettles(b) PROVE AttemptsAgree'
  BY <1>5 DEF ResumeSettles, SettleBatch, AttemptsAgree
<1>6. ASSUME NEW e \in Entry, Cancel(e) PROVE AttemptsAgree'
  BY <1>6 DEF Cancel, SettleBatch, Cancellable, TypeOK, AttemptsAgree
<1>7. ASSUME NEW e \in Entry, Confirm(e) PROVE AttemptsAgree'
  BY <1>7 DEF Confirm, TypeOK, AttemptsAgree
<1>8. ASSUME NEW n \in Limits, SetConcurrencyLimit(n) PROVE AttemptsAgree'
  BY <1>8 DEF SetConcurrencyLimit, AttemptsAgree, rows, volatile, vars
<1>9. ASSUME NEW s \in Editable, Edit(s) PROVE AttemptsAgree'
  BY <1>9 DEF Edit, AttemptsAgree, rows, volatile, vars
<1>10. CASE DrainPassEnds
  BY <1>10 DEF DrainPassEnds, AttemptsAgree, rows, volatile, vars
<1>11. ASSUME NEW e \in Entry, AdmitDeclines(e) PROVE AttemptsAgree'
  BY <1>11 DEF AdmitDeclines, Declined, Consider, HeadOfQueue, Candidates, TypeOK, AttemptsAgree
<1>12. ASSUME NEW e \in Entry, AdmitWaits(e) PROVE AttemptsAgree'
  BY <1>12 DEF AdmitWaits, Declined, AttemptsAgree
<1>13. ASSUME NEW e \in Entry, AdmitAbandons(e) PROVE AttemptsAgree'
  BY <1>13 DEF AdmitAbandons, Declined, SettleBatch, Consider, HeadOfQueue, Candidates, TypeOK, AttemptsAgree
<1>14. ASSUME NEW e \in Entry, AdmitReasks(e) PROVE AttemptsAgree'
  BY <1>14 DEF AdmitReasks, Declined, Consider, HeadOfQueue, Candidates, TypeOK, AttemptsAgree
<1>15. ASSUME NEW e \in Entry, AdmitStarts(e) PROVE AttemptsAgree'
  BY <1>15 DEF AdmitStarts, ClaimInitiation, Consider, HeadOfQueue, Candidates, AtLoopHead, Serving, TypeOK, AttemptsAgree
<1>16. ASSUME NEW e \in Entry, AssembleRun(e) PROVE AttemptsAgree'
  BY <1>16 DEF AssembleRun, rows, Serving, TypeOK, AttemptsAgree
<1>17. ASSUME NEW e \in Entry, StartSession(e) PROVE AttemptsAgree'
  BY <1>17 DEF StartSession, Drained, Serving, TypeOK, AttemptsAgree
<1>18. ASSUME NEW e \in Entry, AttemptFails(e) PROVE AttemptsAgree'
  BY <1>18 DEF AttemptFails, EntryRefused, Drained, PauseBatch, PauseRemainder, Serving, TypeOK, AttemptsAgree
<1>19. ASSUME NEW e \in Entry, BindEntry(e) PROVE AttemptsAgree'
  <2>1. CASE sess[e] = "live"
    BY <1>19, <2>1 DEF BindEntry, TypeOK, AttemptsAgree
  <2>2. CASE sess[e] # "live"
    BY <1>19, <2>2, SettleEntryForMoves DEF BindEntry, Cancellable, TypeOK, AttemptsAgree
  <2> QED
    BY <2>1, <2>2
<1>20. ASSUME NEW e \in Entry, NEW end \in ObservedEnds, SessionEnds(e, end) PROVE AttemptsAgree'
  <2>1. \A x \in Entry : entry[x] = "starting" => entry'[x] = "starting"
    BY <1>20, SettleEntryForMoves DEF SessionEnds, OnEvent, Cancellable
  <2> QED
    BY <1>20, <2>1 DEF SessionEnds, TypeOK, AttemptsAgree, ObservedEnds, EndKind
<1>21. ASSUME NEW e \in Entry, NEW end \in StopEnds, StopSession(e, end) PROVE AttemptsAgree'
  BY <1>21 DEF StopSession, TypeOK, AttemptsAgree, StopEnds
<1>22. ASSUME NEW e \in Entry, PublishEnd(e) PROVE AttemptsAgree'
  <2>1. \A x \in Entry : entry[x] = "starting" => entry'[x] = "starting"
    BY <1>22, SettleEntryForMoves DEF PublishEnd, OnEvent, Cancellable
  <2> QED
    BY <1>22, <2>1 DEF PublishEnd, TypeOK, AttemptsAgree
<1>23. ASSUME NEW e \in Entry, DriverPublishesEnd(e) PROVE AttemptsAgree'
  <2>1. \A x \in Entry : entry[x] = "starting" => entry'[x] = "starting"
    BY <1>23, SettleEntryForMoves DEF DriverPublishesEnd, OnEvent, Cancellable
  <2> QED
    BY <1>23, <2>1 DEF DriverPublishesEnd, TypeOK, AttemptsAgree
<1>24. CASE OutsideStarts
  BY <1>24 DEF OutsideStarts, AttemptsAgree, rows, volatile, vars
<1>25. CASE OutsideEnds
  BY <1>25 DEF OutsideEnds, AttemptsAgree, rows, volatile, vars
<1>26. CASE StopQueue
  BY <1>26 DEF StopQueue, AttemptsAgree, rows, volatile, vars
<1>27. ASSUME NEW e \in Entry, ShutdownInterrupts(e) PROVE AttemptsAgree'
  BY <1>27 DEF ShutdownInterrupts, volatile, TypeOK, AttemptsAgree
<1>28. CASE ShutdownEnds
  BY <1>28 DEF ShutdownEnds, NothingVolatile, rows, AttemptsAgree
<1>29. CASE Crash
  BY <1>29 DEF Crash, NothingVolatile, rows, AttemptsAgree
<1>30. CASE RecoverFromRestart
  BY <1>30 DEF RecoverFromRestart, volatile, TypeOK, AttemptsAgree
<1>31. ASSUME NEW e \in Entry, Reconcile(e) PROVE AttemptsAgree'
  BY <1>31, SettleEntryForMoves DEF Reconcile, volatile, Cancellable, TypeOK, AttemptsAgree
<1>32. CASE Reconciled
  BY <1>32 DEF Reconciled, AttemptsAgree, rows, volatile, vars
<1>33. CASE UNCHANGED vars
  BY <1>33 DEF vars, AttemptsAgree, rows, volatile, vars
<1>34. ASSUME NEW e \in Entry, StartRefusedLate(e) PROVE AttemptsAgree'
  BY <1>34 DEF StartRefusedLate, EntryRefused, Drained, PauseBatch, PauseRemainder, Serving, TypeOK, AttemptsAgree
<1> QED
  BY <1>1, <1>2, <1>3, <1>4, <1>5, <1>6, <1>7, <1>8, <1>9, <1>10, <1>11, <1>12, <1>13, <1>14, <1>15, <1>16, <1>17, <1>18, <1>19, <1>20, <1>21, <1>22, <1>23, <1>24, <1>25, <1>26, <1>27, <1>28, <1>29, <1>30, <1>31, <1>32, <1>33, <1>34
     DEF Next, Gesture, DrainStep, RunPathStep, SessionStep, ServerStep, ServerProceeds

-----------------------------------------------------------------------------
(* How an entry may move in one step: settled ones do not, only an admission    *)
(* starts one, and only a binding to a live session makes one running.          *)
Moves ==
  \A x \in Entry :
    /\ entry[x] \in Settled => entry'[x] = entry[x]
    /\ entry'[x] \in Started => entry[x] \in Started \/ AdmitStarts(x)
    /\ entry'[x] = "running" =>
         \/ entry[x] = "running"
         \/ sess[x] = "live" /\ UNCHANGED <<sess, unpublished, server>>

(* Every step moves entries that way. *)
LEMMA EntryMoves == TypeOK /\ RowsAgree /\ AttemptsAgree /\ [Next]_vars => Moves
<1> SUFFICES ASSUME TypeOK, RowsAgree, AttemptsAgree, [Next]_vars PROVE Moves
  OBVIOUS
<1>1. ASSUME NEW b \in Batch, Initiate(b) PROVE Moves
  BY <1>1 DEF Initiate, Enqueue, RowsAgree, Moves, TypeOK, Settled, Cancellable, Started
<1>2. ASSUME NEW b \in Batch, RunOneNow(b) PROVE Moves
  BY <1>2 DEF RunOneNow, Moves, rows, volatile, vars
<1>3. ASSUME NEW b \in Batch, RunOneQueued(b) PROVE Moves
  BY <1>3 DEF RunOneQueued, Enqueue, RowsAgree, Moves, TypeOK, Settled, Cancellable, Started
<1>4. ASSUME NEW b \in Batch, ResumeBatch(b) PROVE Moves
  BY <1>4 DEF ResumeBatch, Moves, TypeOK, Settled, Cancellable, Started
<1>5. ASSUME NEW b \in Batch, ResumeSettles(b) PROVE Moves
  BY <1>5 DEF ResumeSettles, SettleBatch, Moves
<1>6. ASSUME NEW e \in Entry, Cancel(e) PROVE Moves
  BY <1>6 DEF Cancel, SettleBatch, Moves, TypeOK, Settled, Cancellable, Started
<1>7. ASSUME NEW e \in Entry, Confirm(e) PROVE Moves
  BY <1>7 DEF Confirm, Moves, TypeOK, Settled, Cancellable, Started
<1>8. ASSUME NEW n \in Limits, SetConcurrencyLimit(n) PROVE Moves
  BY <1>8 DEF SetConcurrencyLimit, Moves, rows, volatile, vars
<1>9. ASSUME NEW s \in Editable, Edit(s) PROVE Moves
  BY <1>9 DEF Edit, Moves, rows, volatile, vars
<1>10. CASE DrainPassEnds
  BY <1>10 DEF DrainPassEnds, Moves, rows, volatile, vars
<1>11. ASSUME NEW e \in Entry, AdmitDeclines(e) PROVE Moves
  BY <1>11 DEF AdmitDeclines, Consider, HeadOfQueue, Candidates, Moves, TypeOK, Settled, Cancellable, Started
<1>12. ASSUME NEW e \in Entry, AdmitWaits(e) PROVE Moves
  BY <1>12 DEF AdmitWaits, Moves, rows, volatile, vars
<1>13. ASSUME NEW e \in Entry, AdmitAbandons(e) PROVE Moves
  BY <1>13 DEF AdmitAbandons, SettleBatch, Consider, HeadOfQueue, Candidates, Moves, TypeOK, Settled, Cancellable, Started
<1>14. ASSUME NEW e \in Entry, AdmitReasks(e) PROVE Moves
  BY <1>14 DEF AdmitReasks, Consider, HeadOfQueue, Candidates, Moves, TypeOK, Settled, Cancellable, Started
<1>15. ASSUME NEW e \in Entry, AdmitStarts(e) PROVE Moves
  <2>1. entry[e] = "queued" /\ entry' = [entry EXCEPT ![e] = "starting"]
    BY <1>15 DEF AdmitStarts, Consider, HeadOfQueue, Candidates
  <2> QED
    BY <1>15, <2>1 DEF Moves, TypeOK, Settled, Cancellable, Started
<1>16. ASSUME NEW e \in Entry, AssembleRun(e) PROVE Moves
  BY <1>16 DEF AssembleRun, Moves, rows, volatile, vars
<1>17. ASSUME NEW e \in Entry, StartSession(e) PROVE Moves
  BY <1>17 DEF StartSession, Moves, rows, volatile, vars
<1>18. ASSUME NEW e \in Entry, AttemptFails(e) PROVE Moves
  BY <1>18 DEF AttemptFails, EntryRefused, Drained, PauseBatch, PauseRemainder, Moves, TypeOK, Settled, Cancellable, Started
<1>19. ASSUME NEW e \in Entry, BindEntry(e) PROVE Moves
  <2>1. entry[e] = "starting"
    BY <1>19 DEF BindEntry, AttemptsAgree
  <2>2. CASE sess[e] = "live"
    BY <1>19, <2>1, <2>2 DEF BindEntry, Moves, TypeOK, Settled, Cancellable, Started
  <2>3. CASE sess[e] # "live"
    BY <1>19, <2>1, <2>3, SettleEntryForMoves DEF BindEntry, Moves, TypeOK, Settled, Cancellable, Started
  <2> QED
    BY <2>2, <2>3
<1>20. ASSUME NEW e \in Entry, NEW end \in ObservedEnds, SessionEnds(e, end) PROVE Moves
  <2>1. CASE server = "up" /\ entry[e] = "running"
    BY <1>20, <2>1, SettleEntryForMoves DEF SessionEnds, OnEvent, Moves, TypeOK, Settled, Cancellable, Started
  <2>2. CASE ~(server = "up" /\ entry[e] = "running")
    BY <1>20, <2>2 DEF SessionEnds, OnEvent, Moves
  <2> QED
    BY <2>1, <2>2
<1>21. ASSUME NEW e \in Entry, NEW end \in StopEnds, StopSession(e, end) PROVE Moves
  BY <1>21 DEF StopSession, Moves, rows, volatile, vars
<1>22. ASSUME NEW e \in Entry, PublishEnd(e) PROVE Moves
  <2>1. CASE server = "up" /\ entry[e] = "running"
    BY <1>22, <2>1, SettleEntryForMoves DEF PublishEnd, OnEvent, Moves, TypeOK, Settled, Cancellable, Started
  <2>2. CASE ~(server = "up" /\ entry[e] = "running")
    BY <1>22, <2>2 DEF PublishEnd, OnEvent, Moves
  <2> QED
    BY <2>1, <2>2
<1>23. ASSUME NEW e \in Entry, DriverPublishesEnd(e) PROVE Moves
  <2>1. CASE server = "up" /\ entry[e] = "running"
    BY <1>23, <2>1, SettleEntryForMoves DEF DriverPublishesEnd, OnEvent, Moves, TypeOK, Settled, Cancellable, Started
  <2>2. CASE ~(server = "up" /\ entry[e] = "running")
    BY <1>23, <2>2 DEF DriverPublishesEnd, OnEvent, Moves
  <2> QED
    BY <2>1, <2>2
<1>24. CASE OutsideStarts
  BY <1>24 DEF OutsideStarts, Moves, rows, volatile, vars
<1>25. CASE OutsideEnds
  BY <1>25 DEF OutsideEnds, Moves, rows, volatile, vars
<1>26. CASE StopQueue
  BY <1>26 DEF StopQueue, Moves, rows, volatile, vars
<1>27. ASSUME NEW e \in Entry, ShutdownInterrupts(e) PROVE Moves
  BY <1>27 DEF ShutdownInterrupts, Moves, rows, volatile, vars
<1>28. CASE ShutdownEnds
  BY <1>28 DEF ShutdownEnds, Moves, rows, volatile, vars
<1>29. CASE Crash
  BY <1>29 DEF Crash, Moves, rows, volatile, vars
<1>30. CASE RecoverFromRestart
  BY <1>30 DEF RecoverFromRestart, Moves, TypeOK, Settled, Cancellable, Started
<1>31. ASSUME NEW e \in Entry, Reconcile(e) PROVE Moves
  BY <1>31, SettleEntryForMoves DEF Reconcile, Moves, TypeOK, Settled, Cancellable, Started
<1>32. CASE Reconciled
  BY <1>32 DEF Reconciled, Moves, rows, volatile, vars
<1>33. CASE UNCHANGED vars
  BY <1>33 DEF vars, Moves, rows, volatile, vars
<1>34. ASSUME NEW e \in Entry, StartRefusedLate(e) PROVE Moves
  BY <1>34 DEF StartRefusedLate, EntryRefused, Drained, PauseBatch, PauseRemainder, Moves, TypeOK, Settled, Cancellable, Started
<1> QED
  BY <1>1, <1>2, <1>3, <1>4, <1>5, <1>6, <1>7, <1>8, <1>9, <1>10, <1>11, <1>12, <1>13, <1>14, <1>15, <1>16, <1>17, <1>18, <1>19, <1>20, <1>21, <1>22, <1>23, <1>24, <1>25, <1>26, <1>27, <1>28, <1>29, <1>30, <1>31, <1>32, <1>33, <1>34
     DEF Next, Gesture, DrainStep, RunPathStep, SessionStep, ServerStep, ServerProceeds

(* Outputs are bound again, never unbound. *)
LEMMA BoundGrows ==
  TypeOK /\ [Next]_vars => \A c \in Command : bound'[c] >= bound[c]
<1> SUFFICES ASSUME TypeOK, [Next]_vars PROVE \A c \in Command : bound'[c] >= bound[c]
  OBVIOUS
<1>1. CASE UNCHANGED bound
  BY <1>1 DEF TypeOK
<1>2. ASSUME NEW e \in Entry, NEW end \in ObservedEnds, SessionEnds(e, end)
      PROVE  \A c \in Command : bound'[c] >= bound[c]
  BY <1>2 DEF SessionEnds, TypeOK
<1> QED
  BY <1>1, <1>2
     DEF Next, Gesture, DrainStep, RunPathStep, SessionStep, ServerStep, ServerProceeds, vars, rows, volatile,
         Initiate, RunOneNow, RunOneQueued, ResumeBatch, ResumeSettles, Cancel, Confirm,
         SetConcurrencyLimit, Edit, DrainPassEnds, AdmitDeclines, AdmitWaits, AdmitAbandons,
         AdmitReasks, AdmitStarts, Declined, AssembleRun, StartSession, StartRefusedLate, AttemptFails,
         BindEntry, StopSession, PublishEnd, DriverPublishesEnd, OutsideStarts, OutsideEnds,
         StopQueue, ShutdownInterrupts, ShutdownEnds, Crash, RecoverFromRestart, Reconcile,
         Reconciled

(* An admission checks every producer; afterwards producers stay settled and     *)
(* outputs stay bound.                                                           *)
LEMMA ChainOrderNext ==
  IndInv /\ [Next]_vars => ChainOrder'
<1> SUFFICES ASSUME IndInv, [Next]_vars,
                    NEW e \in Entry, entry'[e] \in Started, NEW f \in InBatchProducers(e)
             PROVE  \/ entry'[f] = "done"
                    \/ entry'[f] \in Settled /\ bound'[CommandOf[f]] > 0
  BY DEF ChainOrder, InBatchProducers, EntriesOf
<1>1. f \in Entry /\ CommandOf[f] \in Command
  BY DEF InBatchProducers, EntriesOf
<1>2. Moves /\ bound'[CommandOf[f]] >= bound[CommandOf[f]]
  BY <1>1, EntryMoves, BoundGrows DEF IndInv
<1>3. entry[f] = "done" \/ (entry[f] \in Settled /\ bound[CommandOf[f]] > 0)
  <2>1. CASE entry[e] \in Started
    BY <2>1 DEF IndInv, ChainOrder
  <2>2. CASE AdmitStarts(e)
    BY <1>1, <2>2 DEF AdmitStarts, Ready, Abandoned, Waiting, IndInv, TypeOK
  <2> QED
    BY <1>2, <2>1, <2>2 DEF Moves
<1>4. bound[CommandOf[f]] \in Nat /\ bound'[CommandOf[f]] \in Nat
  BY <1>1, NextTyped DEF IndInv, TypeOK
<1> QED
  BY <1>1, <1>2, <1>3, <1>4 DEF Moves, Settled

(* A bound row loses its live session only in a step that settles the row or     *)
(* leaves an event pending; a boot that is over has settled every such row.      *)
LEMMA NoStrandedNext ==
  IndInv /\ [Next]_vars => NoStrandedEntry'
<1> SUFFICES ASSUME IndInv, [Next]_vars, server' = "up",
                    NEW x \in Entry, entry'[x] = "running"
             PROVE  sess'[x] = "live" \/ x \in unpublished'
  BY DEF NoStrandedEntry
<1> USE DEF IndInv
<1>1. \/ entry[x] = "running"
      \/ sess[x] = "live" /\ UNCHANGED <<sess, unpublished, server>>
  BY EntryMoves DEF Moves
<1>2. CASE sess[x] = "live" /\ UNCHANGED <<sess, unpublished, server>>
  BY <1>2
<1>3. CASE entry[x] = "running" /\ server = "up"
  <2>1. sess[x] = "live" \/ x \in unpublished
    BY <1>3 DEF NoStrandedEntry
  <2>2. CASE UNCHANGED <<sess, unpublished>>
    BY <2>1, <2>2
  <2>3. ASSUME NEW e \in Entry, NEW end \in ObservedEnds, SessionEnds(e, end)
        PROVE  sess'[x] = "live" \/ x \in unpublished'
    <3>1. CASE x = e
      BY <1>3, <2>3, <3>1, SettleEntryForMoves DEF SessionEnds, OnEvent, Settled
    <3>2. CASE x # e
      BY <2>1, <2>3, <3>2 DEF SessionEnds, TypeOK
    <3> QED
      BY <3>1, <3>2
  <2>4. ASSUME NEW e \in Entry, NEW end \in StopEnds, StopSession(e, end)
        PROVE  sess'[x] = "live" \/ x \in unpublished'
    BY <2>1, <2>4 DEF StopSession, TypeOK
  <2>5. ASSUME NEW e \in Entry, PublishEnd(e)
        PROVE  sess'[x] = "live" \/ x \in unpublished'
    <3>1. CASE x = e
      BY <1>3, <2>5, <3>1, SettleEntryForMoves DEF PublishEnd, OnEvent, Settled
    <3>2. CASE x # e
      BY <2>1, <2>5, <3>2 DEF PublishEnd
    <3> QED
      BY <3>1, <3>2
  <2>6. ASSUME NEW e \in Entry, StartSession(e)
        PROVE  sess'[x] = "live" \/ x \in unpublished'
    BY <2>1, <2>6 DEF StartSession, TypeOK
  <2>7. ASSUME NEW e \in Entry, ShutdownInterrupts(e) PROVE FALSE
    BY <1>3, <2>7 DEF ShutdownInterrupts
  <2>8. ~ShutdownEnds /\ ~Crash /\ ~RecoverFromRestart
    BY DEF ShutdownEnds, Crash, RecoverFromRestart
  <2> QED
    BY <2>2, <2>3, <2>4, <2>5, <2>6, <2>7, <2>8
       DEF Next, Gesture, DrainStep, RunPathStep, SessionStep, ServerStep, ServerProceeds, vars, rows,
           volatile, Initiate, RunOneNow, RunOneQueued, ResumeBatch, ResumeSettles, Cancel,
           Confirm, SetConcurrencyLimit, Edit, DrainPassEnds, AdmitDeclines, AdmitWaits,
           AdmitAbandons, AdmitReasks, AdmitStarts, Declined, AssembleRun, StartRefusedLate, AttemptFails,
           BindEntry, DriverPublishesEnd, OutsideStarts, OutsideEnds, StopQueue, Reconcile,
           Reconciled
<1>4. CASE entry[x] = "running" /\ server # "up"
  <2>1. Reconciled
    BY <1>4
       DEF Next, Gesture, DrainStep, RunPathStep, SessionStep, ServerStep, ServerProceeds, vars, rows,
           volatile, Initiate, RunOneNow, RunOneQueued, ResumeBatch, ResumeSettles, Cancel,
           Confirm, SetConcurrencyLimit, Edit, DrainPassEnds, AdmitDeclines, AdmitWaits,
           AdmitAbandons, AdmitReasks, AdmitStarts, Declined, AssembleRun, StartSession,
           StartRefusedLate, AttemptFails, BindEntry, SessionEnds, StopSession, PublishEnd,
           DriverPublishesEnd, OutsideStarts, OutsideEnds, StopQueue, ShutdownInterrupts,
           ShutdownEnds, Crash, RecoverFromRestart, Reconcile
  <2> QED
    BY <1>4, <2>1 DEF Reconciled
<1> QED
  BY <1>1, <1>2, <1>3, <1>4

-----------------------------------------------------------------------------
(* The inductive invariant holds at every step. *)
LEMMA Inductive == Spec => []IndInv
<1>1. Init => IndInv
  BY InitTyped DEF Init, IndInv, RowsAgree, AttemptsAgree, ChainOrder, Started, NoStrandedEntry
<1>2. IndInv /\ [Next]_vars => IndInv'
  BY NextTyped, RowsAgreeNext, AttemptsAgreeNext, ChainOrderNext, NoStrandedNext DEF IndInv
<1> QED
  BY <1>1, <1>2, PTL DEF Spec

(* A queued run never starts before the commands of its own batch that it takes  *)
(* input from have settled with something to give it, whatever is paused,        *)
(* resumed, cancelled, stopped or restarted in between (queue.ts admit and       *)
(* inBatchStanding).                                                             *)
THEOREM ChainOrderHolds == Spec => []ChainOrder
<1>1. IndInv => ChainOrder
  BY DEF IndInv
<1> QED
  BY Inductive, <1>1, PTL

(* While the server is up, no entry stays bound to a session that has ended      *)
(* without an event still to come for it (queue.ts admit's look-back, onEvent    *)
(* and recoverAfterRestart).                                                     *)
THEOREM NoStrandedEntryHolds == Spec => []NoStrandedEntry
<1>1. IndInv => NoStrandedEntry
  BY DEF IndInv
<1> QED
  BY Inductive, <1>1, PTL

(* A completed batch has only settled entries, although the store's check does   *)
(* not count parked ones (run-queue-store.ts settleBatchIfFinished).             *)
THEOREM CompletedMeansSettledHolds == Spec => []CompletedMeansSettled
<1>1. IndInv => CompletedMeansSettled
  BY DEF IndInv, RowsAgree, CompletedMeansSettled
<1> QED
  BY Inductive, <1>1, PTL

(* An outcome is recorded once: no event, look-back, abort, cancellation or boot *)
(* rewrites a settled entry (run-queue-store.ts settle and the queue's callers). *)
THEOREM SettledIsFinalHolds == Spec => SettledIsFinal
<1>1. IndInv /\ [Next]_vars =>
        [\A e \in Entry : entry[e] \in Settled => entry'[e] = entry[e]]_vars
  BY EntryMoves DEF IndInv, Moves
<1> QED
  BY Inductive, <1>1, PTL DEF Spec, SettledIsFinal

(* A key that has its session keeps it: nothing frees the key or makes it        *)
(* produce another.                                                              *)
SpentKeysStaySpent ==
  [][\A e \in Entry : init[e] = "settled" => init'[e] = "settled" /\ made'[e] = made[e]]_vars

(* The steps that touch a key take it free or claimed, or replay it. *)
LEMMA SpentStep ==
  ASSUME IndInv, [Next]_vars, NEW x \in Entry, init[x] = "settled"
  PROVE  init'[x] = "settled" /\ made'[x] = made[x]
<1>0. TypeOK /\ AttemptsAgree
  BY DEF IndInv
<1>1. ASSUME NEW e \in Entry, ClaimInitiation(e), UNCHANGED made
      PROVE  init'[x] = "settled" /\ made'[x] = made[x]
  BY <1>0, <1>1 DEF ClaimInitiation, TypeOK
<1>2. ASSUME NEW b \in Batch, RunOneNow(b) PROVE init'[x] = "settled" /\ made'[x] = made[x]
  BY <1>1, <1>2 DEF RunOneNow, EntriesOf
<1>3. ASSUME NEW e \in Entry, AdmitStarts(e) PROVE init'[x] = "settled" /\ made'[x] = made[x]
  BY <1>1, <1>3 DEF AdmitStarts
<1>4. ASSUME NEW e \in Entry, StartSession(e) \/ StartRefusedLate(e) \/ AttemptFails(e)
      PROVE  init'[x] = "settled" /\ made'[x] = made[x]
  <2>1. CASE e = x
    BY <1>0, <1>4, <2>1 DEF StartSession, StartRefusedLate, AttemptFails, AttemptsAgree
  <2>2. CASE e # x
    BY <1>0, <1>4, <2>2 DEF StartSession, StartRefusedLate, AttemptFails, TypeOK
  <2> QED
    BY <2>1, <2>2
<1>5. CASE RecoverFromRestart
  BY <1>5 DEF RecoverFromRestart
<1>6. CASE UNCHANGED <<init, made>>
  BY <1>6
<1> QED
  BY <1>2, <1>3, <1>4, <1>5, <1>6
     DEF Next, Gesture, DrainStep, RunPathStep, SessionStep, ServerStep, ServerProceeds, vars, rows, volatile,
         Initiate, RunOneQueued, ResumeBatch, ResumeSettles, Cancel, Confirm, SetConcurrencyLimit,
         Edit, DrainPassEnds, AdmitDeclines, AdmitWaits, AdmitAbandons, AdmitReasks, Declined,
         AssembleRun, BindEntry, SessionEnds, StopSession, PublishEnd, DriverPublishesEnd,
         OutsideStarts, OutsideEnds, StopQueue, ShutdownInterrupts, ShutdownEnds, Crash,
         Reconcile, Reconciled

(* A key that has its session never produces another, whatever is retried,       *)
(* refused or restarted.  So the only second session is that of a key which a    *)
(* refusal after the session was recorded has freed: unless there are such       *)
(* refusals, a gesture makes one session at most (service.ts runOne and start,   *)
(* run-store.ts claimInitiation).                                                *)
THEOREM OneGestureOneSessionHolds ==
  Spec => SpentKeysStaySpent /\ [](LateRefusals \/ OneGestureOneSession)
<1>1. IndInv => LateRefusals \/ OneGestureOneSession
  BY DEF IndInv, AttemptsAgree, OneGestureOneSession
<1>2. IndInv /\ [Next]_vars =>
        [\A e \in Entry : init[e] = "settled" => init'[e] = "settled" /\ made'[e] = made[e]]_vars
  BY SpentStep
<1> QED
  BY Inductive, <1>1, <1>2, PTL DEF Spec, SpentKeysStaySpent

-----------------------------------------------------------------------------
(* The drain loop. *)

(* An entry that is starting is the one the loop waits for; a boot finds none. *)
StartsInLoop ==
  \A e \in Entry : entry[e] = "starting" =>
    /\ Serving => drain.on /\ drain.cur = e
    /\ server # "recovering"

(* What a call of drain() does to the loop. *)
LEMMA RequestDrainIs ==
  ASSUME TypeOK, RequestDrain
  PROVE  /\ drain.on => drain'.on /\ drain'.cur = drain.cur /\ drain'.seen = drain.seen
         /\ server # "stopping" => /\ drain'.on /\ (drain'.again \/ drain'.seen = {})
         /\ ~drain.on => drain'.seen \subseteq drain.seen \/ drain'.seen = {}
BY DEF TypeOK, RequestDrain, NewPass

(* No step leaves a starting entry that the loop does not wait for. *)
LEMMA StartsInLoopNext ==
  IndInv /\ StartsInLoop /\ [Next]_vars => StartsInLoop'
<1> SUFFICES ASSUME IndInv, StartsInLoop, [Next]_vars PROVE StartsInLoop'
  OBVIOUS
<1>0. TypeOK /\ AttemptsAgree /\ RowsAgree
  BY DEF IndInv
<1>a. ASSUME \A x \in Entry : entry'[x] = "starting" => entry[x] = "starting",
             drain.on => drain'.on /\ drain'.cur = drain.cur,
             server' = server
      PROVE  StartsInLoop'
  BY <1>a DEF StartsInLoop, Serving
<1>b. ASSUME NEW e \in Entry, entry'[e] # "starting", entry[e] = "starting",
             \A x \in Entry : entry'[x] = "starting" => entry[x] = "starting",
             server' = server, Serving
      PROVE  StartsInLoop'
  BY <1>b DEF StartsInLoop, Serving
<1>1. ASSUME NEW b \in Batch, Initiate(b) PROVE StartsInLoop'
  BY <1>0, <1>1, <1>a, RequestDrainIs DEF Initiate, Enqueue, TypeOK
<1>2. ASSUME NEW b \in Batch, RunOneNow(b) \/ RunOneQueued(b) PROVE StartsInLoop'
  BY <1>0, <1>2, <1>a DEF RunOneNow, RunOneQueued, Enqueue, TypeOK, volatile
<1>4. ASSUME NEW b \in Batch, ResumeBatch(b) PROVE StartsInLoop'
  BY <1>0, <1>4, <1>a, RequestDrainIs DEF ResumeBatch, TypeOK
<1>5. ASSUME NEW b \in Batch, ResumeSettles(b) PROVE StartsInLoop'
  BY <1>5, <1>a DEF ResumeSettles, SettleBatch
<1>6. ASSUME NEW e \in Entry, Cancel(e) PROVE StartsInLoop'
  BY <1>0, <1>6, <1>a, RequestDrainIs DEF Cancel, SettleBatch, TypeOK
<1>7. ASSUME NEW e \in Entry, Confirm(e) PROVE StartsInLoop'
  BY <1>0, <1>7, <1>a, RequestDrainIs DEF Confirm, TypeOK
<1>8. ASSUME NEW n \in Limits, SetConcurrencyLimit(n) PROVE StartsInLoop'
  BY <1>0, <1>8, <1>a, RequestDrainIs DEF SetConcurrencyLimit, rows
<1>9. CASE (\E s \in Editable : Edit(s)) \/ OutsideStarts \/ UNCHANGED vars
  BY <1>9, <1>a DEF Edit, OutsideStarts, vars, rows, volatile
<1>10. CASE DrainPassEnds
  BY <1>0, <1>10 DEF DrainPassEnds, AtLoopHead, rows, StartsInLoop, Serving
<1>11. ASSUME NEW e \in Entry, AdmitDeclines(e) \/ AdmitWaits(e) \/ AdmitAbandons(e) \/ AdmitReasks(e)
       PROVE  StartsInLoop'
  BY <1>0, <1>11, <1>a
     DEF AdmitDeclines, AdmitWaits, AdmitAbandons, AdmitReasks, Declined, Seen, SettleBatch, TypeOK
<1>15. ASSUME NEW e \in Entry, AdmitStarts(e) PROVE StartsInLoop'
  <2>1. /\ \A x \in Entry : entry[x] # "starting"
        /\ entry' = [entry EXCEPT ![e] = "starting"]
        /\ drain'.on /\ drain'.cur = e /\ server' = "up"
    BY <1>0, <1>15 DEF AdmitStarts, Consider, AtLoopHead, MayAdmit, StartsInLoop, TypeOK
  <2> QED
    BY <1>0, <2>1 DEF StartsInLoop, TypeOK
<1>16. ASSUME NEW e \in Entry, AssembleRun(e) \/ StartSession(e) PROVE StartsInLoop'
  BY <1>16, <1>a DEF AssembleRun, StartSession, rows
<1>18. ASSUME NEW e \in Entry, AttemptFails(e) \/ StartRefusedLate(e) PROVE StartsInLoop'
  <2>1. CASE Drained(e)
    <3>1. /\ entry'[e] # "starting" /\ server' = server /\ Serving
          /\ \A x \in Entry : entry'[x] = "starting" => entry[x] = "starting"
      BY <1>0, <1>18, <2>1
         DEF AttemptFails, StartRefusedLate, EntryRefused, PauseBatch, PauseRemainder, TypeOK
    <3> QED
      BY <1>b, <2>1, <3>1 DEF Drained
  <2>2. CASE ~Drained(e)
    BY <1>18, <1>a, <2>2 DEF AttemptFails, StartRefusedLate, EntryRefused
  <2> QED
    BY <2>1, <2>2
<1>19. ASSUME NEW e \in Entry, BindEntry(e) PROVE StartsInLoop'
  <2>1. entry[e] = "starting" /\ server' = server /\ Serving
    BY <1>0, <1>19 DEF BindEntry, AttemptsAgree
  <2>2. /\ entry'[e] # "starting"
        /\ \A x \in Entry : entry'[x] = "starting" => entry[x] = "starting"
    <3>1. CASE sess[e] = "live"
      BY <1>0, <1>19, <3>1 DEF BindEntry, TypeOK
    <3>2. CASE sess[e] # "live"
      BY <1>0, <1>19, <3>2, SettleEntryForMoves DEF BindEntry, Settled
    <3> QED
      BY <3>1, <3>2
  <2> QED
    BY <1>b, <2>1, <2>2
<1>20. ASSUME NEW e \in Entry, NEW end, OnEvent(e, end), server' = server PROVE StartsInLoop'
  <2>1. CASE server = "up" /\ entry[e] = "running"
    <3>1. \A x \in Entry : entry'[x] = "starting" => entry[x] = "starting"
      BY <1>0, <1>20, <2>1, SettleEntryForMoves DEF OnEvent, Settled
    <3> QED
      BY <1>0, <1>20, <1>a, <2>1, <3>1, RequestDrainIs DEF OnEvent
  <2>2. CASE ~(server = "up" /\ entry[e] = "running")
    BY <1>0, <1>20, <1>a, <2>2, RequestDrainIs DEF OnEvent
  <2> QED
    BY <2>1, <2>2
<1>21. ASSUME NEW e \in Entry, NEW end, SessionEnds(e, end) PROVE StartsInLoop'
  BY <1>20, <1>21 DEF SessionEnds
<1>22. ASSUME NEW e \in Entry, PublishEnd(e) \/ DriverPublishesEnd(e) PROVE StartsInLoop'
  BY <1>20, <1>22 DEF PublishEnd, DriverPublishesEnd
<1>23. ASSUME NEW e \in Entry, NEW end, StopSession(e, end) PROVE StartsInLoop'
  BY <1>23, <1>a DEF StopSession
<1>25. CASE OutsideEnds
  BY <1>0, <1>25, <1>a, RequestDrainIs DEF OutsideEnds, rows
<1>26. CASE StopQueue
  BY <1>26 DEF StopQueue, rows, volatile, StartsInLoop, Serving
<1>27. ASSUME NEW e \in Entry, ShutdownInterrupts(e) PROVE StartsInLoop'
  BY <1>27, <1>a DEF ShutdownInterrupts, volatile
<1>28. CASE ShutdownEnds \/ Crash
  BY <1>28 DEF ShutdownEnds, Crash, rows, StartsInLoop, Serving
<1>30. CASE RecoverFromRestart
  BY <1>0, <1>30 DEF RecoverFromRestart, StartsInLoop, TypeOK
<1>31. ASSUME NEW e \in Entry, Reconcile(e) PROVE StartsInLoop'
  <2>1. \A x \in Entry : entry'[x] = "starting" => entry[x] = "starting"
    BY <1>0, <1>31, SettleEntryForMoves DEF Reconcile, Settled
  <2> QED
    BY <1>31, <1>a, <2>1 DEF Reconcile, volatile
<1>32. CASE Reconciled
  BY <1>32 DEF Reconciled, rows, StartsInLoop
<1> QED
  BY <1>1, <1>2, <1>4, <1>5, <1>6, <1>7, <1>8, <1>9, <1>10, <1>11, <1>15, <1>16, <1>18, <1>19,
     <1>21, <1>22, <1>23, <1>25, <1>26, <1>27, <1>28, <1>30, <1>31, <1>32
     DEF Next, Gesture, DrainStep, RunPathStep, SessionStep, ServerStep, ServerProceeds

-----------------------------------------------------------------------------
(* No wakeup is lost.  What the loop has passed over in this pass it need not   *)
(* look at again: each such entry waits for a producer, and the producers that  *)
(* have yet to run were passed over as well.  Whatever could change that        *)
(* requests another pass.                                                       *)
Seated(e) ==
  /\ batch[BatchOf[e]] = "running"
  /\ Waiting(e)
  /\ \A f \in InBatchProducers(e) : /\ entry[f] # "starting"
                                    /\ entry[f] = "queued" => f \in drain.seen

PassKnows ==
  server = "up" /\ drain.on /\ ~drain.again =>
    \A e \in drain.seen : /\ entry[e] # "none"
                          /\ entry[e] = "queued" => Seated(e)

WakeInv == /\ StartsInLoop
           /\ IsFiniteSet(Live)
           /\ PassKnows
           /\ NoLostWakeup

(* One session at most starts in a step, so the running ones stay countable. *)
LEMMA LiveFiniteNext ==
  IndInv /\ IsFiniteSet(Live) /\ [Next]_vars => IsFiniteSet(Live)'
<1> SUFFICES ASSUME IndInv, IsFiniteSet(Live), [Next]_vars PROVE IsFiniteSet(Live')
  OBVIOUS
<1>0. TypeOK
  BY DEF IndInv
<1>1. ASSUME UNCHANGED sess PROVE IsFiniteSet(Live')
  BY <1>1 DEF Live
<1>2. ASSUME NEW e \in Entry, NEW s, sess' = [sess EXCEPT ![e] = s] PROVE IsFiniteSet(Live')
  <2>1. Live' \subseteq Live \cup {e}
    BY <1>0, <1>2 DEF Live, TypeOK
  <2> QED
    BY <2>1, FS_AddElement, FS_Subset
<1>3. CASE RecoverFromRestart
  <2>1. Live' \subseteq Live
    BY <1>0, <1>3 DEF RecoverFromRestart, Live, TypeOK
  <2> QED
    BY <2>1, FS_Subset
<1> QED
  BY <1>1, <1>2, <1>3
     DEF Next, Gesture, DrainStep, RunPathStep, SessionStep, ServerStep, ServerProceeds, vars, rows, volatile,
         Initiate, RunOneNow, RunOneQueued, ResumeBatch, ResumeSettles, Cancel, Confirm,
         SetConcurrencyLimit, Edit, DrainPassEnds, AdmitDeclines, AdmitWaits, AdmitAbandons,
         AdmitReasks, AdmitStarts, Declined, AssembleRun, StartSession, StartRefusedLate,
         AttemptFails, BindEntry, SessionEnds, StopSession, PublishEnd, DriverPublishesEnd,
         OutsideStarts, OutsideEnds, StopQueue, ShutdownInterrupts, ShutdownEnds, Crash,
         Reconcile, Reconciled

(* The producers of an entry are other entries of its batch, ahead of it. *)
LEMMA ProducersAreAhead ==
  ASSUME NEW e \in Entry, NEW f \in InBatchProducers(e)
  PROVE  f \in Entry /\ f # e /\ BatchOf[f] = BatchOf[e] /\ Position[f] < Position[e]
BY ScopesAreInDependencyOrder DEF InBatchProducers, EntriesOf

(* An entry waits on until one of its producers settles. *)
LEMMA WaitingStays ==
  ASSUME IndInv, [Next]_vars, NEW e \in Entry, Waiting(e),
         \A f \in InBatchProducers(e) : entry'[f] \in Settled => entry[f] \in Settled
  PROVE  Waiting(e)'
<1>0. /\ \A c \in Command : bound'[c] >= bound[c]
      /\ bound \in [Command -> Nat] /\ bound' \in [Command -> Nat]
      /\ Moves
  BY BoundGrows, NextTyped, EntryMoves DEF IndInv, TypeOK
<1>1. ASSUME NEW f \in InBatchProducers(e), entry'[f] \in Settled \ {"done"}, bound'[CommandOf[f]] = 0
      PROVE  FALSE
  <2>1. f \in Entry /\ CommandOf[f] \in Command
    BY <1>1, ProducersAreAhead
  <2>2. entry[f] = entry'[f] /\ bound[CommandOf[f]] = 0
    BY <1>0, <1>1, <2>1 DEF Moves
  <2> QED
    BY <1>1, <2>2 DEF Waiting, Abandoned
<1>2. PICK f \in InBatchProducers(e) : entry[f] \notin Settled
  BY DEF Waiting
<1>3. entry'[f] \notin Settled
  BY <1>2
<1> QED
  BY <1>1, <1>3 DEF Waiting, Abandoned

(* ... and stays passed over as long as none of them starts or comes back. *)
LEMMA SeatedStays ==
  ASSUME IndInv, [Next]_vars, NEW x \in Entry, Seated(x),
         batch'[BatchOf[x]] = batch[BatchOf[x]],
         \A f \in InBatchProducers(x) :
           entry'[f] = entry[f] \/ entry'[f] \notin Settled \cup {"starting", "queued"},
         drain.seen \subseteq drain'.seen
  PROVE  Seated(x)'
<1>1. Waiting(x)'
  BY WaitingStays DEF Seated
<1> QED
  BY <1>1 DEF Seated

(* What a pass being requested, or another beginning, makes true. *)
LEMMA AnotherPass ==
  ASSUME drain'.on, drain'.again \/ drain'.seen = {}
  PROVE  PassKnows' /\ NoLostWakeup'
BY DEF PassKnows, NoLostWakeup

LEMMA RequestedPass ==
  ASSUME TypeOK, RequestDrain, server' = server
  PROVE  PassKnows' /\ NoLostWakeup'
<1>1. CASE server = "stopping"
  BY <1>1 DEF PassKnows, NoLostWakeup
<1>2. CASE server # "stopping"
  BY <1>2, RequestDrainIs, AnotherPass
<1> QED
  BY <1>1, <1>2

(* A step that queues, starts and settles nothing and frees no slot needs none. *)
LEMMA QuietStep ==
  ASSUME IndInv, PassKnows, NoLostWakeup, [Next]_vars,
         server' = server, drain' = drain,
         \A x \in Entry : entry'[x] = entry[x] \/ (entry[x] # "none" /\ entry'[x] = "paused"),
         \A x \in Entry : entry[x] = "queued" => batch'[BatchOf[x]] = batch[BatchOf[x]],
         RunningCount' < limit' /\ unpublished' = {} => RunningCount < limit /\ unpublished = {}
  PROVE  PassKnows' /\ NoLostWakeup'
<1>0. ASSUME NEW x \in Entry, NEW f \in InBatchProducers(x)
      PROVE  entry'[f] = entry[f] \/ entry'[f] \notin Settled \cup {"starting", "queued"}
  BY ProducersAreAhead DEF Settled
<1>1. PassKnows'
  <2> SUFFICES ASSUME server = "up", drain.on, ~drain.again, NEW x \in drain.seen
               PROVE  entry'[x] # "none" /\ (entry'[x] = "queued" => Seated(x)')
    BY DEF PassKnows
  <2>1. x \in Entry
    BY DEF IndInv, TypeOK
  <2>2. entry[x] # "none" /\ (entry[x] = "queued" => Seated(x))
    BY DEF PassKnows
  <2>3. entry'[x] # "none" /\ (entry'[x] = "queued" => entry[x] = "queued")
    BY <2>1, <2>2
  <2> QED
    BY <1>0, <2>1, <2>2, <2>3, SeatedStays
<1>2. NoLostWakeup'
  <2> SUFFICES ASSUME server = "up", ~drain.on, RunningCount' < limit', unpublished' = {},
                      NEW x \in Entry, entry'[x] = "queued"
               PROVE  batch'[BatchOf[x]] = "running" /\ Waiting(x)'
    BY DEF NoLostWakeup
  <2>1. entry[x] = "queued"
    OBVIOUS
  <2>2. batch[BatchOf[x]] = "running" /\ Waiting(x)
    BY <2>1 DEF NoLostWakeup
  <2>3. \A f \in InBatchProducers(x) : entry'[f] \in Settled => entry[f] \in Settled
    BY <1>0
  <2>4. Waiting(x)'
    BY <2>2, <2>3, WaitingStays
  <2> QED
    BY <2>1, <2>2, <2>4
<1> QED
  BY <1>1, <1>2

(* Another entry settles or starts: those passed over stay so unless one of      *)
(* their producers did, and what is parked is not queued any more.               *)
LEMMA PassedOverStay ==
  ASSUME IndInv, PassKnows, [Next]_vars, drain.on, drain'.on,
         server' = server, drain'.again = drain.again,
         NEW e \in Entry, drain'.seen \in {drain.seen, drain.seen \cup {e}},
         entry[e] \in {"queued", "starting"}, entry[e] = "queued" => e \notin drain.seen,
         entry'[e] \notin {"none", "queued"},
         \A x \in Entry \ {e} : \/ entry'[x] = entry[x]
                                \/ entry[x] # "none" /\ entry'[x] \in {"paused", "cancelled"},
         \A x \in Entry \ {e} : entry'[x] = "queued" =>
           /\ batch'[BatchOf[x]] = batch[BatchOf[x]]
           /\ BatchOf[x] = BatchOf[e] => \A f \in Entry \ {e} : BatchOf[f] = BatchOf[e] => entry'[f] = entry[f]
           /\ BatchOf[x] # BatchOf[e] => \A f \in Entry : BatchOf[f] = BatchOf[x] => entry'[f] = entry[f]
  PROVE  PassKnows' /\ NoLostWakeup'
<1>1. NoLostWakeup'
  BY DEF NoLostWakeup
<1>2. PassKnows'
  <2> SUFFICES ASSUME server = "up", ~drain.again, NEW x \in drain'.seen
               PROVE  entry'[x] # "none" /\ (entry'[x] = "queued" => Seated(x)')
    BY DEF PassKnows
  <2>1. CASE x = e
    BY <2>1
  <2>2. CASE x # e
    <3>1. x \in drain.seen /\ x \in Entry
      BY <2>2 DEF IndInv, TypeOK
    <3>2. entry[x] # "none" /\ (entry[x] = "queued" => Seated(x))
      BY <3>1 DEF PassKnows
    <3>3. entry'[x] # "none" /\ (entry'[x] = "queued" => entry[x] = "queued")
      BY <2>2, <3>1, <3>2
    <3>4. ASSUME entry'[x] = "queued" PROVE Seated(x)'
      <4>1. Seated(x)
        BY <3>2, <3>3, <3>4
      <4>2. e \notin InBatchProducers(x)
        BY <4>1 DEF Seated
      <4>3. \A f \in InBatchProducers(x) : f \in Entry \ {e} /\ BatchOf[f] = BatchOf[x]
        BY <3>1, <4>2, ProducersAreAhead
      <4>4. \A f \in InBatchProducers(x) : entry'[f] = entry[f]
        BY <2>2, <3>1, <3>4, <4>3
      <4>5. batch'[BatchOf[x]] = batch[BatchOf[x]]
        BY <2>2, <3>1, <3>4
      <4> QED
        BY <3>1, <4>1, <4>4, <4>5, SeatedStays
    <3> QED
      BY <3>3, <3>4
  <2> QED
    BY <2>1, <2>2
<1> QED
  BY <1>1, <1>2

(* An entry's batch is completed only when nothing in it is outstanding. *)
LEMMA QueuedKeepsBatchRunning ==
  ASSUME TypeOK, NEW b \in Batch, NEW rowsOf \in [Entry -> EntryState],
         SettleBatch(b, rowsOf),
         NEW x \in Entry, rowsOf[x] = "queued"
  PROVE  batch'[BatchOf[x]] = batch[BatchOf[x]]
BY DEF SettleBatch, SettleBatchIfFinished, EntriesOf, Outstanding, TypeOK

(* The batch of a start that came to nothing is parked, and so are its rows. *)
LEMMA RefusalIsQuietElsewhere ==
  ASSUME TypeOK, NEW e \in Entry, PauseBatch(BatchOf[e], [entry EXCEPT ![e] = "failed"])
  PROVE  /\ entry'[e] = "failed"
         /\ \A x \in Entry \ {e} : entry'[x] = entry[x] \/ (entry[x] # "none" /\ entry'[x] = "paused")
         /\ \A x \in Entry : entry'[x] = "queued" => BatchOf[x] # BatchOf[e]
         /\ \A x \in Entry : BatchOf[x] # BatchOf[e] =>
              entry'[x] = entry[x] /\ batch'[BatchOf[x]] = batch[BatchOf[x]]
BY DEF PauseBatch, PauseRemainder, TypeOK

(* Settling a starting entry touches others only by parking or cancelling all   *)
(* that is left of its batch.                                                    *)
LEMMA SettlingIsQuietElsewhere ==
  ASSUME TypeOK, NEW e \in Entry, NEW end, SettleEntryFor(e, end)
  PROVE  /\ entry'[e] \in Settled
         /\ \A x \in Entry \ {e} : \/ entry'[x] = entry[x]
                                   \/ entry[x] # "none" /\ entry'[x] \in {"paused", "cancelled"}
         /\ \A x \in Entry \ {e} : entry'[x] = "queued" =>
              /\ batch'[BatchOf[x]] = batch[BatchOf[x]]
              /\ BatchOf[x] = BatchOf[e] =>
                   \A f \in Entry \ {e} : BatchOf[f] = BatchOf[e] => entry'[f] = entry[f]
              /\ BatchOf[x] # BatchOf[e] =>
                   \A f \in Entry : BatchOf[f] = BatchOf[x] => entry'[f] = entry[f]
<1>1. /\ entry'[e] \in Settled
      /\ \A x \in Entry \ {e} : \/ entry'[x] = entry[x]
                                \/ entry[x] # "none" /\ entry'[x] \in {"paused", "cancelled"}
  BY SettleEntryForMoves DEF Cancellable
<1>2. ASSUME NEW s \in Settled, PauseBatch(BatchOf[e], [entry EXCEPT ![e] = s]),
             NEW x \in Entry \ {e}, entry'[x] = "queued"
      PROVE  /\ BatchOf[x] # BatchOf[e] /\ batch'[BatchOf[x]] = batch[BatchOf[x]]
             /\ \A f \in Entry : BatchOf[f] = BatchOf[x] => entry'[f] = entry[f]
  BY <1>2 DEF PauseBatch, PauseRemainder, TypeOK
<1>3. ASSUME AbortBatch(BatchOf[e], [entry EXCEPT ![e] = "cancelled"]),
             NEW x \in Entry \ {e}, entry'[x] = "queued"
      PROVE  /\ BatchOf[x] # BatchOf[e] /\ batch'[BatchOf[x]] = batch[BatchOf[x]]
             /\ \A f \in Entry : BatchOf[f] = BatchOf[x] => entry'[f] = entry[f]
  BY <1>3 DEF AbortBatch, AbortRemainder, TypeOK, Cancellable
<1>4. ASSUME SettleBatch(BatchOf[e], [entry EXCEPT ![e] = "done"]),
             NEW x \in Entry \ {e}, entry'[x] = "queued"
      PROVE  /\ batch'[BatchOf[x]] = batch[BatchOf[x]]
             /\ \A f \in Entry \ {e} : entry'[f] = entry[f]
  <2>1. [entry EXCEPT ![e] = "done"] \in [Entry -> EntryState] /\ BatchOf[e] \in Batch
    BY DEF TypeOK, EntryState, Settled
  <2>2. [entry EXCEPT ![e] = "done"][x] = "queued"
    BY <1>4 DEF SettleBatch
  <2>3. batch'[BatchOf[x]] = batch[BatchOf[x]]
    BY <1>4, <2>1, <2>2, QueuedKeepsBatchRunning
  <2> QED
    BY <1>4, <2>3 DEF SettleBatch, TypeOK
<1> QED
  BY <1>1, <1>2, <1>3, <1>4 DEF SettleEntryFor, Settled

(* An entry found waiting is passed over like the ones before it: those of its  *)
(* producers that are queued came first in the queue, so they were seen.        *)
LEMMA WaitingIsSeated ==
  ASSUME IndInv, StartsInLoop, PassKnows, [Next]_vars, NEW e \in Entry, AdmitWaits(e)
  PROVE  PassKnows' /\ NoLostWakeup'
<1>0. TypeOK
  BY DEF IndInv
<1>1. /\ UNCHANGED <<batch, entry, server>>
      /\ drain' = [drain EXCEPT !.seen = @ \cup {e}]
      /\ drain.on /\ drain.cur = Nobody /\ Serving
      /\ HeadOfQueue(e)
      /\ batch[BatchOf[e]] = "running" /\ Waiting(e)
  BY DEF AdmitWaits, Declined, Seen, Consider, AtLoopHead
<1>2. drain'.on /\ drain'.again = drain.again /\ drain'.seen = drain.seen \cup {e}
  BY <1>0, <1>1 DEF TypeOK
<1>3. NoLostWakeup'
  BY <1>2 DEF NoLostWakeup
<1>4. Waiting(e)'
  BY <1>1, WaitingStays
<1>5. ASSUME NEW f \in InBatchProducers(e)
      PROVE  entry[f] # "starting" /\ (entry[f] = "queued" => f \in drain.seen)
  <2>1. f \in Entry /\ BatchOf[f] = BatchOf[e] /\ Position[f] < Position[e]
    BY ProducersAreAhead
  <2>2. entry[f] # "starting"
    BY <1>1, <2>1 DEF StartsInLoop
  <2>3. Before(f, e)
    BY <2>1 DEF Before
  <2>4. f \notin Candidates
    BY <1>1, <2>3 DEF HeadOfQueue
  <2> QED
    BY <2>1, <2>2, <2>4 DEF Candidates
<1>6. Seated(e)'
  BY <1>1, <1>2, <1>4, <1>5 DEF Seated
<1>7. PassKnows'
  <2> SUFFICES ASSUME server = "up", ~drain.again, NEW x \in drain.seen \cup {e}
               PROVE  entry[x] # "none" /\ (entry[x] = "queued" => Seated(x)')
    BY <1>1, <1>2 DEF PassKnows
  <2>1. CASE x = e
    BY <1>1, <1>6, <2>1 DEF HeadOfQueue, Candidates
  <2>2. CASE x # e
    <3>1. x \in Entry /\ entry[x] # "none" /\ (entry[x] = "queued" => Seated(x))
      BY <1>0, <1>1, <2>2 DEF PassKnows, TypeOK
    <3> QED
      BY <1>1, <1>2, <3>1, SeatedStays
  <2> QED
    BY <2>1, <2>2
<1> QED
  BY <1>3, <1>7

(* The other outcomes of an admission take the entry out of the queue. *)
LEMMA AdmissionPassesOver ==
  ASSUME IndInv, StartsInLoop, PassKnows, [Next]_vars, NEW e \in Entry,
         \/ AdmitDeclines(e) \/ AdmitAbandons(e) \/ AdmitReasks(e) \/ AdmitStarts(e)
  PROVE  PassKnows' /\ NoLostWakeup'
<1>0. TypeOK
  BY DEF IndInv
<1>1. Consider(e)
  BY DEF AdmitDeclines, AdmitAbandons, AdmitReasks, AdmitStarts
<1>2. entry[e] = "queued" /\ e \notin drain.seen /\ drain.on
  BY <1>1 DEF Consider, AtLoopHead, HeadOfQueue, Candidates
<1>3. /\ drain'.on /\ drain'.again = drain.again /\ drain'.seen = drain.seen \cup {e}
      /\ server' = server
  BY <1>0, <1>2 DEF AdmitDeclines, AdmitAbandons, AdmitReasks, AdmitStarts, Seen, Declined, TypeOK
<1>4. /\ entry'[e] \notin {"none", "queued"}
      /\ \A x \in Entry \ {e} : entry'[x] = entry[x]
  BY <1>0 DEF AdmitDeclines, AdmitAbandons, AdmitReasks, AdmitStarts, SettleBatch, TypeOK
<1>5. ASSUME NEW x \in Entry \ {e}, entry'[x] = "queued"
      PROVE  batch'[BatchOf[x]] = batch[BatchOf[x]]
  <2>1. CASE AdmitAbandons(e)
    <3>1. [entry EXCEPT ![e] = "cancelled"] \in [Entry -> EntryState] /\ BatchOf[e] \in Batch
      BY <1>0 DEF TypeOK, EntryState, Settled
    <3>2. [entry EXCEPT ![e] = "cancelled"][x] = "queued"
      BY <1>0, <1>4, <1>5 DEF TypeOK
    <3> QED
      BY <1>0, <2>1, <3>1, <3>2, QueuedKeepsBatchRunning DEF AdmitAbandons
  <2>2. CASE ~AdmitAbandons(e)
    BY <2>2 DEF AdmitDeclines, AdmitReasks, AdmitStarts
  <2> QED
    BY <2>1, <2>2
<1>6. \A x \in Entry \ {e} : entry'[x] = "queued" =>
        /\ batch'[BatchOf[x]] = batch[BatchOf[x]]
        /\ BatchOf[x] = BatchOf[e] => \A f \in Entry \ {e} : BatchOf[f] = BatchOf[e] => entry'[f] = entry[f]
        /\ BatchOf[x] # BatchOf[e] => \A f \in Entry : BatchOf[f] = BatchOf[x] => entry'[f] = entry[f]
  BY <1>4, <1>5
<1> QED
  BY <1>2, <1>3, <1>4, <1>6, PassedOverStay

(* A slot cannot free itself by a session starting. *)
LEMMA StartingTakesASlot ==
  ASSUME TypeOK, IsFiniteSet(Live), IsFiniteSet(Live'), NEW e \in Entry, StartSession(e)
  PROVE  RunningCount' >= RunningCount
<1>1. Live \subseteq Live'
  BY DEF StartSession, Live, TypeOK
<1>2. /\ Cardinality(Live) <= Cardinality(Live')
      /\ Cardinality(Live) \in Nat /\ Cardinality(Live') \in Nat
  BY <1>1, FS_Subset, FS_CardinalityType
<1> QED
  BY <1>2 DEF StartSession, RunningCount, TypeOK

(* An entry that was starting and came to nothing parks what was left. *)
LEMMA RefusalPassesOver ==
  ASSUME IndInv, StartsInLoop, PassKnows, [Next]_vars, NEW e \in Entry,
         Serving, server' = server, Drained(e), EntryRefused(e)
  PROVE  PassKnows' /\ NoLostWakeup'
<1>0. TypeOK
  BY DEF IndInv
<1>1. /\ PauseBatch(BatchOf[e], [entry EXCEPT ![e] = "failed"])
      /\ drain' = [drain EXCEPT !.cur = Nobody]
      /\ drain.on /\ entry[e] = "starting"
  BY DEF EntryRefused, Drained, StartsInLoop
<1>2. drain'.on /\ drain'.again = drain.again /\ drain'.seen = drain.seen
  BY <1>0, <1>1 DEF TypeOK
<1>3. /\ entry'[e] \notin {"none", "queued"}
      /\ \A x \in Entry \ {e} : \/ entry'[x] = entry[x]
                                \/ entry[x] # "none" /\ entry'[x] \in {"paused", "cancelled"}
  BY <1>0, <1>1, RefusalIsQuietElsewhere
<1>4. \A x \in Entry \ {e} : entry'[x] = "queued" =>
        /\ batch'[BatchOf[x]] = batch[BatchOf[x]]
        /\ BatchOf[x] = BatchOf[e] => \A f \in Entry \ {e} : BatchOf[f] = BatchOf[e] => entry'[f] = entry[f]
        /\ BatchOf[x] # BatchOf[e] => \A f \in Entry : BatchOf[f] = BatchOf[x] => entry'[f] = entry[f]
  BY <1>0, <1>1, RefusalIsQuietElsewhere
<1> QED
  BY <1>1, <1>2, <1>3, <1>4, PassedOverStay

(* Binding a start that succeeded settles at most the entry itself, and what is  *)
(* left of its batch if its session has already ended.                           *)
LEMMA BindingPassesOver ==
  ASSUME IndInv, StartsInLoop, PassKnows, [Next]_vars, NEW e \in Entry, BindEntry(e)
  PROVE  PassKnows' /\ NoLostWakeup'
<1>0. TypeOK /\ AttemptsAgree
  BY DEF IndInv
<1>1. /\ entry[e] = "starting" /\ drain.on /\ server' = server
      /\ drain' = [drain EXCEPT !.cur = Nobody]
  BY <1>0 DEF BindEntry, AttemptsAgree, StartsInLoop
<1>2. drain'.on /\ drain'.again = drain.again /\ drain'.seen = drain.seen
  BY <1>0, <1>1 DEF TypeOK
<1>3. CASE sess[e] = "live"
  <2>1. /\ batch' = batch /\ entry'[e] = "running"
        /\ \A x \in Entry \ {e} : entry'[x] = entry[x]
    BY <1>0, <1>3 DEF BindEntry, TypeOK
  <2> QED
    BY <1>1, <1>2, <2>1, PassedOverStay
<1>4. CASE sess[e] # "live"
  <2>1. SettleEntryFor(e, sess[e])
    BY <1>4 DEF BindEntry
  <2>2. /\ entry'[e] \notin {"none", "queued"}
        /\ \A x \in Entry \ {e} : \/ entry'[x] = entry[x]
                                  \/ entry[x] # "none" /\ entry'[x] \in {"paused", "cancelled"}
    BY <1>0, <2>1, SettlingIsQuietElsewhere DEF Settled
  <2>3. \A x \in Entry \ {e} : entry'[x] = "queued" =>
          /\ batch'[BatchOf[x]] = batch[BatchOf[x]]
          /\ BatchOf[x] = BatchOf[e] => \A f \in Entry \ {e} : BatchOf[f] = BatchOf[e] => entry'[f] = entry[f]
          /\ BatchOf[x] # BatchOf[e] => \A f \in Entry : BatchOf[f] = BatchOf[x] => entry'[f] = entry[f]
    BY <1>0, <2>1, SettlingIsQuietElsewhere
  <2> QED
    BY <1>1, <1>2, <2>2, <2>3, PassedOverStay
<1> QED
  BY <1>3, <1>4

(* Every step keeps what the loop knows, and leaves a queued entry unadmitted    *)
(* only for a reason.                                                            *)
LEMMA WakeNext ==
  IndInv /\ WakeInv /\ [Next]_vars => PassKnows' /\ NoLostWakeup'
<1> SUFFICES ASSUME IndInv, WakeInv, [Next]_vars PROVE PassKnows' /\ NoLostWakeup'
  OBVIOUS
<1>0. /\ TypeOK /\ RowsAgree /\ AttemptsAgree
      /\ StartsInLoop /\ PassKnows /\ NoLostWakeup /\ IsFiniteSet(Live) /\ IsFiniteSet(Live')
  BY LiveFiniteNext DEF IndInv, WakeInv
<1>a. ASSUME server' # "up" PROVE PassKnows' /\ NoLostWakeup'
  BY <1>a DEF PassKnows, NoLostWakeup
<1>b. ASSUME server' = server, drain' = drain, batch' = batch, entry' = entry,
             RunningCount' < limit' /\ unpublished' = {} => RunningCount < limit /\ unpublished = {}
      PROVE  PassKnows' /\ NoLostWakeup'
  BY <1>0, <1>b, QuietStep
<1>c. ASSUME UNCHANGED <<sess, outside>> PROVE RunningCount' = RunningCount
  BY <1>c DEF RunningCount, Live
<1>1. ASSUME NEW b \in Batch, Initiate(b) PROVE PassKnows' /\ NoLostWakeup'
  BY <1>0, <1>1, RequestedPass DEF Initiate
<1>2. ASSUME NEW b \in Batch, RunOneNow(b) PROVE PassKnows' /\ NoLostWakeup'
  BY <1>2, <1>b, <1>c DEF RunOneNow
<1>3. ASSUME NEW b \in Batch, RunOneQueued(b) PROVE PassKnows' /\ NoLostWakeup'
  <2>1. /\ server' = server /\ drain' = drain /\ RunningCount' = RunningCount /\ limit' = limit
        /\ RunningCount >= limit
        /\ batch' = [batch EXCEPT ![b] = "running"]
        /\ \A x \in Entry : BatchOf[x] # b => entry'[x] = entry[x]
    BY <1>c, <1>3 DEF RunOneQueued, Enqueue, volatile
  <2>2. RunningCount \in Int /\ limit \in Int
    BY <1>0, FS_CardinalityType DEF RunningCount, TypeOK
  <2>3. NoLostWakeup'
    BY <2>1, <2>2 DEF NoLostWakeup
  <2>4. PassKnows'
    <3> SUFFICES ASSUME server = "up", drain.on, ~drain.again, NEW x \in drain.seen
                 PROVE  entry'[x] # "none" /\ (entry'[x] = "queued" => Seated(x)')
      BY <2>1 DEF PassKnows
    <3>1. x \in Entry /\ entry[x] # "none" /\ (entry[x] = "queued" => Seated(x))
      BY <1>0 DEF PassKnows, TypeOK
    <3>2. BatchOf[x] # b
      BY <1>0, <1>3, <3>1 DEF RunOneQueued, RowsAgree
    <3>3. entry'[x] = entry[x] /\ batch'[BatchOf[x]] = batch[BatchOf[x]]
      BY <1>0, <2>1, <3>1, <3>2 DEF TypeOK
    <3>4. \A f \in InBatchProducers(x) : entry'[f] = entry[f]
      BY <2>1, <3>1, <3>2, ProducersAreAhead
    <3> QED
      BY <2>1, <3>1, <3>3, <3>4, SeatedStays
  <2> QED
    BY <2>3, <2>4
<1>4. ASSUME NEW b \in Batch, ResumeBatch(b) PROVE PassKnows' /\ NoLostWakeup'
  BY <1>0, <1>4, RequestedPass DEF ResumeBatch
<1>5. ASSUME NEW b \in Batch, ResumeSettles(b) PROVE PassKnows' /\ NoLostWakeup'
  <2>1. entry \in [Entry -> EntryState]
    BY <1>0 DEF TypeOK
  <2>2. /\ SettleBatch(b, entry) /\ entry' = entry /\ server' = server /\ drain' = drain
        /\ RunningCount' = RunningCount /\ UNCHANGED <<limit, unpublished>>
    BY <1>c, <1>5 DEF ResumeSettles, SettleBatch
  <2>3. \A x \in Entry : entry[x] = "queued" => batch'[BatchOf[x]] = batch[BatchOf[x]]
    BY <1>0, <2>1, <2>2, QueuedKeepsBatchRunning
  <2> QED
    BY <1>0, <2>2, <2>3, QuietStep
<1>6. ASSUME NEW e \in Entry, Cancel(e) PROVE PassKnows' /\ NoLostWakeup'
  BY <1>0, <1>6, RequestedPass DEF Cancel
<1>7. ASSUME NEW e \in Entry, Confirm(e) PROVE PassKnows' /\ NoLostWakeup'
  <2>1. CASE RequestDrain
    BY <1>0, <1>7, <2>1, RequestedPass DEF Confirm
  <2>2. CASE ~RequestDrain
    <3>1. /\ \A x \in Entry : entry'[x] = entry[x] \/ (entry[x] # "none" /\ entry'[x] = "paused")
          /\ server' = server /\ drain' = drain /\ batch' = batch
          /\ RunningCount' = RunningCount /\ UNCHANGED <<limit, unpublished>>
      BY <1>0, <1>c, <1>7, <2>2 DEF Confirm, TypeOK
    <3> QED
      BY <1>0, <3>1, QuietStep
  <2> QED
    BY <2>1, <2>2
<1>8. ASSUME NEW n \in Limits, SetConcurrencyLimit(n) PROVE PassKnows' /\ NoLostWakeup'
  <2>1. CASE n > limit
    BY <1>0, <1>8, <2>1, RequestedPass DEF SetConcurrencyLimit
  <2>2. CASE ~(n > limit)
    <3>1. RunningCount \in Int /\ limit \in Int /\ n \in Int
      BY <1>0, FS_CardinalityType DEF RunningCount, TypeOK
    <3>2. /\ server' = server /\ drain' = drain /\ batch' = batch /\ entry' = entry
          /\ RunningCount' = RunningCount /\ unpublished' = unpublished /\ limit' = n
      BY <1>c, <1>8, <2>2 DEF SetConcurrencyLimit, rows
    <3> QED
      BY <1>b, <2>2, <3>1, <3>2
  <2> QED
    BY <2>1, <2>2
<1>9. ASSUME NEW s \in Editable, Edit(s) PROVE PassKnows' /\ NoLostWakeup'
  BY <1>9, <1>b, <1>c DEF Edit, rows, volatile
<1>10. CASE DrainPassEnds
  <2>1. CASE drain.again /\ server = "up"
    BY <1>10, <2>1, AnotherPass DEF DrainPassEnds, NewPass
  <2>2. CASE ~(drain.again /\ server = "up")
    <3>1. /\ drain' = Idle /\ ~drain'.on /\ UNCHANGED <<batch, entry, unpublished, limit, server>>
          /\ RunningCount' = RunningCount
      BY <1>c, <1>10, <2>2 DEF DrainPassEnds, rows, Idle
    <3>2. PassKnows'
      BY <3>1 DEF PassKnows
    <3>3. NoLostWakeup'
      <4> SUFFICES ASSUME server = "up", RunningCount < limit, NEW x \in Entry, entry[x] = "queued"
                   PROVE  batch[BatchOf[x]] = "running" /\ Waiting(x)'
        BY <3>1 DEF NoLostWakeup
      <4>1. x \in drain.seen
        BY <1>10 DEF DrainPassEnds, MayAdmit, Candidates
      <4>2. Seated(x)
        BY <1>0, <1>10, <2>2, <4>1 DEF PassKnows, DrainPassEnds, AtLoopHead
      <4> QED
        BY <3>1, <4>2, WaitingStays DEF Seated
    <3> QED
      BY <3>2, <3>3
  <2> QED
    BY <2>1, <2>2
<1>11. ASSUME NEW e \in Entry, AdmitDeclines(e) \/ AdmitAbandons(e) \/ AdmitReasks(e) \/ AdmitStarts(e)
       PROVE  PassKnows' /\ NoLostWakeup'
  BY <1>0, <1>11, AdmissionPassesOver
<1>12. ASSUME NEW e \in Entry, AdmitWaits(e) PROVE PassKnows' /\ NoLostWakeup'
  BY <1>0, <1>12, WaitingIsSeated
<1>13. ASSUME NEW e \in Entry, AssembleRun(e) PROVE PassKnows' /\ NoLostWakeup'
  BY <1>13, <1>b, <1>c DEF AssembleRun, rows
<1>14. ASSUME NEW e \in Entry, StartSession(e) PROVE PassKnows' /\ NoLostWakeup'
  <2>1. RunningCount' >= RunningCount
    BY <1>0, <1>14, StartingTakesASlot
  <2>2. RunningCount \in Int /\ limit \in Int /\ RunningCount' \in Int
    <3>1. outside \in Int /\ limit \in Int /\ outside' = outside
      BY <1>0, <1>14 DEF StartSession, TypeOK
    <3> QED
      BY <1>0, <3>1, FS_CardinalityType DEF RunningCount
  <2> QED
    BY <1>14, <1>b, <2>1, <2>2 DEF StartSession
<1>15. ASSUME NEW e \in Entry, AttemptFails(e) \/ StartRefusedLate(e) PROVE PassKnows' /\ NoLostWakeup'
  <2>1. /\ Serving /\ server' = server /\ EntryRefused(e)
        /\ UNCHANGED <<sess, limit, unpublished>> /\ outside' \in {outside, outside + 1}
    BY <1>15 DEF AttemptFails, StartRefusedLate
  <2>2. CASE Drained(e)
    BY <1>0, <2>1, <2>2, RefusalPassesOver
  <2>3. CASE ~Drained(e)
    <3>1. RunningCount' \in {RunningCount, RunningCount + 1}
      <4>1. Cardinality(Live) \in Int /\ outside \in Int
        BY <1>0, FS_CardinalityType DEF TypeOK
      <4> QED
        BY <2>1, <4>1 DEF RunningCount, Live
    <3>2. RunningCount \in Int /\ limit \in Int
      BY <1>0, FS_CardinalityType DEF RunningCount, TypeOK
    <3> QED
      BY <1>b, <2>1, <2>3, <3>1, <3>2 DEF EntryRefused
  <2> QED
    BY <2>2, <2>3
<1>16. ASSUME NEW e \in Entry, BindEntry(e) PROVE PassKnows' /\ NoLostWakeup'
  BY <1>0, <1>16, BindingPassesOver
<1>17. ASSUME NEW e \in Entry, NEW end, OnEvent(e, end), server' = server
       PROVE  PassKnows' /\ NoLostWakeup'
  BY <1>0, <1>17, <1>a, RequestedPass DEF OnEvent
<1>18. ASSUME NEW e \in Entry, NEW end, SessionEnds(e, end) PROVE PassKnows' /\ NoLostWakeup'
  BY <1>17, <1>18 DEF SessionEnds
<1>19. ASSUME NEW e \in Entry, PublishEnd(e) \/ DriverPublishesEnd(e) PROVE PassKnows' /\ NoLostWakeup'
  BY <1>17, <1>19 DEF PublishEnd, DriverPublishesEnd
<1>20. ASSUME NEW e \in Entry, NEW end, StopSession(e, end) PROVE PassKnows' /\ NoLostWakeup'
  <2>1. unpublished' # {}
    BY <1>20 DEF StopSession
  <2> QED
    BY <1>20, <1>b, <2>1 DEF StopSession
<1>21. CASE OutsideStarts
  <2>1. RunningCount' = RunningCount + 1 /\ RunningCount \in Int /\ limit \in Int
    <3>1. Cardinality(Live) \in Int /\ outside \in Int /\ limit \in Int
      BY <1>0, FS_CardinalityType DEF TypeOK
    <3>2. Live' = Live /\ outside' = outside + 1
      BY <1>21 DEF OutsideStarts, rows, Live
    <3> QED
      BY <3>1, <3>2 DEF RunningCount
  <2> QED
    BY <1>21, <1>b, <2>1 DEF OutsideStarts, rows, volatile
<1>22. CASE OutsideEnds
  BY <1>0, <1>22, <1>a, RequestedPass DEF OutsideEnds
<1>23. CASE StopQueue \/ ShutdownEnds \/ Crash \/ RecoverFromRestart
  BY <1>23, <1>a DEF StopQueue, ShutdownEnds, Crash, RecoverFromRestart
<1>24. ASSUME NEW e \in Entry, ShutdownInterrupts(e) \/ Reconcile(e) PROVE PassKnows' /\ NoLostWakeup'
  BY <1>24, <1>a DEF ShutdownInterrupts, Reconcile
<1>25. CASE Reconciled
  BY <1>25, AnotherPass DEF Reconciled, NewPass
<1>26. CASE UNCHANGED vars
  BY <1>26, <1>b, <1>c DEF vars, rows, volatile
<1> QED
  BY <1>1, <1>2, <1>3, <1>4, <1>5, <1>6, <1>7, <1>8, <1>9, <1>10, <1>11, <1>12, <1>13, <1>14,
     <1>15, <1>16, <1>18, <1>19, <1>20, <1>21, <1>22, <1>23, <1>24, <1>25, <1>26
     DEF Next, Gesture, DrainStep, RunPathStep, SessionStep, ServerStep, ServerProceeds

LEMMA WakeInductive == Spec => [](IndInv /\ WakeInv)
<1>1. Init => WakeInv
  <2> SUFFICES ASSUME Init PROVE WakeInv
    OBVIOUS
  <2>1. Live = {}
    BY DEF Init, Live
  <2>2. IsFiniteSet(Live)
    BY <2>1, FS_EmptySet
  <2> QED
    BY <2>2 DEF Init, WakeInv, StartsInLoop, PassKnows, NoLostWakeup, Idle
<1>2. IndInv /\ WakeInv /\ [Next]_vars => WakeInv'
  BY StartsInLoopNext, LiveFiniteNext, WakeNext DEF WakeInv
<1> QED
  BY Inductive, <1>1, <1>2, PTL DEF Spec

(* With the loop idle, a slot free and no end left to publish, what is still     *)
(* queued waits for a producer in its batch: no call of drain() is lost, however *)
(* the calls interleave with the loop's awaits (queue.ts drain's #drainAgain).   *)
THEOREM NoLostWakeupHolds == Spec => []NoLostWakeup
<1>1. WakeInv => NoLostWakeup
  BY DEF WakeInv
<1> QED
  BY WakeInductive, <1>1, PTL

(* An entry starts ahead of an earlier one only if that one waits for a producer *)
(* or another pass has been requested (run-queue-store.ts waiting's order, and   *)
(* the set of those a pass has passed over).                                     *)
THEOREM AdmissionOrderHolds == Spec => AdmissionOrder
<1>1. ASSUME IndInv, WakeInv, [Next]_vars, NEW e \in Entry, NEW f \in Entry,
             entry[e] = "queued", entry'[e] = "starting", entry[f] = "queued", Before(f, e)
      PROVE  Waiting(f) \/ drain.again
  <2>1. AdmitStarts(e)
    BY <1>1, EntryMoves DEF IndInv, Moves, Started
  <2>2. server = "up" /\ drain.on /\ HeadOfQueue(e)
    BY <2>1 DEF AdmitStarts, Consider, AtLoopHead, MayAdmit
  <2>3. f \in drain.seen
    BY <1>1, <2>2 DEF HeadOfQueue, Candidates
  <2> QED
    BY <1>1, <2>2, <2>3 DEF WakeInv, PassKnows, Seated
<1>2. IndInv /\ WakeInv /\ [Next]_vars =>
        [\A e \in Entry : entry[e] = "queued" /\ entry'[e] = "starting" =>
           \A f \in Entry : entry[f] = "queued" /\ Before(f, e) => Waiting(f) \/ drain.again]_vars
  BY <1>1
<1> QED
  BY WakeInductive, <1>2, PTL DEF Spec, AdmissionOrder

-----------------------------------------------------------------------------
(* What was cancelled did no work.  Until the first crash, whatever can still be *)
(* cancelled has a free key and has never been started: a start takes the entry  *)
(* out of the cancellable states before it takes the key.                        *)
Untouched(e) == init[e] = "free" /\ attempt[e] = "none" /\ sess[e] = "none"

(* NeverRan, entry by entry. *)
Clean(e) ==
  /\ entry[e] \in Cancellable => Untouched(e)
  /\ entry[e] = "none" /\ ~IsSingle(BatchOf[e]) => Untouched(e)
  /\ entry[e] = "running" => attempt[e] = "none"
  /\ entry[e] = "cancelled" => attempt[e] = "none" /\ sess[e] \in {"none", "stopped"}
  /\ attempt[e] # "refused"

NeverRan == crashes = 0 => server = "up" /\ \A e \in Entry : Clean(e)

(* Row updates that start nothing keep it. *)
LEMMA RowsKeepNeverRan ==
  ASSUME NeverRan, UNCHANGED <<init, attempt, sess, server, crashes>>,
         \A x \in Entry :
           \/ entry'[x] = entry[x]
           \/ entry[x] \in Cancellable /\ entry'[x] \in Cancellable \cup {"cancelled"}
           \/ entry[x] = "none" /\ ~IsSingle(BatchOf[x])
           \/ entry'[x] \in {"starting", "failed", "interrupted", "done"}
  PROVE  NeverRan'
BY DEF NeverRan, Clean, Untouched, IsSingle, EntriesOf, Cancellable

(* A session's end settles its entry as cancelled only if it was stopped. *)
LEMMA SettledByEnd ==
  ASSUME TypeOK, NEW e \in Entry, NEW end, SettleEntryFor(e, end)
  PROVE  /\ entry'[e] \in {"failed", "interrupted", "cancelled", "done"}
         /\ entry'[e] = "cancelled" => end = "stopped"
         /\ \A x \in Entry \ {e} :
              \/ entry'[x] = entry[x]
              \/ entry[x] \in Cancellable /\ entry'[x] \in Cancellable \cup {"cancelled"}
BY DEF SettleEntryFor, PauseBatch, PauseRemainder, AbortBatch, AbortRemainder, SettleBatch,
       TypeOK, Cancellable

(* ... whether the event or the look-back finds it. *)
LEMMA EndKeepsNeverRan ==
  ASSUME TypeOK, NeverRan, NEW e \in Entry, SettleEntryFor(e, sess'[e]),
         UNCHANGED <<init, server, crashes>>,
         entry[e] \in {"starting", "running"},
         attempt'[e] = "none",
         \A x \in Entry \ {e} : attempt'[x] = attempt[x] /\ sess'[x] = sess[x]
  PROVE  NeverRan'
<1> SUFFICES ASSUME crashes = 0 PROVE NeverRan'
  BY DEF NeverRan
<1>1. /\ entry'[e] \in {"failed", "interrupted", "cancelled", "done"}
      /\ entry'[e] = "cancelled" => sess'[e] = "stopped"
      /\ \A x \in Entry \ {e} :
              \/ entry'[x] = entry[x]
              \/ entry[x] \in Cancellable /\ entry'[x] \in Cancellable \cup {"cancelled"}
  BY SettledByEnd
<1>2. ASSUME NEW x \in Entry, Clean(x) PROVE Clean(x)'
  <2>1. CASE x = e
    BY <1>1, <2>1 DEF Clean, Cancellable
  <2>2. CASE x # e
    BY <1>1, <1>2, <2>2 DEF Clean, Untouched, Cancellable
  <2> QED
    BY <2>1, <2>2
<1> QED
  BY <1>2 DEF NeverRan

(* No step gives a session to what can still be cancelled. *)
LEMMA NeverRanNext ==
  IndInv /\ NeverRan /\ [Next]_vars => NeverRan'
<1> SUFFICES ASSUME IndInv, NeverRan, [Next]_vars PROVE NeverRan'
  OBVIOUS
<1>0. TypeOK /\ RowsAgree /\ AttemptsAgree
  BY DEF IndInv
<1>a. ASSUME crashes' # 0 PROVE NeverRan'
  BY <1>a DEF NeverRan
<1>b. ASSUME UNCHANGED <<entry, init, attempt, sess, server, crashes>> PROVE NeverRan'
  BY <1>b, RowsKeepNeverRan
<1>c. server # "up" => crashes # 0
  BY DEF NeverRan
<1>1. ASSUME NEW b \in Batch, Initiate(b) PROVE NeverRan'
  <2>1. \A x \in Entry : entry'[x] = entry[x] \/ (entry[x] = "none" /\ ~IsSingle(BatchOf[x]))
    BY <1>0, <1>1 DEF Initiate, Enqueue, RowsAgree, TypeOK
  <2> QED
    BY <1>1, <2>1, RowsKeepNeverRan DEF Initiate
<1>2. ASSUME NEW b \in Batch, RunOneNow(b) PROVE NeverRan'
  <2>1. PICK e \in EntriesOf(b) : init[e] \in {"free", "settled"} /\ ClaimInitiation(e)
    BY <1>2 DEF RunOneNow
  <2>2. e \in Entry /\ entry[e] = "none" /\ IsSingle(BatchOf[e])
    BY <1>0, <1>2, <2>1 DEF RunOneNow, EntriesOf, RowsAgree
  <2>3. /\ attempt'[e] \in {"workspace", "none"}
        /\ \A x \in Entry \ {e} : init'[x] = init[x] /\ attempt'[x] = attempt[x]
    BY <1>0, <2>1, <2>2 DEF ClaimInitiation, TypeOK
  <2>4. UNCHANGED <<entry, sess, server, crashes>>
    BY <1>2 DEF RunOneNow
  <2> QED
    <3>1. ASSUME NEW x \in Entry, Clean(x) PROVE Clean(x)'
      BY <1>0, <2>2, <2>3, <2>4, <3>1 DEF Clean, Untouched, Cancellable
    <3> QED
      BY <2>4, <3>1 DEF NeverRan
<1>3. ASSUME NEW b \in Batch, RunOneQueued(b) PROVE NeverRan'
  <2>1. ASSUME NEW x \in Entry, crashes = 0
        PROVE  entry'[x] = entry[x] \/ (entry'[x] = "queued" /\ Untouched(x))
    <3>1. CASE BatchOf[x] = b
      <4>1. init[x] = "free" /\ entry[x] = "none" /\ entry'[x] = "queued"
        BY <1>0, <1>3, <3>1 DEF RunOneQueued, Enqueue, EntriesOf, RowsAgree
      <4>2. sess[x] = "none" /\ attempt[x] = "none"
        BY <1>0, <2>1, <4>1 DEF AttemptsAgree, NeverRan, Clean, TypeOK
      <4> QED
        BY <4>1, <4>2 DEF Untouched
    <3>2. CASE BatchOf[x] # b
      <4>1. entry' = [y \in Entry |-> IF BatchOf[y] = b THEN "queued" ELSE entry[y]]
        BY <1>3 DEF RunOneQueued, Enqueue
      <4> QED
        BY <3>2, <4>1
    <3> QED
      BY <3>1, <3>2
  <2>2. UNCHANGED <<init, attempt, sess, server, crashes>>
    BY <1>3 DEF RunOneQueued, volatile
  <2>3. ASSUME NEW x \in Entry, crashes = 0, Clean(x) PROVE Clean(x)'
    BY <2>1, <2>2, <2>3 DEF Clean, Untouched, Cancellable
  <2> QED
    BY <2>2, <2>3 DEF NeverRan
<1>4. ASSUME NEW b \in Batch, ResumeBatch(b) PROVE NeverRan'
  <2>1. \A x \in Entry : entry'[x] = entry[x] \/ (entry[x] \in Cancellable /\ entry'[x] \in Cancellable)
    BY <1>4 DEF ResumeBatch, Cancellable
  <2> QED
    BY <1>4, <2>1, RowsKeepNeverRan DEF ResumeBatch
<1>5. ASSUME NEW b \in Batch, ResumeSettles(b) PROVE NeverRan'
  BY <1>5, <1>b DEF ResumeSettles, SettleBatch
<1>6. ASSUME NEW e \in Entry, Cancel(e) PROVE NeverRan'
  <2>1. \A x \in Entry : entry'[x] = entry[x] \/ (entry[x] \in Cancellable /\ entry'[x] = "cancelled")
    BY <1>0, <1>6 DEF Cancel, SettleBatch, TypeOK
  <2> QED
    BY <1>6, <2>1, RowsKeepNeverRan DEF Cancel
<1>7. ASSUME NEW e \in Entry, Confirm(e) PROVE NeverRan'
  <2>1. \A x \in Entry : entry'[x] = entry[x] \/ (entry[x] \in Cancellable /\ entry'[x] \in Cancellable)
    BY <1>0, <1>7 DEF Confirm, Cancellable, TypeOK
  <2> QED
    BY <1>7, <2>1, RowsKeepNeverRan DEF Confirm
<1>8. CASE (\E n \in Limits : SetConcurrencyLimit(n)) \/ (\E s \in Editable : Edit(s)) \/ DrainPassEnds
  BY <1>8, <1>b DEF SetConcurrencyLimit, Edit, DrainPassEnds, rows, volatile
<1>11. ASSUME NEW e \in Entry, AdmitDeclines(e) \/ AdmitWaits(e) \/ AdmitAbandons(e) \/ AdmitReasks(e)
       PROVE  NeverRan'
  <2>1. entry[e] = "queued"
    BY <1>11 DEF AdmitDeclines, AdmitWaits, AdmitAbandons, AdmitReasks, Consider, HeadOfQueue, Candidates
  <2>2. \A x \in Entry : \/ entry'[x] = entry[x]
                         \/ entry[x] \in Cancellable /\ entry'[x] \in Cancellable \cup {"cancelled"}
    BY <1>0, <1>11, <2>1
       DEF AdmitDeclines, AdmitWaits, AdmitAbandons, AdmitReasks, SettleBatch, Cancellable, TypeOK
  <2>3. UNCHANGED <<init, attempt, sess, server, crashes>>
    BY <1>11 DEF AdmitDeclines, AdmitWaits, AdmitAbandons, AdmitReasks, Declined
  <2> QED
    BY <2>2, <2>3, RowsKeepNeverRan
<1>15. ASSUME NEW e \in Entry, AdmitStarts(e), crashes' = 0 PROVE NeverRan'
  <2>1. /\ entry[e] = "queued" /\ entry' = [entry EXCEPT ![e] = "starting"]
        /\ UNCHANGED <<sess, server, crashes>> /\ ClaimInitiation(e)
    BY <1>15 DEF AdmitStarts, Consider, HeadOfQueue, Candidates
  <2>2. init[e] = "free"
    BY <1>15, <2>1 DEF NeverRan, Clean, Untouched, Cancellable
  <2>3. /\ attempt'[e] = "workspace" /\ entry'[e] = "starting"
        /\ \A x \in Entry \ {e} : init'[x] = init[x] /\ attempt'[x] = attempt[x] /\ entry'[x] = entry[x]
    BY <1>0, <2>1, <2>2 DEF ClaimInitiation, TypeOK
  <2>4. ASSUME NEW x \in Entry, Clean(x) PROVE Clean(x)'
    BY <2>1, <2>3, <2>4 DEF Clean, Untouched, IsSingle, EntriesOf, Cancellable
  <2> QED
    BY <1>15, <2>1, <2>4 DEF NeverRan
<1>16. ASSUME NEW e \in Entry, AssembleRun(e) \/ StartSession(e), crashes' = 0 PROVE NeverRan'
  <2>1. /\ attempt[e] \in {"workspace", "runtime"} /\ UNCHANGED <<entry, server, crashes>>
        /\ attempt'[e] # "refused"
        /\ \A x \in Entry \ {e} : init'[x] = init[x] /\ attempt'[x] = attempt[x] /\ sess'[x] = sess[x]
    BY <1>0, <1>16 DEF AssembleRun, StartSession, rows, TypeOK
  <2>2. /\ entry[e] \notin Cancellable \cup {"running", "cancelled"}
        /\ entry[e] = "none" => IsSingle(BatchOf[e])
    BY <1>16, <2>1 DEF NeverRan, Clean, Untouched
  <2> QED
    BY <2>1, <2>2 DEF NeverRan, Clean, Untouched, IsSingle, EntriesOf, Cancellable
<1>18. ASSUME NEW e \in Entry, AttemptFails(e) \/ StartRefusedLate(e), crashes' = 0 PROVE NeverRan'
  <2>1. /\ attempt[e] \in {"workspace", "runtime", "refused"} /\ UNCHANGED <<sess, server, crashes>>
        /\ attempt'[e] = "none"
        /\ \A x \in Entry \ {e} : init'[x] = init[x] /\ attempt'[x] = attempt[x]
        /\ EntryRefused(e)
    BY <1>0, <1>18 DEF AttemptFails, StartRefusedLate, TypeOK
  <2>2. /\ entry[e] \notin Cancellable \cup {"running", "cancelled"}
        /\ entry[e] = "none" => IsSingle(BatchOf[e])
    BY <1>18, <2>1 DEF NeverRan, Clean, Untouched
  <2>3. /\ entry'[e] \in {entry[e], "failed"}
        /\ \A x \in Entry \ {e} : entry'[x] = entry[x] \/ (entry[x] = "queued" /\ entry'[x] = "paused")
    BY <1>0, <2>1 DEF EntryRefused, PauseBatch, PauseRemainder, TypeOK
  <2> QED
    <3>1. ASSUME NEW x \in Entry, Clean(x) PROVE Clean(x)'
      <4>1. CASE x = e
        BY <2>1, <2>2, <2>3, <3>1, <4>1 DEF Clean, Untouched, Cancellable
      <4>2. CASE x # e
        BY <2>1, <2>3, <3>1, <4>2 DEF Clean, Untouched, Cancellable
      <4> QED
        BY <4>1, <4>2
    <3> QED
      BY <2>1, <3>1 DEF NeverRan
<1>19. ASSUME NEW e \in Entry, BindEntry(e), crashes' = 0 PROVE NeverRan'
  <2>1. /\ entry[e] = "starting" /\ UNCHANGED <<init, sess, server, crashes>>
        /\ attempt'[e] = "none" /\ \A x \in Entry \ {e} : attempt'[x] = attempt[x]
    BY <1>0, <1>19 DEF BindEntry, AttemptsAgree, TypeOK
  <2>2. CASE sess[e] = "live"
    <3>1. entry'[e] = "running" /\ \A x \in Entry \ {e} : entry'[x] = entry[x]
      BY <1>0, <1>19, <2>2 DEF BindEntry, TypeOK
    <3> QED
      BY <2>1, <3>1 DEF NeverRan, Clean, Untouched, IsSingle, EntriesOf, Cancellable
  <2>3. CASE sess[e] # "live"
    <3>1. SettleEntryFor(e, sess'[e])
      BY <1>19, <2>1, <2>3 DEF BindEntry
    <3> QED
      BY <1>0, <2>1, <3>1, EndKeepsNeverRan
  <2> QED
    BY <2>2, <2>3
<1>20. ASSUME NEW e \in Entry, OnEvent(e, sess'[e]), UNCHANGED <<init, attempt, server, crashes>>,
              \A x \in Entry \ {e} : sess'[x] = sess[x],
              sess'[e] = sess[e] \/ (sess[e] = "live" /\ entry[e] # "cancelled"),
              crashes = 0
       PROVE  NeverRan'
  <2>1. CASE entry[e] = "running"
    <3>1. SettleEntryFor(e, sess'[e])
      BY <1>20, <2>1 DEF OnEvent, NeverRan
    <3>2. attempt'[e] = "none"
      BY <1>20, <2>1 DEF NeverRan, Clean
    <3> QED
      BY <1>0, <1>20, <2>1, <3>1, <3>2, EndKeepsNeverRan
  <2>2. CASE entry[e] # "running"
    <3>1. UNCHANGED entry
      BY <1>20, <2>2 DEF OnEvent
    <3> QED
      BY <1>20, <2>2, <3>1 DEF NeverRan, Clean, Untouched, IsSingle, EntriesOf, Cancellable
  <2> QED
    BY <2>1, <2>2
<1>21. ASSUME NEW e \in Entry, NEW end, SessionEnds(e, end), crashes' = 0 PROVE NeverRan'
  <2>1. /\ sess[e] = "live" /\ sess'[e] = end /\ \A x \in Entry \ {e} : sess'[x] = sess[x]
        /\ UNCHANGED <<init, attempt, server, crashes>>
    BY <1>0, <1>21 DEF SessionEnds, TypeOK
  <2>2. entry[e] # "cancelled"
    BY <1>21, <2>1 DEF NeverRan, Clean
  <2> QED
    BY <1>20, <1>21, <2>1, <2>2 DEF SessionEnds
<1>22. ASSUME NEW e \in Entry, PublishEnd(e) \/ DriverPublishesEnd(e), crashes' = 0 PROVE NeverRan'
  BY <1>20, <1>22 DEF PublishEnd, DriverPublishesEnd
<1>23. ASSUME NEW e \in Entry, NEW end, StopSession(e, end), crashes' = 0 PROVE NeverRan'
  <2>1. /\ sess[e] = "live" /\ \A x \in Entry \ {e} : sess'[x] = sess[x]
        /\ UNCHANGED <<entry, init, attempt, server, crashes>>
    BY <1>0, <1>23 DEF StopSession, TypeOK
  <2>2. /\ entry[e] \notin Cancellable \cup {"cancelled"}
        /\ entry[e] = "none" => IsSingle(BatchOf[e])
    BY <1>23, <2>1 DEF NeverRan, Clean, Untouched
  <2> QED
    BY <2>1, <2>2 DEF NeverRan, Clean, Untouched, IsSingle, EntriesOf, Cancellable
<1>24. CASE OutsideStarts \/ OutsideEnds \/ UNCHANGED vars
  BY <1>24, <1>b DEF OutsideStarts, OutsideEnds, vars, rows, volatile
<1>25. CASE StopQueue \/ Crash
  BY <1>0, <1>25, <1>a DEF StopQueue, Crash, TypeOK
<1>26. CASE ShutdownEnds \/ RecoverFromRestart \/ Reconciled
  BY <1>26, <1>a, <1>c DEF ShutdownEnds, RecoverFromRestart, Reconciled
<1>27. ASSUME NEW e \in Entry, ShutdownInterrupts(e) \/ Reconcile(e) PROVE NeverRan'
  BY <1>27, <1>a, <1>c DEF ShutdownInterrupts, Reconcile
<1> QED
  BY <1>1, <1>2, <1>3, <1>4, <1>5, <1>6, <1>7, <1>8, <1>11, <1>15, <1>16, <1>18, <1>19, <1>21,
     <1>22, <1>23, <1>24, <1>25, <1>26, <1>27, <1>a
     DEF Next, Gesture, DrainStep, RunPathStep, SessionStep, ServerStep, ServerProceeds

(* While the process lives, what reads cancelled has no session at work and none *)
(* that came to an outcome of its own: at most one that the operator stopped     *)
(* (queue.ts cancel and abort, run-queue-store.ts CANCELLABLE).                  *)
THEOREM CancelledNeverRanHolds == Spec => []CancelledNeverRan
<1>1. Init => NeverRan
  BY DEF Init, NeverRan, Clean, Untouched, Cancellable
<1>2. NeverRan => CancelledNeverRan
  BY DEF NeverRan, Clean, CancelledNeverRan
<1> QED
  BY Inductive, NeverRanNext, <1>1, <1>2, PTL DEF Spec

-----------------------------------------------------------------------------
(* A re-ask has a reason.  The contract of a command as it was at any moment:    *)
(* bnd and ver are what its sources were bound to then.                          *)
ResolvedWith(c, bnd) == {i \in DOMAIN Inputs[c] :
                           Inputs[c][i] \in Command => bnd[Inputs[c][i]] > 0}

VersionWith(s, bnd, ver) == IF s \in Command THEN bnd[s] ELSE ver[s]

Line(c, i, bnd, ver) == <<Cardinality({j \in ResolvedWith(c, bnd) : j <= i}),
                          Inputs[c][i], VersionWith(Inputs[c][i], bnd, ver)>>

OwnWith(e, bnd) == {i \in ResolvedWith(CommandOf[e], bnd) :
                      Inputs[CommandOf[e]][i] \notin Siblings(e)}

ContractWith(e, bnd, ver) ==
  [configuration |-> IF CommandOf[e] \in Editable THEN ver[CommandOf[e]] ELSE 0,
   inputs   |-> {Line(CommandOf[e], i, bnd, ver) : i \in OwnWith(e, bnd)},
   runnable |-> IF Producers(CommandOf[e]) \cap Siblings(e) # {} THEN "decided by the batch"
                ELSE IF ResolvedWith(CommandOf[e], bnd) = DOMAIN Inputs[CommandOf[e]]
                     THEN "yes" ELSE "no"]

(* What a gesture or a confirmation recorded was the contract at that moment,    *)
(* when no output was bound more often than it is now.                           *)
AgreedAsPreviewed ==
  \A e \in Entry : entry[e] # "none" =>
    \E bnd \in [Command -> Nat] : \E ver \in [Object \cup Editable -> 0..MaxVersion] :
      /\ \A c \in Command : bnd[c] <= bound[c]
      /\ agreed[e] = ContractWith(e, bnd, ver)

(* A contract is one of its moment. *)
LEMMA ContractIsOfNow ==
  ASSUME NEW e \in Entry PROVE ContractOf(e) = ContractWith(e, bound, version)
<1>1. ResolvedWith(CommandOf[e], bound) = Resolved(CommandOf[e])
  BY DEF ResolvedWith, Resolved
<1>2. OwnWith(e, bound) = {j \in Resolved(CommandOf[e]) : Inputs[CommandOf[e]][j] \notin Siblings(e)}
  BY <1>1 DEF OwnWith
<1>3. \A i : Line(CommandOf[e], i, bound, version)
             = <<Ordinal(CommandOf[e], i), Inputs[CommandOf[e]][i], VersionOf(Inputs[CommandOf[e]][i])>>
  BY <1>1 DEF Line, Ordinal, VersionWith, VersionOf
<1> QED
  BY <1>1, <1>2, <1>3 DEF ContractOf, ContractWith, Runnable

(* Every entry that is there has such a contract. *)
LEMMA AgreedAsPreviewedNext ==
  IndInv /\ AgreedAsPreviewed /\ [Next]_vars => AgreedAsPreviewed'
<1> SUFFICES ASSUME IndInv, AgreedAsPreviewed, [Next]_vars PROVE AgreedAsPreviewed'
  OBVIOUS
<1>0. TypeOK /\ RowsAgree /\ bound \in [Command -> Nat] /\ version \in [Object \cup Editable -> 0..MaxVersion]
  BY DEF IndInv, TypeOK
<1>1. ASSUME \A x \in Entry : agreed'[x] = agreed[x] \/ agreed'[x] = ContractOf(x),
             \A x \in Entry : entry'[x] # "none" => entry[x] # "none" \/ agreed'[x] = ContractOf(x)
      PROVE  AgreedAsPreviewed'
  <2> SUFFICES ASSUME NEW x \in Entry, entry'[x] # "none"
               PROVE  \E bnd \in [Command -> Nat] : \E ver \in [Object \cup Editable -> 0..MaxVersion] :
                        /\ \A c \in Command : bnd[c] <= bound'[c]
                        /\ agreed'[x] = ContractWith(x, bnd, ver)
    BY DEF AgreedAsPreviewed
  <2>0. \A c \in Command : bound[c] <= bound'[c] /\ bound[c] \in Nat /\ bound'[c] \in Nat
    BY <1>0, NextTyped, BoundGrows DEF TypeOK
  <2>1. CASE agreed'[x] = ContractOf(x)
    BY <1>0, <2>0, <2>1, ContractIsOfNow
  <2>2. CASE agreed'[x] # ContractOf(x)
    <3>1. PICK bnd \in [Command -> Nat], ver \in [Object \cup Editable -> 0..MaxVersion] :
            /\ \A c \in Command : bnd[c] <= bound[c]
            /\ agreed[x] = ContractWith(x, bnd, ver)
      BY <1>1, <2>2 DEF AgreedAsPreviewed
    <3>2. \A c \in Command : bnd[c] <= bound'[c]
      BY <2>0, <3>1
    <3> QED
      BY <1>1, <2>2, <3>1, <3>2
  <2> QED
    BY <2>1, <2>2
<1>2. ASSUME NEW b \in Batch, Enqueue(b) PROVE AgreedAsPreviewed'
  <2>1. /\ agreed' = [e \in Entry |-> IF BatchOf[e] = b THEN ContractOf(e) ELSE agreed[e]]
        /\ entry' = [e \in Entry |-> IF BatchOf[e] = b THEN "queued" ELSE entry[e]]
    BY <1>2 DEF Enqueue
  <2> QED
    BY <1>1, <2>1
<1>3. ASSUME NEW e \in Entry, Confirm(e) PROVE AgreedAsPreviewed'
  <2>1. /\ \A x \in Entry : agreed'[x] = agreed[x] \/ agreed'[x] = ContractOf(x)
        /\ \A x \in Entry : entry'[x] # "none" => entry[x] # "none"
    BY <1>0, <1>3 DEF Confirm, TypeOK
  <2> QED
    BY <1>1, <2>1
<1>4. ASSUME UNCHANGED agreed, \A x \in Entry : entry[x] = "none" => entry'[x] = "none"
      PROVE  AgreedAsPreviewed'
  BY <1>1, <1>4
<1>5. ASSUME NEW b \in Batch, Initiate(b) \/ RunOneQueued(b) PROVE AgreedAsPreviewed'
  BY <1>2, <1>5 DEF Initiate, RunOneQueued
<1>6. ASSUME UNCHANGED <<agreed, entry>> PROVE AgreedAsPreviewed'
  BY <1>4, <1>6
<1>7. ASSUME NEW b \in Batch, ResumeBatch(b) PROVE AgreedAsPreviewed'
  BY <1>4, <1>7 DEF ResumeBatch
<1>8. ASSUME NEW e \in Entry, \/ Cancel(e) \/ AdmitDeclines(e) \/ AdmitAbandons(e)
                             \/ AdmitReasks(e) \/ AdmitStarts(e)
      PROVE  AgreedAsPreviewed'
  <2>1. entry[e] # "none" /\ UNCHANGED agreed
    BY <1>8 DEF Cancel, Cancellable, AdmitDeclines, AdmitAbandons, AdmitReasks, AdmitStarts,
                Declined, Consider, HeadOfQueue, Candidates
  <2>2. \A x \in Entry \ {e} : entry'[x] = entry[x]
    BY <1>0, <1>8 DEF Cancel, AdmitDeclines, AdmitAbandons, AdmitReasks, AdmitStarts, SettleBatch, TypeOK
  <2> QED
    BY <1>4, <2>1, <2>2
<1>9. ASSUME NEW e \in Entry, AttemptFails(e) \/ StartRefusedLate(e) PROVE AgreedAsPreviewed'
  <2>1. UNCHANGED agreed /\ \A x \in Entry : entry[x] = "none" => entry'[x] = "none"
    BY <1>0, <1>9 DEF AttemptFails, StartRefusedLate, EntryRefused, Drained, PauseBatch, PauseRemainder, TypeOK
  <2> QED
    BY <1>4, <2>1
<1>10. ASSUME NEW e \in Entry, NEW end, entry[e] # "none", UNCHANGED agreed, SettleEntryFor(e, end)
       PROVE  AgreedAsPreviewed'
  BY <1>0, <1>4, <1>10, SettledByEnd DEF Cancellable
<1>11. ASSUME NEW e \in Entry, BindEntry(e) PROVE AgreedAsPreviewed'
  <2>1. entry[e] = "starting" /\ UNCHANGED agreed
    BY <1>11 DEF BindEntry, IndInv, AttemptsAgree
  <2>2. CASE sess[e] = "live"
    BY <1>0, <1>4, <1>11, <2>1, <2>2 DEF BindEntry, TypeOK
  <2>3. CASE sess[e] # "live"
    BY <1>10, <1>11, <2>1, <2>3 DEF BindEntry
  <2> QED
    BY <2>2, <2>3
<1>12. ASSUME NEW e \in Entry, NEW end, OnEvent(e, end), UNCHANGED agreed PROVE AgreedAsPreviewed'
  BY <1>6, <1>10, <1>12 DEF OnEvent
<1>13. ASSUME NEW e \in Entry, NEW end, SessionEnds(e, end) PROVE AgreedAsPreviewed'
  BY <1>12, <1>13 DEF SessionEnds
<1>14. ASSUME NEW e \in Entry, PublishEnd(e) \/ DriverPublishesEnd(e) PROVE AgreedAsPreviewed'
  BY <1>12, <1>14 DEF PublishEnd, DriverPublishesEnd
<1>15. ASSUME NEW e \in Entry, Reconcile(e) PROVE AgreedAsPreviewed'
  BY <1>10, <1>15 DEF Reconcile
<1>16. CASE RecoverFromRestart
  BY <1>4, <1>16 DEF RecoverFromRestart
<1> QED
  BY <1>3, <1>5, <1>6, <1>7, <1>8, <1>9, <1>11, <1>13, <1>14, <1>15, <1>16
     DEF Next, Gesture, DrainStep, RunPathStep, SessionStep, ServerStep, ServerProceeds, vars, rows, volatile,
         RunOneNow, ResumeSettles, SettleBatch,
         SetConcurrencyLimit, Edit, DrainPassEnds, AdmitWaits, Declined, AssembleRun, StartSession,
         StopSession, OutsideStarts, OutsideEnds, StopQueue, ShutdownInterrupts, ShutdownEnds, Crash,
         Reconciled

(* Nothing an entry takes from its own batch is among its facts; unless one of   *)
(* its other inputs was renumbered, the facts decide the contract.               *)
LEMMA FactsDecideContract ==
  ASSUME NEW e \in Entry, bound \in [Command -> Nat],
         NEW bnd \in [Command -> Nat], NEW ver, \A x \in Command : bnd[x] <= bound[x],
         agreed[e] = ContractWith(e, bnd, ver), ~Renumbered(e),
         AgreedFacts(e, ContractWith(e, bnd, ver)) = AgreedFacts(e, ContractWith(e, bound, version))
  PROVE  ContractWith(e, bnd, ver) = ContractWith(e, bound, version)
<1> DEFINE c == CommandOf[e]
           Facts(b, v) == {<<Inputs[c][i], VersionWith(Inputs[c][i], b, v)>> : i \in OwnWith(e, b)}
<1>0. c \in Command /\ Inputs[c] \in Seq(Object \cup Command) /\ DOMAIN Inputs[c] \subseteq Nat
  <2>1. c \in Command /\ Inputs[c] \in Seq(Object \cup Command)
    BY InputsWellFormed
  <2>2. DOMAIN Inputs[c] = 1..Len(Inputs[c]) /\ Len(Inputs[c]) \in Nat
    BY <2>1
  <2> QED
    BY <2>1, <2>2
<1>1. ASSUME NEW b, NEW v
      PROVE  {<<i[2], i[3]>> : i \in {j \in ContractWith(e, b, v).inputs : j[2] \notin Siblings(e)}}
             = Facts(b, v)
  <2>1. ContractWith(e, b, v).inputs = {Line(c, i, b, v) : i \in OwnWith(e, b)}
    BY DEF ContractWith
  <2>2. \A i \in OwnWith(e, b) : Inputs[c][i] \notin Siblings(e)
    BY DEF OwnWith
  <2>3. \A i : Line(c, i, b, v)[2] = Inputs[c][i]
               /\ Line(c, i, b, v)[3] = VersionWith(Inputs[c][i], b, v)
    BY DEF Line
  <2> QED
    BY <2>1, <2>2, <2>3
<1>2. /\ Facts(bnd, ver) = Facts(bound, version)
      /\ ContractWith(e, bnd, ver).configuration = ContractWith(e, bound, version).configuration
  BY <1>1 DEF AgreedFacts
<1>3. ASSUME NEW b1, NEW v1, NEW b2, NEW v2, Facts(b1, v1) = Facts(b2, v2), NEW i \in OwnWith(e, b1)
      PROVE  /\ i \in OwnWith(e, b2)
             /\ VersionWith(Inputs[c][i], b1, v1) = VersionWith(Inputs[c][i], b2, v2)
  <2>1. <<Inputs[c][i], VersionWith(Inputs[c][i], b1, v1)>> \in Facts(b2, v2)
    BY <1>3
  <2>2. PICK k \in OwnWith(e, b2) :
          <<Inputs[c][i], VersionWith(Inputs[c][i], b1, v1)>> = <<Inputs[c][k], VersionWith(Inputs[c][k], b2, v2)>>
    BY <2>1
  <2>3. Inputs[c][k] = Inputs[c][i] /\ VersionWith(Inputs[c][i], b1, v1) = VersionWith(Inputs[c][k], b2, v2)
    BY <2>2
  <2> QED
    BY <1>3, <2>3 DEF OwnWith, ResolvedWith
<1> HIDE DEF Facts
<1>4. OwnWith(e, bnd) = OwnWith(e, bound)
  <2>1. OwnWith(e, bnd) \subseteq OwnWith(e, bound)
    BY <1>2, <1>3
  <2>2. OwnWith(e, bound) \subseteq OwnWith(e, bnd)
    BY <1>2, <1>3
  <2> QED
    BY <2>1, <2>2
<1>5. ASSUME NEW i \in OwnWith(e, bnd)
      PROVE  Line(c, i, bnd, ver) = Line(c, i, bound, version)
  <2> DEFINE Before1 == {j \in ResolvedWith(c, bnd) : j <= i}
             Before2 == {j \in ResolvedWith(c, bound) : j <= i}
  <2>1. i \in OwnWith(e, bound) /\ i \in DOMAIN Inputs[c] /\ Inputs[c][i] \notin Siblings(e)
    BY <1>4 DEF OwnWith, ResolvedWith
  <2>2. VersionWith(Inputs[c][i], bnd, ver) = VersionWith(Inputs[c][i], bound, version)
    BY <1>2, <1>3
  <2>3. Before1 \subseteq Before2
    <3>1. \A x \in Command : bnd[x] > 0 => bound[x] > 0
      OBVIOUS
    <3> QED
      BY <3>1 DEF ResolvedWith
  <2>4. Before2 \subseteq Before1
    <3> SUFFICES ASSUME NEW k \in Before2, k \notin Before1 PROVE FALSE
      OBVIOUS
    <3>1. k \in DOMAIN Inputs[c] /\ k \in ResolvedWith(c, bound) /\ k \notin ResolvedWith(c, bnd) /\ k <= i
      BY DEF ResolvedWith
    <3>2. Inputs[c][k] \in Siblings(e)
      BY <1>4, <3>1 DEF OwnWith
    <3>3. k < i
      BY <1>0, <2>1, <3>1, <3>2
    <3>4. IsFiniteSet(Before2)
      <4>1. DOMAIN Inputs[c] = 1..Len(Inputs[c]) /\ Len(Inputs[c]) \in Nat
        BY <1>0
      <4>2. IsFiniteSet(1..Len(Inputs[c]))
        <5>1. 1 \in Int /\ Len(Inputs[c]) \in Int
          BY <4>1
        <5> QED
          BY <5>1, FS_Interval
      <4>3. Before2 \in SUBSET (1..Len(Inputs[c]))
        BY <4>1 DEF ResolvedWith
      <4> QED
        BY <4>2, <4>3, FS_Subset
    <3>5. Cardinality(Before1) < Cardinality(Before2)
      <4>1. /\ Cardinality(Before1) \in Nat /\ Cardinality(Before2) \in Nat
            /\ Cardinality(Before1) <= Cardinality(Before2)
            /\ Cardinality(Before1) # Cardinality(Before2)
        BY <2>3, <3>4, FS_Subset, FS_CardinalityType
      <4> QED
        BY <4>1
    <3>6. Cardinality(Before2) = Ordinal(c, i) /\ ResolvedWith(c, bound) = Resolved(c)
      BY DEF Ordinal, Resolved, ResolvedWith
    <3>7. /\ Line(c, i, bnd, ver) \in agreed[e].inputs
          /\ Line(c, i, bnd, ver)[1] < Ordinal(c, i)
          /\ Line(c, i, bnd, ver)[2] = Inputs[c][i]
      <4>1. agreed[e].inputs = {Line(c, x, bnd, ver) : x \in OwnWith(e, bnd)}
        <5>1. ContractWith(e, bnd, ver).inputs = {Line(c, x, bnd, ver) : x \in OwnWith(e, bnd)}
          BY DEF ContractWith
        <5> QED
          BY <5>1
      <4>2. Line(c, i, bnd, ver)[1] = Cardinality(Before1) /\ Line(c, i, bnd, ver)[2] = Inputs[c][i]
        BY DEF Line
      <4> QED
        BY <3>5, <3>6, <4>1, <4>2
    <3>8. i \in Resolved(c) /\ k \in Resolved(c)
      BY <2>1, <3>1, <3>6 DEF OwnWith
    <3> QED
      BY <2>1, <3>2, <3>3, <3>7, <3>8 DEF Renumbered
  <2> QED
    BY <2>2, <2>3, <2>4 DEF Line
<1>6. ASSUME Producers(c) \cap Siblings(e) = {}
      PROVE  ResolvedWith(c, bnd) = ResolvedWith(c, bound)
  <2>1. ASSUME NEW i \in DOMAIN Inputs[c], Inputs[c][i] \in Siblings(e) PROVE FALSE
    <3>1. PICK f \in EntriesOf(BatchOf[e]) \ {e} : Inputs[c][i] = CommandOf[f]
      BY <2>1 DEF Siblings
    <3>2. Inputs[c][i] \in Command /\ Inputs[c][i] # c
      BY <3>1, OneEntryPerCommand DEF EntriesOf
    <3>3. Inputs[c][i] \in Producers(c)
      BY <2>1, <3>2 DEF Producers, SourcesOf
    <3> QED
      BY <1>6, <2>1, <3>3
  <2>2. OwnWith(e, bnd) = ResolvedWith(c, bnd) /\ OwnWith(e, bound) = ResolvedWith(c, bound)
    BY <2>1 DEF OwnWith, ResolvedWith
  <2> QED
    BY <1>4, <2>2
<1>7. {Line(c, i, bnd, ver) : i \in OwnWith(e, bnd)} = {Line(c, i, bound, version) : i \in OwnWith(e, bound)}
  BY <1>4, <1>5
<1>8. ContractWith(e, bnd, ver).inputs = ContractWith(e, bound, version).inputs
  BY <1>7 DEF ContractWith
<1>9. ContractWith(e, bnd, ver).runnable = ContractWith(e, bound, version).runnable
  BY <1>6 DEF ContractWith
<1>10. ASSUME NEW b, NEW v
       PROVE  ContractWith(e, b, v) = [configuration |-> ContractWith(e, b, v).configuration,
                                       inputs |-> ContractWith(e, b, v).inputs,
                                       runnable |-> ContractWith(e, b, v).runnable]
  BY DEF ContractWith
<1> QED
  BY <1>2, <1>8, <1>9, <1>10

(* Only an admission that finds the contract changed asks. *)
LEMMA OnlyAdmissionAsks ==
  ASSUME IndInv, [Next]_vars, NEW x \in Entry, entry[x] = "queued", entry'[x] = "needs_reask"
  PROVE  ContractOf(x) # agreed[x]
<1>0. TypeOK /\ RowsAgree /\ AttemptsAgree
  BY DEF IndInv
<1>a. entry'[x] # entry[x]
  OBVIOUS
<1>1. ASSUME NEW b \in Batch, Initiate(b) \/ RunOneQueued(b) \/ ResumeBatch(b) PROVE FALSE
  BY <1>0, <1>1 DEF Initiate, RunOneQueued, Enqueue, ResumeBatch, TypeOK
<1>2. ASSUME NEW e \in Entry, Cancel(e) \/ Confirm(e) \/ AdmitDeclines(e) \/ AdmitAbandons(e) \/ AdmitStarts(e)
      PROVE  FALSE
  BY <1>0, <1>2 DEF Cancel, Confirm, AdmitDeclines, AdmitAbandons, AdmitStarts, SettleBatch, TypeOK
<1>3. ASSUME NEW e \in Entry, AdmitReasks(e) PROVE ContractOf(x) # agreed[x]
  BY <1>0, <1>3 DEF AdmitReasks, TypeOK
<1>4. ASSUME NEW e \in Entry, AttemptFails(e) \/ StartRefusedLate(e) PROVE FALSE
  BY <1>0, <1>4 DEF AttemptFails, StartRefusedLate, EntryRefused, PauseBatch, PauseRemainder, TypeOK
<1>5. ASSUME NEW e \in Entry, NEW end, SettleEntryFor(e, end) PROVE FALSE
  BY <1>0, <1>5, SettleEntryForMoves DEF Settled
<1>6. ASSUME NEW e \in Entry, BindEntry(e) PROVE FALSE
  BY <1>0, <1>5, <1>6 DEF BindEntry, TypeOK
<1>7. ASSUME NEW e \in Entry, NEW end, OnEvent(e, end) PROVE FALSE
  BY <1>5, <1>7 DEF OnEvent
<1>8. CASE RecoverFromRestart
  BY <1>8 DEF RecoverFromRestart
<1>9. ASSUME NEW e \in Entry, Reconcile(e) PROVE FALSE
  BY <1>5, <1>9 DEF Reconcile
<1> QED
  BY <1>1, <1>2, <1>3, <1>4, <1>6, <1>7, <1>8, <1>9
     DEF Next, Gesture, DrainStep, RunPathStep, SessionStep, ServerStep, ServerProceeds, vars, rows, volatile,
         RunOneNow, ResumeSettles, SettleBatch, SessionEnds, PublishEnd, DriverPublishesEnd,
         SetConcurrencyLimit, Edit, DrainPassEnds, AdmitWaits, Declined, AssembleRun, StartSession,
         StopSession, OutsideStarts, OutsideEnds, StopQueue, ShutdownInterrupts, ShutdownEnds, Crash,
         Reconciled

(* A queued run asks again only when its configuration, or an input that is not  *)
(* its own batch's, is no longer what was agreed to, or when such an input has   *)
(* moved behind an output of the batch that was not bound when it was agreed to  *)
(* (queue.ts admit and agreedPartOf, run-store.ts assemble).                     *)
THEOREM ReaskOnlyOnDriftHolds == Spec => ReaskOnlyOnDrift
<1>1. Init => AgreedAsPreviewed
  BY DEF Init, AgreedAsPreviewed
<1>2. ASSUME IndInv, AgreedAsPreviewed, [Next]_vars, NEW e \in Entry,
             entry[e] = "queued", entry'[e] = "needs_reask", ~Renumbered(e)
      PROVE  AgreedFacts(e, ContractOf(e)) # AgreedFacts(e, agreed[e])
  <2>1. ContractOf(e) # agreed[e]
    BY <1>2, OnlyAdmissionAsks
  <2>2. PICK bnd \in [Command -> Nat], ver \in [Object \cup Editable -> 0..MaxVersion] :
          /\ \A c \in Command : bnd[c] <= bound[c]
          /\ agreed[e] = ContractWith(e, bnd, ver)
    BY <1>2 DEF AgreedAsPreviewed
  <2>3. bound \in [Command -> Nat]
    BY <1>2 DEF IndInv, TypeOK
  <2> QED
    BY <1>2, <2>1, <2>2, <2>3, ContractIsOfNow, FactsDecideContract
<1>3. IndInv /\ AgreedAsPreviewed /\ [Next]_vars =>
        [\A e \in Entry : entry[e] = "queued" /\ entry'[e] = "needs_reask"
           => Renumbered(e) \/ AgreedFacts(e, ContractOf(e)) # AgreedFacts(e, agreed[e])]_vars
  BY <1>2
<1> QED
  BY Inductive, AgreedAsPreviewedNext, <1>1, <1>3, PTL DEF Spec, ReaskOnlyOnDrift
=============================================================================
