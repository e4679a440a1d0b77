-------------------------- MODULE RunLifecycleProofs --------------------------
(***************************************************************************)
(* Theorems about RunLifecycle for every set of requests and every number  *)
(* of runtimes, crashes and shutdowns.                                     *)
(*                                                                         *)
(* RunsOn is what the code relies on without stating it: nothing is under  *)
(* way before the session has a row, a pump that ended has settled the     *)
(* run, a key belongs to one request.  Tethered is the heart of the        *)
(* matter: as long as the run runs, the session is driven by one runtime,  *)
(* and everybody who waits to settle the run agrees on its end.  A crash   *)
(* breaks it for several resume gestures, so it is stated for one gesture  *)
(* or no crash; NeverKilled and Releases say what holds without a crash,   *)
(* Retried and Reached what holds for one gesture.                         *)
(*                                                                         *)
(* All but TypeCorrect assume that drains are waited for (Patient): a pump *)
(* given up may still have an end to record.                               *)
(***************************************************************************)
EXTENDS RunLifecycle, TLAPS

(* Handles are numbers, the first of them 1, and none of them is NoHandle. *)
LEMMA HandleFacts == 1 \in Handle /\ NoHandle \notin Handle /\ Handle \subseteq Nat
BY Bounds DEF Handle, NoHandle

(* Whatever ends a session, endRunFor has an outcome for its run. *)
LEMMA OutcomesAreEnds == \A end \in SessionEnds : RunOutcome(end) \in RunEnds
BY DEF RunOutcome, SessionEnds, RunEnds

(* What an end does to the run: it ends if it runs, and is left alone if not. *)
LEMMA EndRunForEnds ==
  ASSUME NEW end \in SessionEnds, EndRunFor(end)
  PROVE  /\ held' = FALSE
         /\ run' = IF run = "running" THEN RunOutcome(end) ELSE run
         /\ RunOutcome(end) \in RunEnds
BY OutcomesAreEnds DEF EndRunFor

(* A pump that goes on, waits or ends stays a pump. *)
LEMMA PumpTyped ==
  ASSUME pump \in [Handle -> PumpState], hub \in Handle \cup {NoHandle}, NEW h \in Handle,
         NEW pc \in {"reading", "evaluating", "closing", "failing", "enforcing", "ended", "done"},
         PumpAt(h, pc) \/ PumpWaits(h, pc)
  PROVE  pump' \in [Handle -> PumpState]
BY DEF PumpAt, PumpWaits, PumpState

(* Asking a runtime to stop leaves the runtimes well typed. *)
LEMMA RuntimeTyped ==
  ASSUME runtime \in [Handle -> {"none", "running", "asked", "gone"}], hub \in Handle \cup {NoHandle},
         AskHub \/ \E h \in Handle \cup {NoHandle} : runtime' = Asked(h)
  PROVE  runtime' \in [Handle -> {"none", "running", "asked", "gone"}]
<1>1. ASSUME NEW h \in Handle \cup {NoHandle}
      PROVE  Asked(h) \in [Handle -> {"none", "running", "asked", "gone"}]
  BY DEF Asked
<1> QED
  BY <1>1 DEF AskHub

(* A resume that moves on or gives up stays a resume. *)
LEMMA ResumeTyped ==
  ASSUME TypeOK, NEW r \in Resumer, NEW pc \in {"planned", "draining", "aborting", "opening"},
         NEW k \in Key \cup {"none"}, NEW h \in Handle \cup {NoHandle},
         ResumeAt(r, pc, k, h) \/ resume' = [resume EXCEPT ![r] = NotResuming]
  PROVE  resume' \in [Resumer -> [pc : {"idle", "planned", "draining", "aborting", "opening"},
                                  key : Key \cup {"none"}, on : Handle \cup {NoHandle}]]
BY DEF TypeOK, ResumeAt, NotResuming

(* What the steps do to one element of a function, and not to the others. *)
LEMMA PumpMoves ==
  ASSUME TypeOK, NEW h \in Handle, NEW to, PumpAt(h, to) \/ PumpWaits(h, to)
  PROVE  /\ pump'[h].pc = to
         /\ \A g \in Handle \ {h} : pump'[g] = pump[g]
<1>1. PICK on : pump' = [pump EXCEPT ![h] = [pc |-> to, on |-> on]]
  BY DEF PumpAt, PumpWaits
<1>2. pump \in [Handle -> PumpState]
  BY DEF TypeOK
<1> QED
  BY <1>1, <1>2

(* Asking the attached runtime to stop touches no other. *)
LEMMA HubIsAsked ==
  ASSUME TypeOK, AskHub
  PROVE  \A g \in Handle : runtime'[g] = IF g = hub /\ runtime[g] = "running"
                                         THEN "asked" ELSE runtime[g]
<1>1. CASE hub = NoHandle
  BY <1>1, HandleFacts DEF AskHub
<1>2. CASE hub \in Handle
  BY <1>2, HandleFacts DEF TypeOK, AskHub, Asked
<1> QED
  BY <1>1, <1>2 DEF TypeOK

(* Asking a runtime to stop touches no other. *)
LEMMA RuntimeAsked ==
  ASSUME TypeOK, NEW h \in Handle, runtime' = Asked(h)
  PROVE  \A g \in Handle : runtime'[g] = IF g = h /\ runtime[g] = "running"
                                         THEN "asked" ELSE runtime[g]
BY DEF TypeOK, Asked

(* A resume that moves on touches no other. *)
LEMMA ResumeMoves ==
  ASSUME TypeOK, NEW r \in Resumer, NEW pc, NEW k, NEW h, ResumeAt(r, pc, k, h)
  PROVE  /\ resume'[r] = [pc |-> pc, key |-> k, on |-> h]
         /\ resume'[r].pc = pc /\ resume'[r].key = k /\ resume'[r].on = h
         /\ \A q \in Resumer \ {r} : resume'[q] = resume[q]
<1>1. /\ resume'[r] = [pc |-> pc, key |-> k, on |-> h]
      /\ \A q \in Resumer \ {r} : resume'[q] = resume[q]
  BY DEF TypeOK, ResumeAt
<1> QED
  BY <1>1

(* A resume that gives up touches no other. *)
LEMMA ResumeStops ==
  ASSUME TypeOK, NEW r \in Resumer, resume' = [resume EXCEPT ![r] = NotResuming]
  PROVE  /\ resume'[r] = NotResuming /\ resume'[r].pc = "idle"
         /\ \A q \in Resumer \ {r} : resume'[q] = resume[q]
<1>1. /\ resume'[r] = NotResuming
      /\ \A q \in Resumer \ {r} : resume'[q] = resume[q]
  BY DEF TypeOK
<1> QED
  BY <1>1 DEF NotResuming

(* What the pump makes of the end of its stream. *)
LEMMA PumpEnds ==
  ASSUME NEW h \in Handle, PumpReadsEnd(h) \/ PumpFails(h)
  PROVE  /\ Serving
         /\ \/ pump[h].pc = "reading" /\ runtime[h] = "gone"
            \/ pump[h].pc = "failing"
         /\ \E end \in SessionEnds : /\ EndFromObservation(h, end)
                                     /\ end = "completed" => Proven
BY DEF PumpReadsEnd, PumpFails, Reading, ClassifyEnd, ReportableEnds, SessionEnds

(* A stop never says completed. *)
LEMMA StopEndsAreEnds == StopEnds \subseteq SessionEnds \ {"completed"}
BY DEF StopEnds, SessionEnds

(* A stop has recorded its end and waits for the runtime. *)
Pending(x) == stop[x].end # "none"
(* A pump that has yet to record the end of its stream. *)
Active(h) == pump[h].pc \notin {"none", "ended", "done"}

(* A session without a row has nothing under way: no runtime, no pump, no stop, *)
(* submission or resume; and a start waits for its runtime only before it.      *)
Begun ==
  /\ run = "none" => session = "none" /\ start = "idle"
  /\ start = "opening" => session = "none" /\ run = "running" /\ server # "sweeping"
  /\ session = "none" =>
       /\ hub = NoHandle /\ reopened = NoHandle
       /\ \A h \in Handle : pump[h] = NoPump /\ runtime[h] = "none"
       /\ \A x \in Stopper : ~Pending(x)
       /\ \A u \in Submitter : submit[u] = "idle"
       /\ \A r \in Resumer : resume[r].pc = "idle"

(* SessionStore.end: what stands is an end, the recorded one if there was one. *)
LEMMA FirstEndIsEnd ==
  ASSUME TypeOK, session # "none", NEW end \in SessionEnds
  PROVE  FirstEnd(end) \in SessionEnds /\ FirstEnd(end) = IF Ended THEN session ELSE end
BY DEF TypeOK, FirstEnd, SessionEnds, Ended

(* A fresh row is well typed. *)
LEMMA InitTyped == Init => TypeOK
<1> SUFFICES ASSUME Init PROVE TypeOK
  OBVIOUS
<1>1. pump \in [Handle -> PumpState]
  BY DEF Init, NoPump, PumpState
<1>2. resume \in [Resumer -> [pc : {"idle", "planned", "draining", "aborting", "opening"},
                             key : Key \cup {"none"}, on : Handle \cup {NoHandle}]]
  BY DEF Init, NotResuming
<1>3. stop \in [Stopper -> [end : {"none"} \cup SessionEnds, on : Handle \cup {NoHandle}]]
  BY DEF Init
<1>4. /\ crashes \in 0..MaxCrash /\ closes \in 0..MaxClose
      /\ hub \in Handle \cup {NoHandle} /\ reopened \in Handle \cup {NoHandle}
  BY Bounds DEF Init
<1> QED
  BY <1>1, <1>2, <1>3, <1>4 DEF Init, TypeOK

(* Every gesture, pump step, shutdown, crash and boot keeps the types. *)
LEMMA NextTyped == TypeOK /\ Begun /\ [Next]_vars => TypeOK'
<1> SUFFICES ASSUME TypeOK, Begun, [Next]_vars PROVE TypeOK'
  OBVIOUS
<1> USE HandleFacts DEF TypeOK, rows, requests, ghosts, boots
<1>1. CASE StartRun \/ ClaimGranted
  BY <1>1 DEF StartRun, ClaimGranted
<1>2. CASE Starting
  <2>1. CASE RuntimeStarts
    BY <2>1, PumpTyped DEF RuntimeStarts
  <2>2. CASE RuntimeRefuses
    BY <2>2 DEF RuntimeRefuses, RunEnds
  <2>3. CASE RootClaimRefused
    BY <2>3 DEF RootClaimRefused
  <2> QED
    BY <1>2, <2>1, <2>2, <2>3 DEF Starting
<1>4. ASSUME NEW h \in Handle, RuntimeGoes(h) PROVE TypeOK'
  BY <1>4 DEF RuntimeGoes
<1>5. ASSUME NEW h \in Handle, PumpSubmissionAnswered(h) PROVE TypeOK'
  <2>1. pump' \in [Handle -> PumpState]
    BY <1>5, PumpTyped DEF PumpSubmissionAnswered
  <2> QED
    BY <1>5, <2>1, RuntimeTyped DEF PumpSubmissionAnswered, Rejected, Accepted, TooLate, FirstEnd,
       SessionEnds, RunEnds
<1>6. ASSUME NEW h \in Handle, PumpGoesOn(h) \/ PumpSubmits(h) \/ Detach(h) PROVE TypeOK'
  BY <1>6, PumpTyped DEF PumpGoesOn, PumpSubmits, Detach
<1>7. ASSUME NEW h \in Handle, PumpReadsEnd(h) \/ PumpFails(h) PROVE TypeOK'
  <2>1. PICK end \in SessionEnds : EndFromObservation(h, end)
    BY <1>7, PumpEnds
  <2>2. session # "none"
    BY <1>7, PumpEnds DEF Begun, NoPump
  <2>3. /\ session' \in SessionEnds
        /\ run' \in {"none", "running"} \cup RunEnds /\ held' \in BOOLEAN
    BY <2>1, <2>2, FirstEndIsEnd, EndRunForEnds DEF EndFromObservation
  <2> QED
    BY <2>1, <2>3, PumpTyped DEF EndFromObservation
<1>9. ASSUME NEW h \in Handle, BudgetStopFinishes(h) PROVE TypeOK'
  BY <1>9, EndRunForEnds, PumpTyped DEF BudgetStopFinishes, SessionEnds
<1>11. ASSUME NEW h \in Handle, BudgetStops(h) PROVE TypeOK'
  <2>1. /\ pump' \in [Handle -> PumpState]
        /\ run' \in {"none", "running"} \cup RunEnds /\ held' \in BOOLEAN
    BY <1>11, EndRunForEnds, PumpTyped DEF BudgetStops, SessionEnds
  <2> QED
    BY <1>11, <2>1, RuntimeTyped DEF BudgetStops, SessionEnds
<1>12. ASSUME NEW u \in Submitter, SubmitAsked(u) PROVE TypeOK'
  BY <1>12 DEF SubmitAsked
<1>13. ASSUME NEW u \in Submitter, SubmitAnswered(u) PROVE TypeOK'
  BY <1>13, RuntimeTyped DEF SubmitAnswered, Rejected, Accepted, TooLate, FirstEnd, SessionEnds,
     RunEnds
<1>14. ASSUME NEW x \in Stopper, NEW end \in StopEnds, StopAsked(x, end) PROVE TypeOK'
  <2>1. FirstEnd(end) \in SessionEnds
    BY <1>14 DEF StopAsked, StopEnds, FirstEnd, SessionEnds
  <2>2. run' \in {"none", "running"} \cup RunEnds /\ held' \in BOOLEAN
    BY <1>14, <2>1, EndRunForEnds DEF StopAsked
  <2>3. stop' \in [Stopper -> [end : {"none"} \cup SessionEnds, on : Handle \cup {NoHandle}]]
    BY <1>14, <2>1 DEF StopAsked
  <2> QED
    BY <1>14, <2>1, <2>2, <2>3, RuntimeTyped DEF StopAsked
<1>15. ASSUME NEW x \in Stopper, StopFinishes(x) PROVE TypeOK'
  BY <1>15, EndRunForEnds DEF StopFinishes
<1>16. ASSUME NEW r \in Resumer, NEW k \in Key, ResumeAsked(r, k) PROVE TypeOK'
  BY <1>16 DEF ResumeAsked, ResumeAt
<1>17. ASSUME NEW r \in Resumer, ResumeStep(r) PROVE TypeOK'
  <2>1. CASE ResumeOpens(r)
    <3>1. PICK h \in Handle : /\ runtime' = [runtime EXCEPT ![h] = "running"]
                              /\ PumpAt(h, "reading") /\ hub' = h
                              /\ reopened' = IF Ended THEN h ELSE reopened
                              /\ astray' = IF server = "up" THEN astray ELSE astray \cup {h}
      BY <2>1 DEF ResumeOpens
    <3> QED
      BY <2>1, <3>1, PumpTyped DEF ResumeOpens, NotResuming
  <2> DEFINE k == resume[r].key
             on == resume[r].on
  <2>0. k \in Key \cup {"none"} /\ on \in Handle \cup {NoHandle}
    OBVIOUS
  <2>2. CASE ResumeAborts(r)
    <3>1. runtime' \in [Handle -> {"none", "running", "asked", "gone"}]
      BY <2>0, <2>2, RuntimeTyped DEF ResumeAborts
    <3>2. resume' \in [Resumer -> [pc : {"idle", "planned", "draining", "aborting", "opening"},
                                  key : Key \cup {"none"}, on : Handle \cup {NoHandle}]]
      BY <2>0, <2>2, ResumeTyped DEF ResumeAborts
    <3> QED
      BY <2>2, <3>1, <3>2 DEF ResumeAborts
  <2>3. CASE ResumeLetsGo(r) \/ ResumeClaims(r)
    <3>1. ClaimKey(r, k)
      BY <2>3 DEF ResumeLetsGo, ResumeClaims
    <3>2. /\ resume' \in [Resumer -> [pc : {"idle", "planned", "draining", "aborting", "opening"},
                                      key : Key \cup {"none"}, on : Handle \cup {NoHandle}]]
          /\ key' \in [Key -> {"free", "claimed", "settled"}]
      BY <2>0, <3>1, ResumeTyped DEF ClaimKey
    <3>3. CASE ResumeLetsGo(r)
      <4>1. astray' \subseteq Handle /\ hub' = NoHandle
        BY <3>3 DEF ResumeLetsGo
      <4>2. UNCHANGED <<mode, session, run, proof, held, start, runtime, pump, stop, submit, reopened,
                        server, crashes, closes>>
        BY <3>3 DEF ResumeLetsGo
      <4> QED
        BY <3>2, <4>1, <4>2
    <3>4. CASE ResumeClaims(r)
      BY <3>2, <3>4 DEF ResumeClaims
    <3> QED
      BY <2>3, <3>3, <3>4
  <2>4. CASE ResumeReplays(r) \/ ResumeDrains(r) \/ ResumeFails(r)
    <3>1. resume' \in [Resumer -> [pc : {"idle", "planned", "draining", "aborting", "opening"},
                                  key : Key \cup {"none"}, on : Handle \cup {NoHandle}]]
      BY <2>0, <2>4, ResumeTyped DEF ResumeReplays, ResumeDrains, ResumeFails
    <3>2. CASE ResumeReplays(r) \/ ResumeDrains(r)
      BY <3>1, <3>2 DEF ResumeReplays, ResumeDrains
    <3>3. CASE ResumeFails(r)
      <4>1. key' \in [Key -> {"free", "claimed", "settled"}]
        BY <3>3 DEF ResumeFails
      <4> QED
        BY <3>1, <3>3, <4>1 DEF ResumeFails
    <3> QED
      BY <2>4, <3>2, <3>3
  <2> QED
    BY <1>17, <2>1, <2>2, <2>3, <2>4 DEF ResumeStep
<1>18. CASE CloseServer
  BY <1>18, Bounds DEF CloseServer
<1>19. CASE ShutdownSweeps
  BY <1>19, EndRunForEnds, RuntimeTyped DEF ShutdownSweeps, SessionEnds
<1>20. CASE ServerCloses
  BY <1>20 DEF ServerCloses
<1>21. CASE Crash
  BY <1>21, Bounds DEF Crash, NothingVolatile, NoPump, NotResuming, PumpState
<1>22. CASE RecoverFromRestart
  BY <1>22, EndRunForEnds DEF RecoverFromRestart, SessionEnds, NothingVolatile, NoPump,
     NotResuming, PumpState
<1>23. CASE UNCHANGED vars
  BY <1>23 DEF vars
<1> QED
  BY <1>1, <1>2, <1>4, <1>5, <1>6, <1>7, <1>9, <1>11, <1>12, <1>13, <1>14,
     <1>15, <1>16, <1>17, <1>18, <1>19, <1>20, <1>21, <1>22, <1>23 DEF Next, PumpStep
-----------------------------------------------------------------------------
(* Nothing is under way at first. *)
LEMMA BegunInit == Init => Begun
BY DEF Init, Begun, Pending, NotResuming

(* Nothing gets under way before the session has a row. *)
LEMMA BegunNext == TypeOK /\ Begun /\ [Next]_vars => Begun'
<1> SUFFICES ASSUME TypeOK, Begun, [Next]_vars PROVE Begun'
  OBVIOUS
<1> USE HandleFacts DEF TypeOK, Begun, Pending
<1>1. CASE StartRun
  BY <1>1 DEF StartRun, requests, ghosts, boots
<1>2. CASE Starting
  BY <1>2 DEF Starting, RuntimeRefuses, RuntimeStarts, RootClaimRefused,
     PumpAt, requests, ghosts, boots
<1>3. CASE ClaimGranted
  BY <1>3 DEF ClaimGranted, requests, ghosts, boots
<1>4. ASSUME NEW h \in Handle, RuntimeGoes(h) PROVE Begun'
  BY <1>4 DEF RuntimeGoes, rows, requests, ghosts, boots
<1>5. ASSUME NEW h \in Handle, PumpSubmissionAnswered(h) PROVE Begun'
  BY <1>5 DEF PumpSubmissionAnswered, Rejected, Accepted, TooLate, FirstEnd, NoPump, 
     PumpAt, PumpWaits, rows, requests, ghosts, boots
<1>6. ASSUME NEW h \in Handle, PumpGoesOn(h) PROVE Begun'
  BY <1>6 DEF PumpGoesOn, PumpAt, NoPump, rows, requests, ghosts, boots
<1>7. ASSUME NEW h \in Handle, NEW end \in SessionEnds, EndFromObservation(h, end), pump[h].pc # "none"
      PROVE Begun'
  <2>1. session # "none"
    BY <1>7 DEF NoPump
  <2>2. session' \in SessionEnds /\ run' # "none"
    BY <1>7, <2>1, FirstEndIsEnd, EndRunForEnds DEF EndFromObservation, RunEnds
  <2> QED
    BY <1>7, <2>1, <2>2 DEF EndFromObservation, SessionEnds, requests, ghosts, boots
<1>8. ASSUME NEW h \in Handle, Detach(h) PROVE Begun'
  BY <1>8 DEF Detach, PumpAt, NoPump, rows, requests, ghosts, boots
<1>9. ASSUME NEW h \in Handle, BudgetStopFinishes(h) PROVE Begun'
  BY <1>9, EndRunForEnds DEF BudgetStopFinishes, SessionEnds, RunEnds, PumpAt, NoPump, 
     requests, ghosts, boots
<1>10. ASSUME NEW h \in Handle, PumpSubmits(h) PROVE Begun'
  BY <1>10 DEF PumpSubmits, Reading, PumpAt, NoPump, rows, requests, ghosts, boots
<1>11. ASSUME NEW h \in Handle, BudgetStops(h) PROVE Begun'
  BY <1>11, EndRunForEnds DEF BudgetStops, Reading, RunEnds, SessionEnds, PumpWaits, NoPump,
     requests, ghosts, boots
<1>12. ASSUME NEW u \in Submitter, SubmitAsked(u) PROVE Begun'
  BY <1>12 DEF SubmitAsked, MaySubmit, rows, ghosts, boots
<1>13. ASSUME NEW u \in Submitter, SubmitAnswered(u) PROVE Begun'
  BY <1>13 DEF SubmitAnswered, Rejected, Accepted, TooLate, FirstEnd, rows, ghosts, boots
<1>14. ASSUME NEW x \in Stopper, NEW end \in StopEnds, StopAsked(x, end) PROVE Begun'
  <2>1. FirstEnd(end) \in SessionEnds
    BY <1>14 DEF StopAsked, StopEnds, FirstEnd, SessionEnds
  <2> QED
    BY <1>14, <2>1, EndRunForEnds DEF StopAsked, SessionEnds, RunEnds, ghosts, boots
<1>15. ASSUME NEW x \in Stopper, StopFinishes(x) PROVE Begun'
  BY <1>15, EndRunForEnds DEF StopFinishes, SessionEnds, RunEnds, ghosts, boots
<1>16. ASSUME NEW r \in Resumer, NEW k \in Key, ResumeAsked(r, k) PROVE Begun'
  BY <1>16 DEF ResumeAsked, ResumeAt, Ended, SessionEnds, rows, ghosts, boots
<1>17. ASSUME NEW r \in Resumer, ResumeStep(r) PROVE Begun'
  BY <1>17 DEF ResumeStep, ResumeReplays, ResumeDrains, ResumeAborts, ResumeLetsGo, ResumeClaims,
     ResumeFails, ResumeOpens, ClaimKey, NotResuming, ResumeAt, Asked, PumpAt, Ended, rows, ghosts, boots
<1>18. CASE CloseServer \/ ServerCloses
  BY <1>18, Bounds DEF CloseServer, ServerCloses, rows, requests, ghosts
<1>19. CASE ShutdownSweeps
  BY <1>19, EndRunForEnds DEF ShutdownSweeps, SessionEnds, RunEnds, AskHub, Asked, requests, ghosts
<1>20. CASE Crash
  BY <1>20 DEF Crash, NothingVolatile, NoPump, NotResuming, rows, ghosts
<1>21. CASE RecoverFromRestart
  BY <1>21, EndRunForEnds DEF RecoverFromRestart, SessionEnds, RunEnds, NothingVolatile, NoPump,
     NotResuming, ghosts
<1>22. CASE UNCHANGED vars
  BY <1>22 DEF vars, rows, requests, ghosts, boots
<1>23. ASSUME NEW h \in Handle, PumpReadsEnd(h) PROVE Begun'
  BY <1>7, <1>23 DEF PumpReadsEnd, Reading, ClassifyEnd, ReportableEnds, SessionEnds
<1>24. ASSUME NEW h \in Handle, PumpFails(h) PROVE Begun'
  BY <1>7, <1>24 DEF PumpFails, SessionEnds
<1> QED
  BY <1>1, <1>2, <1>3, <1>4, <1>5, <1>6, <1>8, <1>9, <1>10, <1>11, <1>12, <1>13, <1>14,
     <1>15, <1>16, <1>17, <1>18, <1>19, <1>20, <1>21, <1>22, <1>23, <1>24 DEF Next, PumpStep

(* complete(): an accepted submission and the end of the run are one write. *)
ProofEndsRun == proof = "accepted" => run = "completed"

(* No submission is accepted at first. *)
LEMMA ProofEndsRunInit == Init => ProofEndsRun
BY DEF Init, ProofEndsRun

(* A proven run stays completed: no later end touches it. *)
LEMMA ProofEndsRunNext == TypeOK /\ Begun /\ ProofEndsRun /\ [Next]_vars => ProofEndsRun'
<1> SUFFICES ASSUME TypeOK, Begun, ProofEndsRun, [Next]_vars PROVE ProofEndsRun'
  OBVIOUS
<1> USE DEF ProofEndsRun, rows, requests, ghosts, boots
<1>1. CASE StartRun \/ Starting \/ ClaimGranted
  BY <1>1 DEF Begun, StartRun, Starting, RuntimeRefuses, RuntimeStarts, RootClaimRefused,
     ClaimGranted
<1>2. ASSUME NEW h \in Handle, RuntimeGoes(h) \/ PumpStep(h) \/ PumpSubmits(h) \/ BudgetStops(h)
      PROVE  ProofEndsRun'
  <2>1. CASE PumpReadsEnd(h) \/ PumpFails(h)
    BY <2>1, PumpEnds DEF EndFromObservation, EndRunFor
  <2> QED
    BY <1>2, <2>1 DEF RuntimeGoes, PumpStep, PumpSubmissionAnswered, Rejected, Accepted, TooLate,
       PumpGoesOn, Detach, BudgetStopFinishes, PumpSubmits, BudgetStops, EndRunFor
<1>3. ASSUME NEW u \in Submitter, SubmitAsked(u) \/ SubmitAnswered(u) PROVE ProofEndsRun'
  BY <1>3 DEF SubmitAsked, SubmitAnswered, Rejected, Accepted, TooLate
<1>4. ASSUME NEW x \in Stopper, (\E end \in StopEnds : StopAsked(x, end)) \/ StopFinishes(x)
      PROVE  ProofEndsRun'
  BY <1>4 DEF StopAsked, StopFinishes, EndRunFor
<1>5. ASSUME NEW r \in Resumer, (\E k \in Key : ResumeAsked(r, k)) \/ ResumeStep(r)
      PROVE  ProofEndsRun'
  BY <1>5 DEF ResumeAsked, ResumeStep, ResumeReplays, ResumeDrains, ResumeAborts, ResumeLetsGo,
     ResumeClaims, ResumeFails, ResumeOpens
<1>6. CASE CloseServer \/ ShutdownSweeps \/ ServerCloses \/ Crash \/ RecoverFromRestart
  BY <1>6 DEF CloseServer, ShutdownSweeps, ServerCloses, Crash, RecoverFromRestart, EndRunFor
<1>7. CASE UNCHANGED vars
  BY <1>7 DEF vars
<1> QED
  BY <1>1, <1>2, <1>3, <1>4, <1>5, <1>6, <1>7 DEF Next

(* Only an opened runtime is attached or read. *)
Opened ==
  /\ hub # NoHandle => runtime[hub] # "none"
  /\ \A h \in Handle : runtime[h] = "none" => pump[h] = NoPump

(* None is opened, attached or read at first. *)
LEMMA OpenedInit == Init => Opened
BY DEF Init, Opened

(* An opened runtime never becomes unopened again. *)
LEMMA OpenedNext == TypeOK /\ Begun /\ Opened /\ [Next]_vars => Opened'
<1> SUFFICES ASSUME TypeOK, Begun, Opened, [Next]_vars PROVE Opened'
  OBVIOUS
<1> USE HandleFacts DEF TypeOK, Opened, rows, requests, ghosts, boots
<1>1. CASE StartRun \/ Starting \/ ClaimGranted
  BY <1>1 DEF Begun, StartRun, Starting, RuntimeRefuses, RuntimeStarts, RootClaimRefused,
     ClaimGranted, PumpAt
<1>2. ASSUME NEW h \in Handle, RuntimeGoes(h) \/ PumpStep(h) \/ PumpSubmits(h) \/ BudgetStops(h)
      PROVE  Opened'
  <2>1. CASE PumpReadsEnd(h) \/ PumpFails(h)
    BY <2>1, PumpEnds DEF EndFromObservation, PumpAt, NoPump
  <2>2. CASE PumpSubmissionAnswered(h)
    BY <2>2 DEF PumpSubmissionAnswered, Rejected, Accepted, TooLate, PumpAt, PumpWaits, NoPump,
       AskHub, Asked
  <2>3. CASE BudgetStops(h)
    BY <2>3 DEF BudgetStops, Reading, PumpWaits, NoPump, AskHub, Asked
  <2> QED
    BY <1>2, <2>1, <2>2, <2>3 DEF RuntimeGoes, PumpStep, 
       PumpGoesOn, Detach, BudgetStopFinishes, PumpSubmits, Reading, PumpAt, NoPump
<1>3. ASSUME NEW u \in Submitter, SubmitAsked(u) \/ SubmitAnswered(u) PROVE Opened'
  BY <1>3 DEF SubmitAsked, SubmitAnswered, Rejected, Accepted, TooLate, AskHub, Asked
<1>4. ASSUME NEW x \in Stopper, (\E end \in StopEnds : StopAsked(x, end)) \/ StopFinishes(x)
      PROVE  Opened'
  BY <1>4 DEF StopAsked, StopFinishes, AskHub, Asked
<1>5. ASSUME NEW r \in Resumer, (\E k \in Key : ResumeAsked(r, k)) \/ ResumeStep(r)
      PROVE  Opened'
  BY <1>5 DEF ResumeAsked, ResumeStep, ResumeReplays, ResumeDrains, ResumeAborts, ResumeLetsGo,
     ResumeClaims, ResumeFails, ResumeOpens, Unopened, PumpAt, Asked
<1>6. CASE CloseServer \/ ShutdownSweeps \/ ServerCloses \/ Crash \/ RecoverFromRestart
  BY <1>6 DEF CloseServer, ShutdownSweeps, ServerCloses, Crash, RecoverFromRestart,
     NothingVolatile, AskHub, Asked
<1>7. CASE UNCHANGED vars
  BY <1>7 DEF vars
<1> QED
  BY <1>1, <1>2, <1>3, <1>4, <1>5, <1>6, <1>7 DEF Next

(* Drains are waited for as long as they take. *)
Patient == ~DrainsTimeOut

(* A pump that recorded its end has settled the run, and a resume that lets the *)
(* old runtime go has waited for its pump.                                      *)
DrainedMeansSettled ==
  /\ run = "running" => \A h \in Handle : pump[h].pc \notin {"ended", "done"}
  /\ \A r \in Resumer :
       /\ resume[r].pc \in {"draining", "aborting"} => resume[r].on \in Handle
       /\ resume[r].pc = "aborting" => pump[resume[r].on].pc = "done"

(* No pump has ended at first. *)
LEMMA DrainedMeansSettledInit == Init => DrainedMeansSettled
BY DEF Init, DrainedMeansSettled, NotResuming

(* endFromObservation settles the run within the tick that ends the pump, and a *)
(* run that has ended never runs again.                                         *)
LEMMA DrainedMeansSettledNext ==
  Patient /\ TypeOK /\ Begun /\ Opened /\ DrainedMeansSettled /\ [Next]_vars => DrainedMeansSettled'
<1> SUFFICES ASSUME Patient, TypeOK, Begun, Opened, DrainedMeansSettled, [Next]_vars
             PROVE DrainedMeansSettled'
  OBVIOUS
<1> USE HandleFacts DEF DrainedMeansSettled, rows, requests, ghosts, boots
<1>1. CASE StartRun \/ Starting \/ ClaimGranted
  <2>1. CASE RuntimeStarts
    BY <2>1, PumpMoves DEF RuntimeStarts, Begun, NoPump
  <2> QED
    BY <1>1, <2>1 DEF StartRun, Starting, RuntimeRefuses, RootClaimRefused, ClaimGranted, Begun,
       NoPump
<1>2. ASSUME NEW h \in Handle, RuntimeGoes(h) \/ PumpStep(h) \/ PumpSubmits(h) \/ BudgetStops(h)
      PROVE  DrainedMeansSettled'
  <2>1. CASE PumpReadsEnd(h) \/ PumpFails(h)
    <3>1. PICK end \in SessionEnds : EndFromObservation(h, end)
      BY <2>1, PumpEnds
    <3>2. session # "none"
      BY <2>1, PumpEnds DEF Begun, NoPump
    <3>3. run' # "running"
      BY <3>1, <3>2, FirstEndIsEnd, EndRunForEnds DEF EndFromObservation, RunEnds
    <3> QED
      BY <2>1, <3>1, <3>3, PumpEnds DEF EndFromObservation, PumpAt
  <2>2. CASE PumpSubmissionAnswered(h)
    <3>1. /\ pump'[h].pc \in {"reading", "closing", "failing"}
          /\ \A g \in Handle \ {h} : pump'[g] = pump[g]
      BY <2>2, PumpMoves DEF PumpSubmissionAnswered
    <3>2. UNCHANGED resume /\ (run' = "running" => run = "running") /\ pump[h].pc = "evaluating"
      BY <2>2 DEF PumpSubmissionAnswered, Rejected, Accepted, TooLate
    <3> QED
      BY <3>1, <3>2
  <2>3. CASE BudgetStops(h)
    BY <2>3, PumpMoves, EndRunForEnds DEF BudgetStops, Reading, RunEnds, SessionEnds
  <2>4. CASE BudgetStopFinishes(h)
    BY <2>4, PumpMoves, EndRunForEnds DEF BudgetStopFinishes, RunEnds, SessionEnds
  <2>5. CASE RuntimeGoes(h)
    BY <2>5 DEF RuntimeGoes
  <2>6. CASE PumpGoesOn(h)
    <3>1. pump'[h].pc = "reading" /\ \A g \in Handle \ {h} : pump'[g] = pump[g]
      BY <2>6, PumpMoves DEF PumpGoesOn
    <3> QED
      BY <2>6, <3>1 DEF PumpGoesOn
  <2>7. CASE Detach(h)
    <3>1. pump'[h].pc = "done" /\ \A g \in Handle \ {h} : pump'[g] = pump[g]
      BY <2>7, PumpMoves DEF Detach
    <3> QED
      BY <2>7, <3>1 DEF Detach
  <2>8. CASE PumpSubmits(h)
    <3>1. pump'[h].pc = "evaluating" /\ \A g \in Handle \ {h} : pump'[g] = pump[g]
      BY <2>8, PumpMoves DEF PumpSubmits
    <3> QED
      BY <2>8, <3>1 DEF PumpSubmits, Reading
  <2> QED
    BY <1>2, <2>1, <2>2, <2>3, <2>4, <2>5, <2>6, <2>7, <2>8 DEF PumpStep
<1>3. ASSUME NEW u \in Submitter, SubmitAsked(u) \/ SubmitAnswered(u) PROVE DrainedMeansSettled'
  BY <1>3 DEF SubmitAsked, SubmitAnswered, Rejected, Accepted, TooLate
<1>4. ASSUME NEW x \in Stopper, (\E end \in StopEnds : StopAsked(x, end)) \/ StopFinishes(x)
      PROVE  DrainedMeansSettled'
  BY <1>4 DEF StopAsked, StopFinishes, EndRunFor
<1>5. ASSUME NEW r \in Resumer, (\E k \in Key : ResumeAsked(r, k)) \/ ResumeStep(r)
      PROVE  DrainedMeansSettled'
  <2>1. ASSUME NEW k \in Key, ResumeAsked(r, k) PROVE DrainedMeansSettled'
    <3>1. /\ resume'[r] = [pc |-> "planned", key |-> k, on |-> NoHandle]
          /\ \A q \in Resumer \ {r} : resume'[q] = resume[q]
      BY <2>1, ResumeMoves DEF ResumeAsked
    <3>2. UNCHANGED <<run, pump>>
      BY <2>1 DEF ResumeAsked
    <3> QED
      BY <3>1, <3>2
  <2>2. CASE ResumeReplays(r) \/ ResumeFails(r)
    BY <2>2, ResumeStops DEF ResumeReplays, ResumeFails, NotResuming
  <2>3. CASE ResumeDrains(r)
    <3>1. /\ resume'[r] = [pc |-> "draining", key |-> resume[r].key, on |-> hub]
          /\ \A q \in Resumer \ {r} : resume'[q] = resume[q]
      BY <2>3, ResumeMoves DEF ResumeDrains
    <3>2. hub \in Handle
      BY <2>3 DEF ResumeDrains, TypeOK
    <3> QED
      BY <2>3, <3>1, <3>2 DEF ResumeDrains
  <2>4. CASE ResumeAborts(r)
    <3>1. /\ resume'[r] = [pc |-> "aborting", key |-> resume[r].key, on |-> resume[r].on]
          /\ \A q \in Resumer \ {r} : resume'[q] = resume[q]
      BY <2>4, ResumeMoves DEF ResumeAborts
    <3> QED
      BY <2>4, <3>1 DEF ResumeAborts, Patient
  <2>5. CASE ResumeLetsGo(r) \/ ResumeClaims(r)
    <3>1. /\ \/ resume'[r] = NotResuming
             \/ resume'[r] = [pc |-> "opening", key |-> resume[r].key, on |-> NoHandle]
          /\ \A q \in Resumer \ {r} : resume'[q] = resume[q]
      BY <2>5, ResumeMoves, ResumeStops DEF ResumeLetsGo, ResumeClaims, ClaimKey
    <3> QED
      BY <2>5, <3>1 DEF ResumeLetsGo, ResumeClaims, NotResuming
  <2>6. CASE ResumeOpens(r)
    <3>1. PICK h \in Handle : Unopened(h) /\ PumpAt(h, "reading")
      BY <2>6 DEF ResumeOpens
    <3>2. /\ pump[h].pc = "none" /\ pump'[h].pc = "reading"
          /\ \A g \in Handle \ {h} : pump'[g] = pump[g]
      <4>1. pump[h].pc = "none"
        BY <3>1 DEF Unopened, Opened, NoPump
      <4>2. pump'[h].pc = "reading" /\ \A g \in Handle \ {h} : pump'[g] = pump[g]
        BY <3>1, PumpMoves
      <4> QED
        BY <4>1, <4>2
    <3>3. /\ resume'[r] = NotResuming
          /\ \A q \in Resumer \ {r} : resume'[q] = resume[q]
      BY <2>6, ResumeStops DEF ResumeOpens
    <3>4. UNCHANGED run
      BY <2>6 DEF ResumeOpens
    <3> QED
      BY <3>2, <3>3, <3>4 DEF NotResuming
  <2> QED
    BY <1>5, <2>1, <2>2, <2>3, <2>4, <2>5, <2>6 DEF ResumeStep
<1>6. CASE CloseServer \/ ShutdownSweeps \/ ServerCloses \/ Crash \/ RecoverFromRestart
  BY <1>6 DEF CloseServer, ShutdownSweeps, ServerCloses, Crash, RecoverFromRestart,
     NothingVolatile, 
    NoPump, NotResuming, EndRunFor
<1>7. CASE UNCHANGED vars
  BY <1>7 DEF vars
<1> QED
  BY <1>1, <1>2, <1>3, <1>4, <1>5, <1>6, <1>7 DEF Next

(* A resume under way has a key; one that opens a runtime holds it, alone. *)
KeysAgree ==
  \A r \in Resumer :
    /\ resume[r].pc # "idle" => resume[r].key \in Key
    /\ resume[r].pc = "opening" => key[resume[r].key] = "claimed"
    /\ \A q \in Resumer : resume[r].pc = "opening" /\ resume[q].pc = "opening"
                          /\ resume[q].key = resume[r].key => q = r

(* Nobody resumes at first. *)
LEMMA KeysAgreeInit == Init => KeysAgree
BY DEF Init, KeysAgree, NotResuming

(* claimInitiation gives a key to one request, and only that request frees or *)
(* settles it, unless the process goes.                                       *)
LEMMA KeysAgreeNext == TypeOK /\ KeysAgree /\ [Next]_vars => KeysAgree'
<1> SUFFICES ASSUME TypeOK, KeysAgree, [Next]_vars PROVE KeysAgree'
  OBVIOUS
<1> USE DEF KeysAgree
<1>1. ASSUME NEW r \in Resumer, NEW k \in Key, ResumeAsked(r, k) PROVE KeysAgree'
  <2>1. /\ resume'[r] = [pc |-> "planned", key |-> k, on |-> NoHandle]
        /\ \A q \in Resumer \ {r} : resume'[q] = resume[q]
    BY <1>1, ResumeMoves DEF ResumeAsked
  <2>2. UNCHANGED key
    BY <1>1 DEF ResumeAsked, rows
  <2> QED
    BY <2>1, <2>2
<1>2. ASSUME NEW r \in Resumer, ResumeReplays(r) PROVE KeysAgree'
  <2>1. resume'[r] = NotResuming /\ \A q \in Resumer \ {r} : resume'[q] = resume[q]
    BY <1>2, ResumeStops DEF ResumeReplays
  <2>2. UNCHANGED key
    BY <1>2 DEF ResumeReplays, rows
  <2> QED
    BY <2>1, <2>2 DEF NotResuming
<1>3. ASSUME NEW r \in Resumer, ResumeDrains(r) \/ ResumeAborts(r) PROVE KeysAgree'
  <2>1. /\ \/ resume'[r] = [pc |-> "draining", key |-> resume[r].key, on |-> hub]
           \/ resume'[r] = [pc |-> "aborting", key |-> resume[r].key, on |-> resume[r].on]
        /\ \A q \in Resumer \ {r} : resume'[q] = resume[q]
    BY <1>3, ResumeMoves DEF ResumeDrains, ResumeAborts
  <2>2. UNCHANGED key /\ resume[r].pc # "idle"
    BY <1>3 DEF ResumeDrains, ResumeAborts, rows
  <2> QED
    BY <2>1, <2>2
<1>4. ASSUME NEW r \in Resumer, ResumeLetsGo(r) \/ ResumeClaims(r) PROVE KeysAgree'
  <2> DEFINE k == resume[r].key
  <2>1. k \in Key /\ ClaimKey(r, k)
    BY <1>4 DEF ResumeLetsGo, ResumeClaims
  <2>2. CASE key[k] = "free"
    <3>1. /\ resume'[r] = [pc |-> "opening", key |-> k, on |-> NoHandle]
          /\ \A q \in Resumer \ {r} : resume'[q] = resume[q]
          /\ key' = [key EXCEPT ![k] = "claimed"]
      BY <2>1, <2>2, ResumeMoves DEF ClaimKey
    <3> QED
      BY <2>1, <2>2, <3>1 DEF TypeOK
  <2>3. CASE key[k] # "free"
    <3>1. resume'[r].pc = "idle" /\ \A q \in Resumer \ {r} : resume'[q] = resume[q]
      BY <2>1, <2>3, ResumeStops DEF ClaimKey, NotResuming
    <3> QED
      BY <2>1, <2>3, <3>1 DEF ClaimKey
  <2> QED
    BY <2>2, <2>3
<1>5. ASSUME NEW r \in Resumer, ResumeFails(r) \/ ResumeOpens(r) PROVE KeysAgree'
  <2>1. resume'[r].pc = "idle" /\ \A q \in Resumer \ {r} : resume'[q] = resume[q]
    BY <1>5, ResumeStops DEF ResumeFails, ResumeOpens, NotResuming
  <2>2. /\ resume[r].pc = "opening"
        /\ \E to : key' = [key EXCEPT ![resume[r].key] = to]
    BY <1>5 DEF ResumeFails, ResumeOpens
  <2>3. \A q \in Resumer \ {r} : resume[q].pc = "opening" => resume[q].key # resume[r].key
    BY <2>2
  <2> QED
    BY <2>1, <2>2, <2>3 DEF TypeOK
<1>6. CASE Crash \/ RecoverFromRestart
  BY <1>6 DEF Crash, RecoverFromRestart, NothingVolatile, NotResuming
<1>7. CASE UNCHANGED <<resume, key>>
  BY <1>7
<1>8. \/ UNCHANGED <<resume, key>> \/ Crash \/ RecoverFromRestart
      \/ \E r \in Resumer : (\E k \in Key : ResumeAsked(r, k)) \/ ResumeStep(r)
  BY DEF Next, vars, rows, requests, ghosts, boots, StartRun, Starting, RuntimeRefuses,
     RuntimeStarts, RootClaimRefused, ClaimGranted, RuntimeGoes, PumpStep, PumpSubmissionAnswered,
     Rejected, Accepted, TooLate, PumpGoesOn, PumpReadsEnd, PumpFails, EndFromObservation, Detach,
     BudgetStopFinishes, PumpSubmits, BudgetStops, SubmitAsked, SubmitAnswered, StopAsked,
     StopFinishes, CloseServer, ShutdownSweeps, ServerCloses
<1> QED
  BY <1>1, <1>2, <1>3, <1>4, <1>5, <1>6, <1>7, <1>8 DEF ResumeStep

-----------------------------------------------------------------------------
(* All resumes carry the same initiation key: they are one gesture and its repeats. *)
OneGesture == \A j, k \in Key : j = k

(* As long as the run runs, one runtime drives the session: only the attached one *)
(* has a pump, and whoever waits to settle the run (a stop, a budget stop)        *)
(* recorded the end that stands and has asked that runtime to stop.               *)
Tethered ==
  (OneGesture \/ crashes = 0) /\ Serving /\ run = "running" =>
    /\ \A h \in Handle : pump[h].pc # "none" => hub = h
    /\ hub # NoHandle => pump[hub].pc # "none"
    /\ \A x \in Stopper : Pending(x) => /\ session = stop[x].end
                                      /\ hub # NoHandle /\ runtime[hub] # "running"
    /\ \A h \in Handle : pump[h].pc = "enforcing" => /\ session = "out-of-budget"
                                                    /\ runtime[h] # "running"
    /\ \A r \in Resumer : resume[r].pc = "opening" => hub = NoHandle

(* Without a crash nobody gets to open a runtime for a session whose run runs. *)
NotYetResumed ==
  crashes = 0 /\ Serving /\ run = "running" =>
    \A r \in Resumer : /\ resume[r].pc # "opening"
                       /\ resume[r].pc # "idle" => Ended

(* Without a crash a session stays attached until its run has ended, unless its *)
(* start was refused, and a sweep has asked its runtime to stop.                *)
StaysAttached ==
  crashes = 0 /\ Serving /\ run = "running" =>
    /\ session # "none" /\ hub = NoHandle => session = "live" /\ 1 \in astray
    /\ server = "sweeping" /\ hub # NoHandle => runtime[hub] # "running"

(* A server that closed gracefully left no ended session with a running run. *)
ClosedIsSettled ==
  crashes = 0 =>
    /\ server # "down"
    /\ server = "closed" /\ Ended => run # "running"

(* What a process that was never killed can rely on. *)
NeverKilled == NotYetResumed /\ StaysAttached /\ ClosedIsSettled

(* The parts of the invariant that the others rest on. *)
RunsOn == TypeOK /\ Begun /\ Opened /\ DrainedMeansSettled /\ KeysAgree

(* Only these steps leave a running run running and are of any concern to it. *)
LEMMA WhileItRuns ==
  ASSUME RunsOn, [Next]_vars, run' = "running"
  PROVE  \/ StartRun \/ RuntimeStarts \/ RootClaimRefused
         \/ \E h \in Handle : \/ RuntimeGoes(h) \/ PumpSubmits(h) \/ PumpGoesOn(h)
                              \/ PumpSubmissionAnswered(h) /\ Rejected /\ PumpAt(h, "reading")
                              \/ BudgetStops(h) /\ hub # NoHandle
         \/ \E x \in Stopper, end \in StopEnds : StopAsked(x, end) /\ hub # NoHandle
         \/ \E r \in Resumer :
              \/ \E k \in Key : ResumeAsked(r, k)
              \/ ResumeReplays(r) \/ ResumeDrains(r) \/ ResumeAborts(r) \/ ResumeClaims(r)
              \/ ResumeFails(r) \/ ResumeOpens(r)
         \/ CloseServer \/ ShutdownSweeps \/ ServerCloses \/ Crash
         \/ RecoverFromRestart /\ session' = session
         \/ UNCHANGED <<session, run, runtime, pump, hub, stop, resume, astray, server, crashes>>
<1> USE DEF RunsOn, rows, requests, ghosts, boots
<1>1. ASSUME NEW end \in SessionEnds PROVE ~EndRunFor(end)
  BY OutcomesAreEnds DEF EndRunFor, RunEnds
<1>2. ASSUME NEW h \in Handle, PumpStep(h)
      PROVE  \/ PumpGoesOn(h)
             \/ PumpSubmissionAnswered(h) /\ Rejected /\ PumpAt(h, "reading")
  <2>1. ~PumpReadsEnd(h) /\ ~PumpFails(h)
    <3> SUFFICES ASSUME PumpReadsEnd(h) \/ PumpFails(h) PROVE FALSE
      OBVIOUS
    <3>1. PICK end \in SessionEnds : EndFromObservation(h, end)
      BY PumpEnds
    <3>2. session # "none"
      BY PumpEnds DEF Begun, NoPump
    <3> QED
      BY <1>1, <3>1, <3>2, FirstEndIsEnd DEF EndFromObservation
  <2>2. ~Detach(h)
    BY DEF Detach, DrainedMeansSettled
  <2>3. ~BudgetStopFinishes(h)
    BY <1>1 DEF BudgetStopFinishes, SessionEnds
  <2>4. CASE PumpSubmissionAnswered(h)
    BY <2>4 DEF PumpSubmissionAnswered, Accepted, TooLate
  <2> QED
    BY <1>2, <2>1, <2>2, <2>3, <2>4 DEF PumpStep
<1>3. ASSUME NEW h \in Handle, BudgetStops(h) PROVE hub # NoHandle
  BY <1>1, <1>3 DEF BudgetStops, SessionEnds
<1>4. ASSUME NEW u \in Submitter, SubmitAsked(u) \/ SubmitAnswered(u)
      PROVE  UNCHANGED <<session, run, runtime, pump, hub, stop, resume, astray, server, crashes>>
  BY <1>4 DEF SubmitAsked, SubmitAnswered, Rejected, Accepted, TooLate
<1>5. ASSUME NEW x \in Stopper PROVE ~StopFinishes(x)
  BY <1>1 DEF StopFinishes, TypeOK
<1>6. ASSUME NEW x \in Stopper, NEW end \in StopEnds, StopAsked(x, end) PROVE hub # NoHandle
  <2>1. FirstEnd(end) \in SessionEnds
    BY <1>6, FirstEndIsEnd, StopEndsAreEnds DEF StopAsked
  <2> QED
    BY <1>1, <1>6, <2>1 DEF StopAsked
<1>7. ASSUME NEW r \in Resumer PROVE ~ResumeLetsGo(r)
  BY DEF ResumeLetsGo, DrainedMeansSettled
<1>8. CASE RecoverFromRestart
  BY <1>1, <1>8 DEF RecoverFromRestart, SessionEnds
<1>9. CASE RuntimeRefuses \/ ClaimGranted
  BY <1>9 DEF RuntimeRefuses, ClaimGranted
<1>10. CASE UNCHANGED vars
  BY <1>10 DEF vars
<1> QED
  BY <1>2, <1>3, <1>4, <1>5, <1>6, <1>7, <1>8, <1>9, <1>10 DEF Next, Starting, ResumeStep

(* Nothing drives the session at first. *)
LEMMA TetheredInit == Init => Tethered
BY DEF Init, Tethered, NoPump, NotResuming, Pending

(* No step gives a running run a second runtime, or a second opinion on its end. *)
LEMMA TetheredNext ==
  Patient /\ RunsOn /\ Tethered /\ NeverKilled /\ [Next]_vars => Tethered'
<1> SUFFICES ASSUME Patient, RunsOn, Tethered, NeverKilled, [Next]_vars,
                    OneGesture \/ crashes' = 0, Serving', run' = "running"
             PROVE  Tethered'
  BY DEF Tethered, OneGesture
<1> USE HandleFacts DEF Serving, Pending, requests, ghosts, boots
<1>1. CASE StartRun
  BY <1>1 DEF StartRun, Tethered, RunsOn, Begun, NoPump
<1>2. CASE RuntimeStarts
  <2>1. pump'[1].pc = "reading" /\ \A g \in Handle \ {1} : pump'[g].pc = "none"
    BY <1>2, PumpMoves DEF RuntimeStarts, RunsOn, Begun, NoPump
  <2> QED
    BY <1>2, <2>1 DEF RuntimeStarts, Tethered, RunsOn, Begun
<1>3. CASE RootClaimRefused
  BY <1>3 DEF RootClaimRefused, Tethered, RunsOn, Begun, NoPump
<1>4. ASSUME NEW h \in Handle, RuntimeGoes(h) PROVE Tethered'
  BY <1>4 DEF RuntimeGoes, Tethered, RunsOn, TypeOK, rows
<1>5. ASSUME NEW h \in Handle,
             \/ PumpSubmits(h) \/ PumpGoesOn(h)
             \/ PumpSubmissionAnswered(h) /\ Rejected /\ PumpAt(h, "reading")
      PROVE  Tethered'
  <2>1. /\ pump[h].pc # "none" /\ pump'[h].pc \in {"reading", "evaluating"}
        /\ \A g \in Handle \ {h} : pump'[g] = pump[g]
    BY <1>5, PumpMoves DEF PumpSubmits, Reading, PumpGoesOn, PumpSubmissionAnswered, RunsOn
  <2>2. UNCHANGED <<session, run, runtime, hub, stop, resume, server, crashes>>
    BY <1>5 DEF PumpSubmits, PumpGoesOn, PumpSubmissionAnswered, Rejected, rows
  <2> QED
    BY <2>1, <2>2 DEF Tethered
<1>6. ASSUME NEW h \in Handle, BudgetStops(h), hub # NoHandle PROVE Tethered'
  <2>1. /\ pump[h].pc = "reading" /\ pump'[h].pc = "enforcing"
        /\ \A g \in Handle \ {h} : pump'[g] = pump[g]
    BY <1>6, PumpMoves DEF BudgetStops, Reading, RunsOn
  <2>2. \A g \in Handle : runtime'[g] = IF g = hub /\ runtime[g] = "running" THEN "asked" ELSE runtime[g]
    BY <1>6, HubIsAsked DEF BudgetStops, RunsOn
  <2>3. /\ session = "live" /\ session' = "out-of-budget"
        /\ UNCHANGED <<run, hub, stop, resume, server, crashes>>
    BY <1>6 DEF BudgetStops
  <2>4. hub = h /\ \A x \in Stopper : ~Pending(x)
    BY <2>1, <2>3 DEF Tethered, RunsOn, TypeOK, SessionEnds
  <2> QED
    BY <2>1, <2>2, <2>3, <2>4 DEF Tethered
<1>7. ASSUME NEW x \in Stopper, NEW end \in StopEnds, StopAsked(x, end), hub # NoHandle
      PROVE  Tethered'
  <2>1. \A g \in Handle : runtime'[g] = IF g = hub /\ runtime[g] = "running" THEN "asked" ELSE runtime[g]
    BY <1>7, HubIsAsked DEF StopAsked, RunsOn
  <2>2. /\ stop'[x].end = session'
        /\ \A y \in Stopper \ {x} : stop'[y] = stop[y]
    BY <1>7 DEF StopAsked, RunsOn, TypeOK
  <2>3. UNCHANGED <<run, hub, pump, resume, server, crashes>> /\ session' = FirstEnd(end)
    BY <1>7 DEF StopAsked
  <2>4. session # "live" => session' = session
    BY <2>3 DEF FirstEnd
  <2>5. \A y \in Stopper : Pending(y) => stop[y].end # "live"
    BY DEF RunsOn, TypeOK, SessionEnds
  <2>6. /\ OneGesture \/ crashes = 0
        /\ Serving /\ run = "running" /\ runtime[hub] \in {"running", "asked", "gone"}
    BY <1>7, <2>3 DEF StopAsked, RunsOn, Opened, TypeOK
  <2>7. \A y \in Stopper : Pending(y)' => session' = stop'[y].end
    BY <2>2, <2>4, <2>5, <2>6 DEF Tethered
  <2>8. runtime'[hub] # "running" /\ \A g \in Handle : runtime[g] # "running" => runtime'[g] # "running"
    BY <1>7, <2>1 DEF RunsOn, TypeOK
  <2> QED
    BY <1>7, <2>3, <2>4, <2>6, <2>7, <2>8 DEF Tethered
<1>8. ASSUME NEW r \in Resumer,
             \/ (\E k \in Key : ResumeAsked(r, k)) \/ ResumeReplays(r) \/ ResumeDrains(r)
             \/ ResumeAborts(r) \/ ResumeClaims(r) \/ ResumeFails(r)
      PROVE  Tethered'
  <2> DEFINE OpensUnattached == /\ resume'[r].pc = "opening" => hub = NoHandle
                                /\ \A q \in Resumer \ {r} : resume'[q] = resume[q]
  <2>1. OpensUnattached
    <3>1. ASSUME NEW k \in Key, ResumeAsked(r, k) PROVE OpensUnattached
      <4>1. ResumeAt(r, "planned", k, NoHandle) /\ TypeOK
        BY <3>1 DEF ResumeAsked, RunsOn
      <4>2. resume'[r].pc = "planned" /\ \A q \in Resumer \ {r} : resume'[q] = resume[q]
        BY <4>1, ResumeMoves
      <4> QED
        BY <4>2
    <3>2. CASE ResumeReplays(r) \/ ResumeFails(r)
      BY <3>2, ResumeStops DEF ResumeReplays, ResumeFails, NotResuming, RunsOn
    <3>3. CASE ResumeDrains(r)
      BY <3>3, ResumeMoves DEF ResumeDrains, RunsOn
    <3>4. CASE ResumeAborts(r)
      BY <3>4, ResumeMoves DEF ResumeAborts, RunsOn
    <3>5. CASE ResumeClaims(r)
      BY <3>5, ResumeMoves, ResumeStops DEF ResumeClaims, ClaimKey, RunsOn
    <3> QED
      BY <1>8, <3>1, <3>2, <3>3, <3>4, <3>5
  <2>2. UNCHANGED <<session, run, pump, hub, stop, server, crashes>>
    BY <1>8 DEF ResumeAsked, ResumeReplays, ResumeDrains, ResumeAborts, ResumeClaims,
       ResumeFails, rows
  <2>3. \A g \in Handle : runtime[g] # "running" => runtime'[g] # "running"
    <3>1. CASE ResumeAborts(r)
      BY <3>1, RuntimeAsked DEF ResumeAborts, RunsOn, DrainedMeansSettled
    <3> QED
      BY <1>8, <3>1 DEF ResumeAsked, ResumeReplays, ResumeDrains, ResumeClaims, ResumeFails
  <2> QED
    BY <2>1, <2>2, <2>3 DEF Tethered, RunsOn, TypeOK
<1>9. ASSUME NEW r \in Resumer, ResumeOpens(r) PROVE Tethered'
  <2>1. PICK h \in Handle : /\ Unopened(h) /\ PumpAt(h, "reading") /\ hub' = h
                            /\ runtime' = [runtime EXCEPT ![h] = "running"]
    BY <1>9 DEF ResumeOpens
  <2>2. resume'[r] = NotResuming /\ \A q \in Resumer \ {r} : resume'[q] = resume[q]
    BY <1>9, ResumeStops DEF ResumeOpens, RunsOn
  <2>3. \A q \in Resumer \ {r} : resume[q].pc # "opening"
    <3>1. resume[r].pc = "opening" /\ Serving /\ run = "running" /\ crashes' = crashes
      BY <1>9 DEF ResumeOpens
    <3>2. CASE crashes = 0
      BY <3>1, <3>2 DEF NeverKilled, NotYetResumed
    <3>3. CASE OneGesture
      BY <3>1, <3>3 DEF RunsOn, KeysAgree, OneGesture
    <3> QED
      BY <3>1, <3>2, <3>3
  <2>4. /\ pump'[h].pc = "reading"
        /\ \A g \in Handle \ {h} : pump'[g] = pump[g]
    BY <2>1, PumpMoves DEF RunsOn
  <2>5. hub = NoHandle /\ UNCHANGED <<run, stop, server, crashes>>
    BY <1>9 DEF ResumeOpens, Tethered
  <2>6. /\ \A x \in Stopper : ~Pending(x)
        /\ \A g \in Handle : pump[g].pc = "none"
    BY <1>9, <2>5 DEF Tethered, ResumeOpens
  <2> QED
    BY <2>1, <2>2, <2>3, <2>4, <2>5, <2>6 DEF Tethered, NotResuming
<1>10. CASE CloseServer
  BY <1>10 DEF CloseServer, Tethered, rows
<1>11. CASE ShutdownSweeps
  <2>1. \A g \in Handle : runtime'[g] = IF g = hub /\ runtime[g] = "running" THEN "asked" ELSE runtime[g]
    BY <1>11, HubIsAsked DEF ShutdownSweeps, RunsOn
  <2>2. UNCHANGED <<pump, hub, stop, resume, crashes>> /\ server = "closing"
    BY <1>11 DEF ShutdownSweeps
  <2>3. UNCHANGED <<session, run>>
    BY <1>11, OutcomesAreEnds DEF ShutdownSweeps, EndRunFor, RunEnds, SessionEnds
  <2> QED
    BY <2>1, <2>2, <2>3 DEF Tethered, RunsOn, TypeOK
<1>12. CASE RecoverFromRestart
  BY <1>12 DEF RecoverFromRestart, NothingVolatile, NoPump, NotResuming, Tethered
<1>13. CASE UNCHANGED <<session, run, runtime, pump, hub, stop, resume, astray, server, crashes>>
  BY <1>13 DEF Tethered
<1>14. ~ServerCloses /\ ~Crash
  BY DEF ServerCloses, Crash
<1> QED
  BY <1>1, <1>2, <1>3, <1>4, <1>5, <1>6, <1>7, <1>8, <1>9, <1>10, <1>11, <1>12, <1>13, <1>14,
     WhileItRuns

(* At first there is nothing to rely on. *)
LEMMA NeverKilledInit == Init => NeverKilled
BY DEF Init, NeverKilled, NotYetResumed, StaysAttached, ClosedIsSettled, NotResuming

(* A run that runs, and was never killed, ran before or starts just now. *)
LEMMA RanBefore ==
  ASSUME RunsOn, [Next]_vars, crashes' = 0, Serving', run' = "running"
  PROVE  \/ StartRun \/ RecoverFromRestart
         \/ crashes = 0 /\ Serving /\ run = "running"
<1> USE DEF Serving, rows, requests, ghosts, boots
<1>1. CASE StartRun \/ RuntimeStarts \/ RootClaimRefused
  BY <1>1 DEF StartRun, RuntimeStarts, RootClaimRefused, RunsOn, Begun
<1>2. ASSUME NEW h \in Handle,
             \/ RuntimeGoes(h) \/ PumpSubmits(h) \/ PumpGoesOn(h)
             \/ PumpSubmissionAnswered(h) /\ Rejected /\ PumpAt(h, "reading")
             \/ BudgetStops(h) /\ hub # NoHandle
      PROVE  crashes = 0 /\ Serving /\ run = "running"
  BY <1>2 DEF RuntimeGoes, PumpSubmits, PumpGoesOn, PumpSubmissionAnswered, Rejected, BudgetStops
<1>3. ASSUME NEW x \in Stopper, NEW end \in StopEnds, StopAsked(x, end), hub # NoHandle
      PROVE  crashes = 0 /\ Serving /\ run = "running"
  BY <1>3 DEF StopAsked
<1>4. ASSUME NEW r \in Resumer,
             \/ \E k \in Key : ResumeAsked(r, k)
             \/ ResumeReplays(r) \/ ResumeDrains(r) \/ ResumeAborts(r) \/ ResumeClaims(r)
             \/ ResumeFails(r) \/ ResumeOpens(r)
      PROVE  crashes = 0 /\ Serving /\ run = "running"
  BY <1>4 DEF ResumeAsked, ResumeReplays, ResumeDrains, ResumeAborts, ResumeClaims, ResumeFails,
     ResumeOpens
<1>5. CASE CloseServer \/ ShutdownSweeps
  BY <1>5, OutcomesAreEnds DEF CloseServer, ShutdownSweeps, EndRunFor, RunEnds, SessionEnds
<1>6. ~ServerCloses /\ ~Crash
  BY DEF ServerCloses, Crash
<1>7. CASE UNCHANGED <<session, run, runtime, pump, hub, stop, resume, astray, server, crashes>>
  BY <1>7
<1> QED
  BY <1>1, <1>2, <1>3, <1>4, <1>5, <1>6, <1>7, WhileItRuns

(* resumeSession waits for the old pump, which settles the run first. *)
LEMMA NotYetResumedNext ==
  RunsOn /\ NeverKilled /\ [Next]_vars => NotYetResumed'
<1> SUFFICES ASSUME RunsOn, NeverKilled, [Next]_vars,
                    crashes' = 0, Serving', run' = "running",
                    NEW r \in Resumer
             PROVE  resume'[r].pc # "opening" /\ (resume'[r].pc # "idle" => Ended')
  BY DEF NotYetResumed
<1> USE HandleFacts DEF Serving, requests, ghosts, boots
<1>1. CASE crashes = 0 /\ Serving /\ run = "running"
  <2>1. resume[r].pc # "opening" /\ (resume[r].pc # "idle" => Ended)
    BY <1>1 DEF NeverKilled, NotYetResumed
  <2>2. ASSUME NEW q \in Resumer, NEW k \in Key, ResumeAsked(q, k)
        PROVE  resume'[r].pc # "opening" /\ (resume'[r].pc # "idle" => Ended')
    <3>1. resume'[q].pc = "planned" /\ \A p \in Resumer \ {q} : resume'[p] = resume[p]
      BY <2>2, ResumeMoves DEF ResumeAsked, RunsOn
    <3> QED
      BY <2>1, <2>2, <3>1 DEF ResumeAsked, Ended, rows
  <2>3. ASSUME NEW q \in Resumer, ResumeReplays(q) \/ ResumeFails(q) \/ ResumeOpens(q)
        PROVE  resume'[r].pc # "opening" /\ (resume'[r].pc # "idle" => Ended')
    <3>1. resume'[q].pc = "idle" /\ \A p \in Resumer \ {q} : resume'[p] = resume[p]
      BY <2>3, ResumeStops DEF ResumeReplays, ResumeFails, ResumeOpens, RunsOn
    <3>2. ~ResumeOpens(q)
      BY <1>1 DEF ResumeOpens, NeverKilled, NotYetResumed
    <3> QED
      BY <2>1, <2>3, <3>1, <3>2 DEF ResumeReplays, ResumeFails, Ended, rows
  <2>4. ASSUME NEW q \in Resumer, ResumeDrains(q) \/ ResumeAborts(q)
        PROVE  resume'[r].pc # "opening" /\ (resume'[r].pc # "idle" => Ended')
    <3>1. /\ resume'[q].pc \in {"draining", "aborting"} /\ resume[q].pc # "idle"
          /\ \A p \in Resumer \ {q} : resume'[p] = resume[p]
      <4>1. CASE ResumeDrains(q)
        BY <4>1, ResumeMoves DEF ResumeDrains, RunsOn
      <4>2. CASE ResumeAborts(q)
        BY <4>2, ResumeMoves DEF ResumeAborts, RunsOn
      <4> QED
        BY <2>4, <4>1, <4>2
    <3> QED
      BY <2>1, <2>4, <3>1 DEF ResumeDrains, ResumeAborts, Ended, rows
  <2>5. ASSUME NEW q \in Resumer PROVE ~ResumeClaims(q)
    BY <1>1 DEF ResumeClaims, NeverKilled, NotYetResumed, StaysAttached, Ended, SessionEnds
  <2>6. CASE UNCHANGED resume /\ (Ended => Ended')
    BY <2>1, <2>6
  <2>7. ASSUME StartRun \/ RuntimeStarts \/ RootClaimRefused
        PROVE UNCHANGED resume /\ (Ended => Ended')
    BY <2>7 DEF StartRun, RuntimeStarts, RootClaimRefused, RunsOn, Begun, Ended, SessionEnds
  <2>8. ASSUME NEW h \in Handle,
               \/ RuntimeGoes(h) \/ PumpSubmits(h) \/ PumpGoesOn(h)
               \/ PumpSubmissionAnswered(h) /\ Rejected /\ PumpAt(h, "reading")
               \/ BudgetStops(h) /\ hub # NoHandle
        PROVE  UNCHANGED resume /\ (Ended => Ended')
    BY <2>8 DEF RuntimeGoes, PumpSubmits, PumpGoesOn, PumpSubmissionAnswered, Rejected, BudgetStops,
       Ended, SessionEnds, rows
  <2>9. ASSUME NEW x \in Stopper, NEW end \in StopEnds, StopAsked(x, end)
        PROVE  UNCHANGED resume /\ (Ended => Ended')
    BY <2>9 DEF StopAsked, FirstEnd, Ended, SessionEnds
  <2>10. ASSUME CloseServer \/ ShutdownSweeps PROVE UNCHANGED resume /\ (Ended => Ended')
    BY <2>10 DEF CloseServer, ShutdownSweeps, Ended, SessionEnds, rows
  <2>11. CASE UNCHANGED <<session, run, runtime, pump, hub, stop, resume, astray, server, crashes>>
    BY <2>1, <2>11 DEF Ended
  <2>12. ~ServerCloses /\ ~Crash /\ ~RecoverFromRestart
    BY <1>1 DEF ServerCloses, Crash, RecoverFromRestart
  <2> QED
    BY <2>2, <2>3, <2>4, <2>5, <2>6, <2>7, <2>8, <2>9, <2>10, <2>11, <2>12, WhileItRuns
<1>2. CASE StartRun
  BY <1>2 DEF StartRun, RunsOn, Begun
<1>3. CASE RecoverFromRestart
  BY <1>3 DEF RecoverFromRestart, NothingVolatile, NotResuming
<1> QED
  BY <1>1, <1>2, <1>3, RanBefore

(* Detaching is the last thing a pump does, after settling the run. *)
LEMMA StaysAttachedNext ==
  RunsOn /\ NeverKilled /\ [Next]_vars => StaysAttached'
<1> SUFFICES ASSUME RunsOn, NeverKilled, [Next]_vars, crashes' = 0, Serving', run' = "running"
             PROVE  /\ session' # "none" /\ hub' = NoHandle => session' = "live" /\ 1 \in astray'
                    /\ server' = "sweeping" /\ hub' # NoHandle => runtime'[hub'] # "running"
  BY DEF StaysAttached
<1> USE HandleFacts DEF Serving, requests, ghosts, boots
<1>1. CASE crashes = 0 /\ Serving /\ run = "running"
  <2>1. /\ session # "none" /\ hub = NoHandle => session = "live" /\ 1 \in astray
        /\ server = "sweeping" /\ hub # NoHandle => runtime[hub] # "running"
    BY <1>1 DEF NeverKilled, StaysAttached
  <2>2. CASE StartRun \/ RuntimeStarts \/ RootClaimRefused
    BY <2>1, <2>2 DEF StartRun, RuntimeStarts, RootClaimRefused, RunsOn, Begun
  <2>3. ASSUME NEW h \in Handle, RuntimeGoes(h) PROVE StaysAttached'
    BY <2>1, <2>3 DEF StaysAttached, RuntimeGoes, RunsOn, TypeOK, rows
  <2>4. ASSUME NEW h \in Handle,
               \/ PumpSubmits(h) \/ PumpGoesOn(h)
               \/ PumpSubmissionAnswered(h) /\ Rejected /\ PumpAt(h, "reading")
        PROVE  StaysAttached'
    BY <2>1, <2>4 DEF StaysAttached, PumpSubmits, PumpGoesOn, PumpSubmissionAnswered, Rejected, rows
  <2>5. ASSUME AskHub, UNCHANGED <<hub, server>>, hub # NoHandle PROVE StaysAttached'
    BY <2>1, <2>5, HubIsAsked DEF StaysAttached, RunsOn, TypeOK
  <2>6. ASSUME NEW h \in Handle, BudgetStops(h), hub # NoHandle PROVE StaysAttached'
    BY <2>5, <2>6 DEF BudgetStops
  <2>7. ASSUME NEW x \in Stopper, NEW end \in StopEnds, StopAsked(x, end), hub # NoHandle
        PROVE  StaysAttached'
    BY <2>5, <2>7 DEF StopAsked
  <2>8. ASSUME NEW r \in Resumer, ResumeAborts(r) PROVE StaysAttached'
    BY <2>1, <2>8, RuntimeAsked DEF StaysAttached, ResumeAborts, RunsOn, TypeOK,
       DrainedMeansSettled, rows
  <2>9. ASSUME NEW r \in Resumer,
               \/ \E k \in Key : ResumeAsked(r, k)
               \/ ResumeReplays(r) \/ ResumeDrains(r) \/ ResumeClaims(r) \/ ResumeFails(r)
        PROVE  StaysAttached'
    BY <2>1, <2>9 DEF StaysAttached, ResumeAsked, ResumeReplays, ResumeDrains, ResumeClaims,
       ResumeFails, rows
  <2>10. ASSUME NEW r \in Resumer PROVE ~ResumeOpens(r)
    BY <1>1 DEF ResumeOpens, NeverKilled, NotYetResumed
  <2>11. CASE CloseServer
    BY <2>1, <2>11 DEF StaysAttached, CloseServer, rows
  <2>12. CASE ShutdownSweeps
    <3>1. \A g \in Handle : runtime'[g] = IF g = hub /\ runtime[g] = "running" THEN "asked" ELSE runtime[g]
      BY <2>12, HubIsAsked DEF ShutdownSweeps, RunsOn
    <3>2. UNCHANGED <<hub, astray>>
      BY <2>12 DEF ShutdownSweeps
    <3>3. hub = NoHandle => session' = session
      BY <2>12 DEF ShutdownSweeps
    <3> QED
      BY <2>1, <3>1, <3>2, <3>3 DEF StaysAttached, RunsOn, TypeOK
  <2>13. CASE UNCHANGED <<session, run, runtime, pump, hub, stop, resume, astray, server, crashes>>
    BY <2>1, <2>13 DEF StaysAttached
  <2>14. ~ServerCloses /\ ~Crash /\ ~RecoverFromRestart
    BY <1>1 DEF ServerCloses, Crash, RecoverFromRestart
  <2> QED
    BY <2>2, <2>3, <2>4, <2>6, <2>7, <2>8, <2>9, <2>10, <2>11, <2>12, <2>13, <2>14,
       WhileItRuns DEF StaysAttached
<1>2. CASE StartRun
  BY <1>2 DEF StartRun, RunsOn, Begun
<1>3. CASE RecoverFromRestart
  <2>1. server = "closed" /\ session' = session
    BY <1>3, WhileItRuns, OutcomesAreEnds 
       DEF RecoverFromRestart, NeverKilled, ClosedIsSettled, EndRunFor, RunEnds, SessionEnds
  <2>2. session = "none"
    BY <1>3, <2>1, OutcomesAreEnds DEF RecoverFromRestart, NeverKilled, ClosedIsSettled, EndRunFor,
       RunEnds, SessionEnds, RunsOn, TypeOK, Ended
  <2> QED
    BY <1>3, <2>1, <2>2 DEF RecoverFromRestart
<1> QED
  BY <1>1, <1>2, <1>3, RanBefore

(* The shutdown waits for the pumps of what it swept. *)
LEMMA ClosedIsSettledNext ==
  Patient /\ RunsOn /\ Tethered /\ NeverKilled /\ [Next]_vars => ClosedIsSettled'
<1> SUFFICES ASSUME Patient, RunsOn, Tethered, NeverKilled, [Next]_vars, crashes' = 0
             PROVE  server' # "down" /\ (server' = "closed" /\ Ended' => run' # "running")
  BY DEF ClosedIsSettled
<1> USE HandleFacts DEF rows, requests, ghosts, boots
<1>1. ~Crash
  BY Bounds DEF Crash, RunsOn, TypeOK
<1>2. CASE ServerCloses
  <2>1. SUFFICES ASSUME Ended, run = "running" PROVE FALSE
    BY <1>2 DEF ServerCloses, Ended
  <2>2. crashes = 0 /\ Serving /\ server = "sweeping"
    BY <1>2 DEF ServerCloses, Serving
  <2>3. hub # NoHandle /\ runtime[hub] # "running"
    BY <2>1, <2>2 DEF NeverKilled, StaysAttached, Ended, SessionEnds
  <2>4. runtime[hub] = "gone" /\ hub \in Handle
    BY <1>2, <2>3 DEF ServerCloses, RunsOn, Opened, TypeOK
  <2>5. pump[hub].pc \in {"none", "done"}
    BY <1>2, <2>4 DEF ServerCloses, Drained, Patient
  <2> QED
    BY <2>1, <2>2, <2>4, <2>5 DEF Tethered, RunsOn, DrainedMeansSettled
<1>3. CASE CloseServer \/ ShutdownSweeps \/ RecoverFromRestart
  BY <1>3 DEF CloseServer, ShutdownSweeps, RecoverFromRestart
<1>4. CASE Serving /\ UNCHANGED boots
  BY <1>4 DEF Serving
<1>5. CASE UNCHANGED vars
  BY <1>5 DEF vars, NeverKilled, ClosedIsSettled, Ended
<1>6. Crash \/ ServerCloses \/ CloseServer \/ ShutdownSweeps \/ RecoverFromRestart
      \/ (Serving /\ UNCHANGED boots) \/ UNCHANGED vars \/ \E h \in Handle : RuntimeGoes(h)
  BY DEF Next, Serving, StartRun, Starting, RuntimeRefuses,
     RuntimeStarts, RootClaimRefused, ClaimGranted, PumpStep, PumpSubmissionAnswered,
     PumpGoesOn, PumpReadsEnd, PumpFails, EndFromObservation, Detach, Reading,
     BudgetStopFinishes, PumpSubmits, BudgetStops, SubmitAsked, SubmitAnswered, StopAsked,
     StopFinishes, ResumeAsked, ResumeStep, ResumeReplays, ResumeDrains, ResumeAborts, ResumeLetsGo,
     ResumeClaims, ResumeFails, ResumeOpens
<1>7. ASSUME NEW h \in Handle, RuntimeGoes(h)
      PROVE  server' # "down" /\ (server' = "closed" /\ Ended' => run' # "running")
  BY <1>7 DEF RuntimeGoes, NeverKilled, ClosedIsSettled, Ended
<1> QED
  BY <1>1, <1>2, <1>3, <1>4, <1>5, <1>6, <1>7

-----------------------------------------------------------------------------
(* A live session's attached runtime has a pump that has yet to end. *)
AttachedIsActive == Serving /\ session = "live" /\ hub # NoHandle => Active(hub)

(* Nothing is attached at first. *)
LEMMA AttachedIsActiveInit == Init => AttachedIsActive
BY DEF Init, AttachedIsActive

(* A pump ends by recording an end, so its session is not live after it. *)
LEMMA AttachedIsActiveNext == TypeOK /\ Begun /\ AttachedIsActive /\ [Next]_vars => AttachedIsActive'
<1> SUFFICES ASSUME TypeOK, Begun, AttachedIsActive, [Next]_vars,
                    Serving', session' = "live", hub' # NoHandle
             PROVE  pump'[hub'].pc \notin {"none", "ended", "done"}
  BY DEF AttachedIsActive, Active
<1> USE HandleFacts DEF Serving, Active, requests, ghosts, boots
<1>1. CASE RuntimeStarts
  BY <1>1, PumpMoves DEF RuntimeStarts
<1>2. CASE \E r \in Resumer : ResumeOpens(r)
  <2>1. PICK r \in Resumer, h \in Handle : PumpAt(h, "reading") /\ hub' = h
    BY <1>2 DEF ResumeOpens
  <2>2. pump'[h].pc = "reading"
    BY <2>1, PumpMoves
  <2> QED
    BY <2>1, <2>2
<1>3. CASE Serving /\ session = "live" /\ UNCHANGED <<hub, pump>>
  BY <1>3 DEF AttachedIsActive
<1>4. ASSUME NEW h \in Handle, PumpSubmissionAnswered(h)
      PROVE pump'[hub'].pc \notin {"none", "ended", "done"}
  <2>1. pump'[h].pc \in {"reading", "closing", "failing"} /\ \A g \in Handle \ {h} : pump'[g] = pump[g]
    BY <1>4, PumpMoves DEF PumpSubmissionAnswered
  <2>2. Serving /\ session = "live" /\ UNCHANGED hub
    BY <1>4 DEF PumpSubmissionAnswered, Rejected, Accepted, TooLate, FirstEnd, rows
  <2> QED
    BY <2>1, <2>2 DEF AttachedIsActive, TypeOK
<1>5. ASSUME NEW h \in Handle, PumpGoesOn(h) \/ PumpSubmits(h) \/ BudgetStopFinishes(h)
      PROVE pump'[hub'].pc \notin {"none", "ended", "done"}
  <2>1. pump'[h].pc \in {"reading", "evaluating"} /\ \A g \in Handle \ {h} : pump'[g] = pump[g]
    BY <1>5, PumpMoves DEF PumpGoesOn, PumpSubmits, BudgetStopFinishes
  <2>2. Serving /\ session = "live" /\ UNCHANGED hub
    BY <1>5 DEF PumpGoesOn, PumpSubmits, Reading, BudgetStopFinishes, rows
  <2> QED
    BY <2>1, <2>2 DEF AttachedIsActive, TypeOK
<1>6. ASSUME NEW h \in Handle, PumpReadsEnd(h) \/ PumpFails(h) PROVE FALSE
  BY <1>6, PumpEnds, FirstEndIsEnd DEF EndFromObservation, Begun, NoPump, SessionEnds
<1>7. ASSUME NEW h \in Handle, Detach(h) \/ BudgetStops(h) PROVE FALSE
  BY <1>7 DEF Detach, BudgetStops
<1>8. ASSUME NEW r \in Resumer, ResumeLetsGo(r) PROVE FALSE
  BY <1>8 DEF ResumeLetsGo
<1>9. ~ServerCloses /\ ~Crash /\ ~RecoverFromRestart
  BY DEF ServerCloses, Crash, RecoverFromRestart, NothingVolatile
<1>10. CASE UNCHANGED vars
  BY <1>10 DEF vars, rows, AttachedIsActive
<1>11. ASSUME NEW u \in Submitter, SubmitAsked(u) \/ SubmitAnswered(u)
       PROVE  Serving /\ session = "live" /\ UNCHANGED <<hub, pump>>
  BY <1>11 DEF SubmitAsked, SubmitAnswered, Rejected, Accepted, TooLate, FirstEnd, rows
<1>12. ASSUME NEW x \in Stopper, NEW end \in StopEnds, StopAsked(x, end)
       PROVE  Serving /\ session = "live" /\ UNCHANGED <<hub, pump>>
  BY <1>12 DEF StopAsked, FirstEnd, StopEnds
<1>13. ASSUME NEW x \in Stopper, StopFinishes(x)
       PROVE  Serving /\ session = "live" /\ UNCHANGED <<hub, pump>>
  BY <1>13 DEF StopFinishes
<1>14. ASSUME NEW r \in Resumer,
              \/ \E k \in Key : ResumeAsked(r, k)
              \/ ResumeReplays(r) \/ ResumeDrains(r) \/ ResumeAborts(r) \/ ResumeClaims(r) \/ ResumeFails(r)
       PROVE  Serving /\ session = "live" /\ UNCHANGED <<hub, pump>>
  BY <1>14 DEF ResumeAsked, ResumeReplays, ResumeDrains, ResumeAborts, ResumeClaims, ResumeFails,
     rows
<1>15. ASSUME StartRun \/ RuntimeRefuses \/ ClaimGranted \/ CloseServer \/ ShutdownSweeps
              \/ \E h \in Handle : RuntimeGoes(h)
       PROVE  UNCHANGED <<hub, pump>> /\ session' = session /\ (Serving' <=> Serving)
  BY <1>15 DEF StartRun, RuntimeRefuses, ClaimGranted, CloseServer, ShutdownSweeps, RuntimeGoes,
     rows
<1>16. CASE RootClaimRefused
  BY <1>16 DEF RootClaimRefused, Begun
<1> QED
  BY <1>1, <1>2, <1>3, <1>4, <1>5, <1>6, <1>7, <1>8, <1>9, <1>10, <1>11, <1>12, <1>13, <1>14, <1>15,
     <1>16 DEF Next, Starting, PumpStep, ResumeStep

(* A claim outlives the end of its session only in a pump that will release it. *)
Releases ==
  crashes = 0 /\ 1 \notin astray /\ Ended /\ held =>
    Serving /\ \E h \in Handle : Active(h) /\ runtime[h] \in {"asked", "gone"}

(* No session has ended at first. *)
LEMMA ReleasesInit == Init => Releases
BY DEF Init, Releases

(* Every way of ending a session releases its claims, or leaves it to the pump of *)
(* a runtime that was asked to stop.                                              *)
LEMMA ReleasesNext ==
  Patient /\ RunsOn /\ StaysAttached /\ AttachedIsActive /\ Releases /\ [Next]_vars => Releases'
<1> SUFFICES ASSUME Patient, RunsOn, StaysAttached, AttachedIsActive, Releases, [Next]_vars,
                    crashes' = 0, 1 \notin astray', Ended', held'
             PROVE  Serving' /\ \E h \in Handle : Active(h)' /\ runtime'[h] \in {"asked", "gone"}
  BY DEF Releases
<1> DEFINE Goal == Serving' /\ \E h \in Handle : Active(h)' /\ runtime'[h] \in {"asked", "gone"}
<1> USE HandleFacts DEF Active, requests, ghosts, boots
<1>1. ASSUME NEW end, EndRunFor(end) PROVE FALSE
  BY <1>1 DEF EndRunFor
(* The runtime is asked to stop while its pump reads. *)
<1>2. ASSUME AskHub, Serving, UNCHANGED server, session = "live", hub # NoHandle,
             \A h \in Handle : Active(h) => Active(h)'
      PROVE  Goal
  <2>1. Active(hub) /\ hub \in Handle /\ runtime[hub] \in {"running", "asked", "gone"}
    BY <1>2 DEF AttachedIsActive, RunsOn, Opened, TypeOK
  <2>2. runtime'[hub] \in {"asked", "gone"}
    BY <1>2, <2>1, HubIsAsked DEF RunsOn
  <2> QED
    BY <1>2, <2>1, <2>2 DEF Serving
(* It was asked before, and its pump has yet to read its end. *)
<1>3. ASSUME crashes = 0, 1 \notin astray, Ended, held, UNCHANGED server,
             \A h \in Handle : /\ Active(h) => Active(h)'
                               /\ runtime[h] \in {"asked", "gone"} => runtime'[h] \in {"asked", "gone"}
      PROVE  Goal
  BY <1>3 DEF Releases, Serving
<1>4. CASE StartRun \/ Starting \/ ClaimGranted
  BY <1>3, <1>4 DEF StartRun, Starting, RuntimeRefuses, RuntimeStarts, RootClaimRefused,
     ClaimGranted,
     Ended, SessionEnds, RunsOn, Begun
<1>5. ASSUME NEW h \in Handle, RuntimeGoes(h) PROVE Goal
  <2>1. \A g \in Handle : runtime[g] \in {"asked", "gone"} => runtime'[g] \in {"asked", "gone"}
    BY <1>5 DEF RuntimeGoes, RunsOn, TypeOK
  <2> QED
    BY <1>3, <1>5, <2>1 DEF RuntimeGoes, Ended, rows
<1>6. ASSUME NEW h \in Handle, PumpSubmissionAnswered(h) PROVE Goal
  <2>1. \A g \in Handle : Active(g) => Active(g)'
    BY <1>6, PumpMoves DEF PumpSubmissionAnswered, RunsOn
  <2>2. CASE Accepted
    <3>1. session \in {"live"} \cup SessionEnds
      BY <1>6, <2>2 DEF PumpSubmissionAnswered, RunsOn, TypeOK, Begun, NoPump
    <3>2. \A g \in Handle : runtime[g] \in {"asked", "gone"} => runtime'[g] \in {"asked", "gone"}
      BY <2>2, HubIsAsked DEF Accepted, RunsOn
    <3>3. CASE session = "live"
      BY <1>2, <1>6, <2>1, <2>2, <3>3 DEF PumpSubmissionAnswered, Accepted, StaysAttached, Serving
    <3>4. CASE Ended
      BY <1>3, <1>6, <2>1, <2>2, <3>2, <3>4 DEF PumpSubmissionAnswered, Accepted
    <3> QED
      BY <3>1, <3>3, <3>4 DEF Ended
  <2>3. CASE Rejected \/ TooLate
    BY <1>3, <1>6, <2>1, <2>3 DEF PumpSubmissionAnswered, Rejected, TooLate, Ended, rows
  <2> QED
    BY <1>6, <2>2, <2>3 DEF PumpSubmissionAnswered
<1>7. ASSUME NEW h \in Handle, PumpGoesOn(h) \/ PumpSubmits(h) PROVE Goal
  <2>1. \A g \in Handle : Active(g) => Active(g)'
    BY <1>7, PumpMoves DEF PumpGoesOn, PumpSubmits, RunsOn
  <2> QED
    BY <1>3, <1>7, <2>1 DEF PumpGoesOn, PumpSubmits, Ended, rows
<1>8. ASSUME NEW h \in Handle, PumpReadsEnd(h) \/ PumpFails(h) \/ BudgetStopFinishes(h) PROVE FALSE
  BY <1>1, <1>8, PumpEnds DEF EndFromObservation, BudgetStopFinishes
<1>9. ASSUME NEW h \in Handle, Detach(h) PROVE Goal
  <2>1. \A g \in Handle : Active(g) => Active(g)'
    BY <1>9, PumpMoves DEF Detach, RunsOn
  <2> QED
    BY <1>3, <1>9, <2>1 DEF Detach, Ended, rows
<1>10. ASSUME NEW h \in Handle, BudgetStops(h) PROVE Goal
  <2>1. hub # NoHandle /\ PumpWaits(h, "enforcing")
    BY <1>1, <1>10 DEF BudgetStops
  <2>2. \A g \in Handle : Active(g) => Active(g)'
    BY <2>1, PumpMoves DEF RunsOn
  <2> QED
    BY <1>2, <1>10, <2>1, <2>2 DEF BudgetStops, Reading
<1>11. ASSUME NEW u \in Submitter, SubmitAsked(u) PROVE Goal
  BY <1>3, <1>11 DEF SubmitAsked, Ended, rows
<1>12. ASSUME NEW u \in Submitter, SubmitAnswered(u) PROVE Goal
  <2>2. CASE Accepted
    <3>1. session \in {"live"} \cup SessionEnds
      BY <1>12, <2>2 DEF SubmitAnswered, RunsOn, TypeOK, Begun
    <3>2. \A g \in Handle : runtime[g] \in {"asked", "gone"} => runtime'[g] \in {"asked", "gone"}
      BY <2>2, HubIsAsked DEF Accepted, RunsOn
    <3>3. CASE session = "live"
      BY <1>2, <1>12, <2>2, <3>3 DEF SubmitAnswered, Accepted, StaysAttached, Serving
    <3>4. CASE Ended
      BY <1>3, <1>12, <2>2, <3>2, <3>4 DEF SubmitAnswered, Accepted
    <3> QED
      BY <3>1, <3>3, <3>4 DEF Ended
  <2>3. CASE Rejected \/ TooLate
    BY <1>3, <1>12, <2>3 DEF SubmitAnswered, Rejected, TooLate, Ended, rows
  <2> QED
    BY <1>12, <2>2, <2>3 DEF SubmitAnswered
<1>13. ASSUME NEW x \in Stopper, NEW end \in StopEnds, StopAsked(x, end) PROVE Goal
  <2>1. hub # NoHandle
    BY <1>1, <1>13 DEF StopAsked
  <2>2. \A g \in Handle : runtime[g] \in {"asked", "gone"} => runtime'[g] \in {"asked", "gone"}
    BY <1>13, HubIsAsked DEF StopAsked, RunsOn
  <2>3. CASE session = "live"
    BY <1>2, <1>13, <2>1, <2>3 DEF StopAsked
  <2>4. CASE session # "live"
    BY <1>3, <1>13, <2>1, <2>2, <2>4 DEF StopAsked, FirstEnd, Ended
  <2> QED
    BY <2>3, <2>4
<1>14. ASSUME NEW x \in Stopper, StopFinishes(x) PROVE FALSE
  BY <1>1, <1>14 DEF StopFinishes
<1>15. ASSUME NEW r \in Resumer,
              \/ \E k \in Key : ResumeAsked(r, k)
              \/ ResumeReplays(r) \/ ResumeDrains(r) \/ ResumeClaims(r) \/ ResumeFails(r)
              \/ ResumeAborts(r) \/ ResumeLetsGo(r)
       PROVE  Goal
  <2>1. UNCHANGED <<session, held, pump, server, crashes>>
    BY <1>15 DEF ResumeAsked, ResumeReplays, ResumeDrains, ResumeClaims, ResumeFails, ResumeAborts,
       ResumeLetsGo, rows
  <2>2. 1 \notin astray
    BY <1>15 DEF ResumeAsked, ResumeReplays, ResumeDrains, ResumeClaims, ResumeFails, ResumeAborts,
       ResumeLetsGo
  <2>3. \A g \in Handle : runtime[g] \in {"asked", "gone"} => runtime'[g] \in {"asked", "gone"}
    <3>1. CASE ResumeAborts(r)
      BY <3>1, RuntimeAsked DEF ResumeAborts, RunsOn, DrainedMeansSettled
    <3> QED
      BY <1>15, <3>1 DEF ResumeAsked, ResumeReplays, ResumeDrains, ResumeClaims, ResumeFails,
         ResumeLetsGo
  <2> QED
    BY <1>3, <2>1, <2>2, <2>3 DEF Ended
<1>16. ASSUME NEW r \in Resumer, ResumeOpens(r) PROVE FALSE
  BY <1>16 DEF ResumeOpens, Ended, SessionEnds
<1>17. CASE CloseServer
  BY <1>17 DEF CloseServer, Releases, Serving, Ended, rows
<1>18. CASE ShutdownSweeps
  <2>1. UNCHANGED <<session, held>>
    BY <1>1, <1>18 DEF ShutdownSweeps
  <2>2. \A g \in Handle : runtime[g] \in {"asked", "gone"} => runtime'[g] \in {"asked", "gone"}
    BY <1>18, HubIsAsked DEF ShutdownSweeps, RunsOn
  <2> QED
    BY <1>18, <2>1, <2>2 DEF ShutdownSweeps, Releases, Serving, Ended
<1>19. CASE ServerCloses
  BY <1>19 DEF ServerCloses, Drained, Patient, Releases, Serving, Ended, rows
<1>20. ~Crash
  BY Bounds DEF Crash, RunsOn, TypeOK
<1>21. ~RecoverFromRestart
  <2>1. SUFFICES ASSUME RecoverFromRestart PROVE FALSE
    OBVIOUS
  <2>2. session # "live" /\ UNCHANGED <<session, held, astray, crashes>> /\ ~Serving
    BY <1>1, <2>1 DEF RecoverFromRestart, Serving
  <2> QED
    BY <2>2 DEF Releases, Ended
<1>22. CASE UNCHANGED vars
  BY <1>3, <1>22 DEF vars, rows, Ended
<1> QED
  BY <1>4, <1>5, <1>6, <1>7, <1>8, <1>9, <1>10, <1>11, <1>12, <1>13, <1>14, <1>15, <1>16, <1>17,
     <1>18, <1>19, <1>20, <1>21, <1>22 DEF Next, PumpStep, ResumeStep

-----------------------------------------------------------------------------
(* The session and its run take a step of Outcomes, or none. *)
Promised == [Promise!Next]_<<session, run>>

(* Outcomes and endRunFor agree on the outcome a session end stands for. *)
LEMMA SameOutcomes == \A end \in SessionEnds : Promise!RunOutcome(end) = RunOutcome(end)
BY DEF Promise!RunOutcome, RunOutcome

(* A live session that ends, settling its run or not, is what Outcomes calls End. *)
LEMMA EndIsPromised ==
  ASSUME NEW end \in SessionEnds, session = "live", session' = end,
         end = "completed" => run = "completed",
         EndRunFor(end) \/ UNCHANGED run
  PROVE  Promised
<1>1. Promise!End(end)
  BY SameOutcomes DEF EndRunFor, Promise!End
<1> QED
  BY <1>1 DEF Promised, Promise!Next, Promise!SessionEnds, SessionEnds

(* Settling the run of an ended session with that end is what Outcomes calls Settle. *)
LEMMA SettleIsPromised ==
  ASSUME Ended, EndRunFor(session) \/ UNCHANGED run, UNCHANGED session
  PROVE  Promised
<1>1. CASE run = "running" /\ EndRunFor(session)
  BY <1>1, SameOutcomes DEF EndRunFor, Ended, Promise!Settle, Promise!SessionEnds, SessionEnds,
     Promised, Promise!Next
<1> QED
  BY <1>1 DEF EndRunFor, Promised

(* Accepting a submission is what Outcomes calls Prove. *)
LEMMA ProofIsPromised ==
  ASSUME session # "none", Accepted
  PROVE  Promised
BY DEF Accepted, FirstEnd, Promise!Prove, Promised, Promise!Next

(* Every step of the lifecycle is a step of Outcomes, or leaves session and run. *)
LEMMA EveryStepIsPromised ==
  RunsOn /\ ProofEndsRun /\ Tethered /\ (OneGesture \/ crashes = 0) /\ [Next]_vars => Promised
<1> SUFFICES ASSUME RunsOn, ProofEndsRun, Tethered, OneGesture \/ crashes = 0, [Next]_vars
             PROVE  Promised
  OBVIOUS
<1>1. CASE StartRun \/ RuntimeRefuses \/ RuntimeStarts \/ RootClaimRefused
  <2>1. Promise!Begin \/ Promise!Refuse \/ Promise!Open
    BY <1>1 DEF StartRun, RuntimeRefuses, RuntimeStarts, RootClaimRefused, RunsOn, Begun,
       Promise!Begin, Promise!Refuse, Promise!Open
  <2> QED
    BY <2>1 DEF Promised, Promise!Next
<1>2. CASE UNCHANGED <<session, run>>
  BY <1>2 DEF Promised
<1>3. ASSUME NEW h \in Handle, PumpReadsEnd(h) \/ PumpFails(h) PROVE Promised
  <2>1. PICK end \in SessionEnds : EndFromObservation(h, end) /\ (end = "completed" => Proven)
    BY <1>3, PumpEnds
  <2>2. session # "none"
    BY <1>3, PumpEnds DEF RunsOn, Begun, NoPump
  <2>3. CASE session = "live"
    BY <2>1, <2>3, EndIsPromised DEF EndFromObservation, FirstEnd, Proven, ProofEndsRun
  <2>4. CASE Ended
    BY <2>1, <2>4, SettleIsPromised DEF EndFromObservation, FirstEnd, Ended, SessionEnds
  <2> QED
    BY <2>2, <2>3, <2>4 DEF RunsOn, TypeOK, Ended
<1>4. ASSUME NEW h \in Handle, PumpSubmissionAnswered(h) PROVE Promised
  <2>1. session # "none"
    BY <1>4 DEF PumpSubmissionAnswered, RunsOn, Begun, NoPump
  <2> QED
    BY <1>2, <1>4, <2>1, ProofIsPromised DEF PumpSubmissionAnswered, Rejected, TooLate, rows
<1>5. ASSUME NEW u \in Submitter, SubmitAnswered(u) PROVE Promised
  <2>1. session # "none"
    BY <1>5 DEF SubmitAnswered, RunsOn, Begun
  <2> QED
    BY <1>2, <1>5, <2>1, ProofIsPromised DEF SubmitAnswered, Rejected, TooLate, rows
<1>6. ASSUME NEW h \in Handle, BudgetStops(h) PROVE Promised
  BY <1>6, EndIsPromised DEF BudgetStops, SessionEnds
<1>7. ASSUME NEW h \in Handle, BudgetStopFinishes(h) PROVE Promised
  <2>1. session = "out-of-budget" \/ run # "running"
    BY <1>7 DEF BudgetStopFinishes, Tethered
  <2> QED
    BY <1>2, <1>7, <2>1, SettleIsPromised DEF BudgetStopFinishes, EndRunFor, Ended, SessionEnds
<1>8. ASSUME NEW x \in Stopper, NEW end \in StopEnds, StopAsked(x, end) PROVE Promised
  <2>1. FirstEnd(end) = IF session = "live" THEN end ELSE session
    BY DEF FirstEnd
  <2>2. CASE session = "live"
    BY <1>8, <2>1, <2>2, EndIsPromised, StopEndsAreEnds DEF StopAsked
  <2>3. CASE Ended
    BY <1>8, <2>1, <2>3, SettleIsPromised DEF StopAsked, Ended, SessionEnds
  <2> QED
    BY <1>8, <2>2, <2>3 DEF StopAsked, RunsOn, TypeOK, Ended
<1>9. ASSUME NEW x \in Stopper, StopFinishes(x) PROVE Promised
  <2>1. session = stop[x].end \/ run # "running"
    BY <1>9 DEF StopFinishes, Tethered, Pending
  <2>2. session = stop[x].end => Ended
    BY <1>9 DEF StopFinishes, RunsOn, TypeOK, Ended
  <2> QED
    BY <1>2, <1>9, <2>1, <2>2, SettleIsPromised DEF StopFinishes, EndRunFor
<1>10. ASSUME NEW r \in Resumer, ResumeOpens(r) PROVE Promised
  <2>1. session # "none"
    BY <1>10 DEF ResumeOpens, RunsOn, Begun
  <2>2. CASE session = "live"
    BY <1>2, <1>10, <2>2 DEF ResumeOpens
  <2>3. CASE Ended
    BY <1>10, <2>3 DEF ResumeOpens, Ended, Promised, Promise!Next, Promise!Resume,
       Promise!SessionEnds, SessionEnds
  <2> QED
    BY <2>1, <2>2, <2>3 DEF RunsOn, TypeOK, Ended
<1>11. CASE ShutdownSweeps \/ RecoverFromRestart
  BY <1>2, <1>11, EndIsPromised DEF ShutdownSweeps, RecoverFromRestart, SessionEnds
<1>12. \/ StartRun \/ Starting \/ ShutdownSweeps \/ RecoverFromRestart \/ UNCHANGED <<session, run>>
       \/ \E h \in Handle : PumpStep(h) \/ BudgetStops(h)
       \/ \E u \in Submitter : SubmitAnswered(u)
       \/ \E x \in Stopper : (\E end \in StopEnds : StopAsked(x, end)) \/ StopFinishes(x)
       \/ \E r \in Resumer : ResumeOpens(r)
  BY DEF Next, vars, rows, ClaimGranted, RuntimeGoes, PumpSubmits, SubmitAsked, ResumeAsked,
     ResumeStep,
     ResumeReplays, ResumeDrains, ResumeAborts, ResumeLetsGo, ResumeClaims, ResumeFails, CloseServer,
     ServerCloses, Crash
<1>13. ASSUME NEW h \in Handle, PumpGoesOn(h) \/ Detach(h) PROVE UNCHANGED <<session, run>>
  BY <1>13 DEF PumpGoesOn, Detach, rows
<1> QED
  BY <1>1, <1>2, <1>3, <1>4, <1>5, <1>6, <1>7, <1>8, <1>9, <1>10, <1>11, <1>12, <1>13
     DEF Starting, PumpStep

-----------------------------------------------------------------------------
(* A pump that is through, or was never opened. *)
Over(h) == pump[h].pc \in {"none", "done"}
(* A resume whose key has not been spent. *)
Unsettled(r) == resume[r].pc # "idle" /\ key[resume[r].key] # "settled"

(* What a gesture that has yet to take effect finds, when there is no other. *)
Retried ==
  /\ \A r \in Resumer : Unsettled(r) => Ended
  /\ Serving =>
       /\ \A r \in Resumer : resume[r].pc = "opening" => hub = NoHandle /\ \A h \in Handle : Over(h)
       /\ (\A k \in Key : key[k] # "settled") => \A h \in Handle : ~Over(h) => hub = h
       /\ \A r \in Resumer : Unsettled(r) /\ resume[r].pc \in {"draining", "aborting"}
                               => hub \in {resume[r].on, NoHandle}
       /\ hub # NoHandle => \A h \in Handle \ {hub} : Over(h)

(* Nobody resumes at first. *)
LEMMA RetriedInit == Init => Retried
BY DEF Init, Retried, Unsettled, NotResuming, Over, NoPump

(* What a pump step does to the pumps that are not through. *)
LEMMA PumpsOver ==
  ASSUME TypeOK, NEW h \in Handle, ~Over(h), NEW to, PumpAt(h, to) \/ PumpWaits(h, to)
  PROVE  /\ \A g \in Handle : ~Over(g)' => ~Over(g)
         /\ to \notin {"none", "done"} => ~Over(h)'
         /\ to = "done" => Over(h)'
<1>1. /\ pump'[h].pc = to
      /\ \A g \in Handle \ {h} : pump'[g] = pump[g]
  BY PumpMoves
<1> QED
  BY <1>1 DEF Over

(* Most steps leave resumes alone and open no pump. *)
Quiet ==
  /\ UNCHANGED <<hub, resume, key>>
  /\ Ended => Ended'
  /\ Serving' => Serving
  /\ \A h \in Handle : ~Over(h)' => ~Over(h)

(* The steps that do more are these. *)
LEMMA QuietSteps ==
  ASSUME RunsOn, [Next]_vars
  PROVE  \/ Quiet
         \/ RuntimeStarts \/ ServerCloses \/ Crash \/ RecoverFromRestart
         \/ \E h \in Handle : Detach(h)
         \/ \E r \in Resumer : (\E k \in Key : ResumeAsked(r, k)) \/ ResumeStep(r)
<1> USE DEF RunsOn, Quiet, Serving, requests, ghosts, boots
<1>1. ASSUME NEW h \in Handle, PumpReadsEnd(h) \/ PumpFails(h) PROVE Quiet
  <2>1. PICK end \in SessionEnds : EndFromObservation(h, end)
    BY <1>1, PumpEnds
  <2>2. \A g \in Handle : ~Over(g)' => ~Over(g)
    BY <1>1, <2>1, PumpEnds, PumpsOver DEF EndFromObservation, Over
  <2> QED
    BY <2>1, <2>2 DEF EndFromObservation, FirstEnd, Ended, SessionEnds
<1>2. ASSUME NEW h \in Handle, PumpSubmissionAnswered(h) PROVE Quiet
  <2>1. \A g \in Handle : ~Over(g)' => ~Over(g)
    BY <1>2, PumpsOver DEF PumpSubmissionAnswered, Over
  <2> QED
    BY <1>2, <2>1 DEF PumpSubmissionAnswered, Rejected, Accepted, TooLate, FirstEnd, Ended,
       SessionEnds, rows
<1>3. ASSUME NEW h \in Handle, PumpGoesOn(h) \/ PumpSubmits(h) \/ BudgetStopFinishes(h) PROVE Quiet
  <2>1. \A g \in Handle : ~Over(g)' => ~Over(g)
    BY <1>3, PumpsOver DEF PumpGoesOn, PumpSubmits, BudgetStopFinishes, Reading, Over
  <2> QED
    BY <1>3, <2>1 DEF PumpGoesOn, PumpSubmits, BudgetStopFinishes, Ended, rows
<1>4. ASSUME NEW h \in Handle, BudgetStops(h) PROVE Quiet
  <2>1. \A g \in Handle : ~Over(g)' => ~Over(g)
    BY <1>4, PumpsOver DEF BudgetStops, Reading, Over
  <2> QED
    BY <1>4, <2>1 DEF BudgetStops, Ended, SessionEnds
<1>5. CASE StartRun \/ RuntimeRefuses \/ RootClaimRefused \/ ClaimGranted
  BY <1>5 DEF StartRun, RuntimeRefuses, RootClaimRefused, ClaimGranted, Begun, Ended,
     SessionEnds, Over
<1>6. ASSUME NEW h \in Handle, RuntimeGoes(h) PROVE Quiet
  BY <1>6 DEF RuntimeGoes, Ended, Over, rows
<1>7. ASSUME NEW u \in Submitter, SubmitAsked(u) \/ SubmitAnswered(u) PROVE Quiet
  BY <1>7 DEF SubmitAsked, SubmitAnswered, Rejected, Accepted, TooLate, FirstEnd, Ended,
     SessionEnds, Over, rows
<1>8. ASSUME NEW x \in Stopper, NEW end \in StopEnds, StopAsked(x, end) PROVE Quiet
  BY <1>8 DEF StopAsked, FirstEnd, Ended, SessionEnds, Over
<1>9. ASSUME NEW x \in Stopper, StopFinishes(x) PROVE Quiet
  BY <1>9 DEF StopFinishes, Ended, Over
<1>10. CASE CloseServer \/ ShutdownSweeps
  BY <1>10 DEF CloseServer, ShutdownSweeps, Ended, SessionEnds, Over, rows
<1>11. CASE UNCHANGED vars
  BY <1>11 DEF vars, rows, Ended, Over
<1> QED
  BY <1>1, <1>2, <1>3, <1>4, <1>5, <1>6, <1>7, <1>8, <1>9, <1>10, <1>11 DEF Next, Starting, PumpStep

(* Repeats of one gesture do not disturb each other: the first to open a runtime *)
(* spends the key, and the others give up.                                       *)
LEMMA RetriedNext ==
  OneGesture /\ RunsOn /\ Retried /\ [Next]_vars => Retried'
<1> SUFFICES ASSUME OneGesture, RunsOn, Retried, [Next]_vars PROVE Retried'
  OBVIOUS
<1> USE HandleFacts DEF Retried, Unsettled, requests, ghosts, boots
<1>1. CASE Quiet
  BY <1>1 DEF Quiet
<1>2. CASE RuntimeStarts
  <2>1. pump'[1].pc = "reading" /\ \A g \in Handle \ {1} : pump'[g].pc = "none"
    BY <1>2, PumpMoves DEF RuntimeStarts, RunsOn, Begun, NoPump
  <2> QED
    BY <1>2, <2>1 DEF RuntimeStarts, RunsOn, Begun, Over
<1>3. ASSUME NEW h \in Handle, Detach(h) PROVE Retried'
  <2>1. ~Over(h) /\ Over(h)' /\ \A g \in Handle : ~Over(g)' => ~Over(g)
    BY <1>3, PumpsOver DEF Detach, RunsOn, Over
  <2>2. UNCHANGED <<session, key, resume, server>> /\ Serving /\ hub' = NoHandle
    BY <1>3 DEF Detach, rows
  <2> QED
    BY <2>1, <2>2 DEF Ended, Serving
<1>4. ASSUME NEW r \in Resumer, NEW k \in Key, ResumeAsked(r, k) PROVE Retried'
  <2>1. resume'[r].pc = "planned" /\ \A q \in Resumer \ {r} : resume'[q] = resume[q]
    BY <1>4, ResumeMoves DEF ResumeAsked, RunsOn
  <2>2. UNCHANGED <<session, key, pump, hub, server>> /\ Serving /\ Ended
    BY <1>4 DEF ResumeAsked, rows
  <2> QED
    BY <2>1, <2>2 DEF Ended, Serving, Over
<1>5. ASSUME NEW r \in Resumer, ResumeReplays(r) PROVE Retried'
  <2>1. resume'[r].pc = "idle" /\ \A q \in Resumer \ {r} : resume'[q] = resume[q]
    BY <1>5, ResumeStops DEF ResumeReplays, RunsOn
  <2>2. UNCHANGED <<session, key, pump, hub, server>> /\ Serving
    BY <1>5 DEF ResumeReplays, rows
  <2> QED
    BY <2>1, <2>2 DEF Ended, Serving, Over
<1>6. ASSUME NEW r \in Resumer, ResumeDrains(r) PROVE Retried'
  <2>0. ResumeAt(r, "draining", resume[r].key, hub) /\ TypeOK
    BY <1>6 DEF ResumeDrains, RunsOn
  <2>1. /\ resume'[r] = [pc |-> "draining", key |-> resume[r].key, on |-> hub]
        /\ \A q \in Resumer \ {r} : resume'[q] = resume[q]
    BY <2>0, ResumeMoves
  <2>2. UNCHANGED <<session, key, pump, hub, server>> /\ Serving /\ Ended
    BY <1>6 DEF ResumeDrains, rows
  <2> QED
    BY <2>1, <2>2 DEF Ended, Serving, Over
<1>7. ASSUME NEW r \in Resumer, ResumeAborts(r) PROVE Retried'
  <2>0. ResumeAt(r, "aborting", resume[r].key, resume[r].on) /\ TypeOK
    BY <1>7 DEF ResumeAborts, RunsOn
  <2>1. /\ resume'[r] = [pc |-> "aborting", key |-> resume[r].key, on |-> resume[r].on]
        /\ \A q \in Resumer \ {r} : resume'[q] = resume[q]
    BY <2>0, ResumeMoves
  <2>2. UNCHANGED <<session, key, pump, hub, server>> /\ Serving /\ resume[r].pc = "draining"
    BY <1>7 DEF ResumeAborts, rows
  <2> QED
    BY <2>1, <2>2 DEF Ended, Serving, Over
<1>8. ASSUME NEW r \in Resumer, ResumeLetsGo(r) \/ ResumeClaims(r) PROVE Retried'
  <2> DEFINE k == resume[r].key
  <2>1. /\ k \in Key /\ ClaimKey(r, k) /\ Serving /\ resume[r].pc # "idle"
        /\ UNCHANGED <<session, pump, server>> /\ hub' = NoHandle
    BY <1>8 DEF ResumeLetsGo, ResumeClaims, RunsOn, KeysAgree
  <2>2. CASE key[k] = "free"
    <3>0. ResumeAt(r, "opening", k, NoHandle) /\ TypeOK
      BY <2>1, <2>2 DEF ClaimKey, RunsOn
    <3>1. /\ resume'[r].pc = "opening" /\ resume'[r].key = k
          /\ \A q \in Resumer \ {r} : resume'[q] = resume[q]
      BY <3>0, ResumeMoves
    <3>2. key' = [key EXCEPT ![k] = "claimed"]
      BY <2>1, <2>2 DEF ClaimKey
    <3>3. Ended /\ \A j \in Key : key[j] # "settled"
      BY <2>1, <2>2 DEF OneGesture
    <3>4. \A h \in Handle : Over(h)
      <4>1. CASE ResumeClaims(r)
        BY <2>1, <3>3, <4>1 DEF ResumeClaims
      <4>2. CASE ResumeLetsGo(r)
        <5>1. pump[resume[r].on].pc = "done" /\ hub \in {resume[r].on, NoHandle}
          BY <2>1, <2>2, <4>2 DEF ResumeLetsGo, RunsOn, DrainedMeansSettled
        <5> QED
          BY <2>1, <3>3, <5>1 DEF Over
      <4> QED
        BY <1>8, <4>1, <4>2
    <3> QED
      BY <2>1, <3>1, <3>2, <3>3, <3>4 DEF Ended, Serving, Over, RunsOn, TypeOK
  <2>3. CASE key[k] # "free"
    <3>1. /\ resume'[r].pc = "idle" /\ UNCHANGED key
          /\ \A q \in Resumer \ {r} : resume'[q] = resume[q]
      BY <2>1, <2>3, ResumeStops DEF ClaimKey, RunsOn
    <3>2. ASSUME \A j \in Key : key[j] # "settled" PROVE \A h \in Handle : Over(h)
      <4>1. CASE ResumeClaims(r)
        BY <2>1, <3>2, <4>1 DEF ResumeClaims
      <4>2. CASE ResumeLetsGo(r)
        <5>1. pump[resume[r].on].pc = "done" /\ hub \in {resume[r].on, NoHandle}
          BY <2>1, <3>2, <4>2 DEF ResumeLetsGo, RunsOn, DrainedMeansSettled
        <5> QED
          BY <2>1, <3>2, <5>1 DEF Over
      <4> QED
        BY <1>8, <4>1, <4>2
    <3> QED
      BY <2>1, <3>1, <3>2 DEF Ended, Serving, Over
  <2> QED
    BY <2>2, <2>3
<1>9. ASSUME NEW r \in Resumer, ResumeFails(r) PROVE Retried'
  <2>1. resume'[r].pc = "idle" /\ \A q \in Resumer \ {r} : resume'[q] = resume[q]
    BY <1>9, ResumeStops DEF ResumeFails, RunsOn
  <2>2. /\ UNCHANGED <<session, pump, hub, server>> /\ Serving /\ resume[r].pc = "opening"
        /\ key' = [key EXCEPT ![resume[r].key] = "free"]
    BY <1>9 DEF ResumeFails
  <2>3. /\ resume[r].key \in Key /\ key[resume[r].key] = "claimed"
        /\ \A q \in Resumer : resume[q].pc # "idle" => resume[q].key = resume[r].key
    BY <2>2 DEF RunsOn, KeysAgree, OneGesture
  <2> QED
    BY <2>1, <2>2, <2>3 DEF Ended, Serving, Over
<1>10. ASSUME NEW r \in Resumer, ResumeOpens(r) PROVE Retried'
  <2>1. resume'[r].pc = "idle" /\ \A q \in Resumer \ {r} : resume'[q] = resume[q]
    BY <1>10, ResumeStops DEF ResumeOpens, RunsOn
  <2>2. PICK h \in Handle : PumpAt(h, "reading") /\ hub' = h
    BY <1>10 DEF ResumeOpens
  <2>3. /\ key' = [key EXCEPT ![resume[r].key] = "settled"]
        /\ resume[r].pc = "opening" /\ Serving
    BY <1>10 DEF ResumeOpens
  <2>4. /\ resume[r].key \in Key
        /\ \A q \in Resumer : /\ resume[q].pc # "idle" => resume[q].key = resume[r].key
                              /\ resume[q].pc = "opening" => q = r
    BY <2>3 DEF RunsOn, KeysAgree, OneGesture
  <2>5. key'[resume[r].key] = "settled"
    BY <2>3, <2>4 DEF RunsOn, TypeOK
  <2>6. \A g \in Handle \ {h} : Over(g)'
    BY <2>2, <2>3, PumpMoves DEF Over, RunsOn
  <2> QED
    BY <2>1, <2>2, <2>4, <2>5, <2>6
<1>11. CASE ServerCloses
  BY <1>11 DEF ServerCloses, Serving, Ended, rows
<1>12. CASE Crash \/ RecoverFromRestart
  BY <1>12 DEF Crash, RecoverFromRestart, NothingVolatile, NotResuming, NoPump, Over
<1> QED
  BY <1>1, <1>2, <1>3, <1>4, <1>5, <1>6, <1>7, <1>8, <1>9, <1>10, <1>11, <1>12,
     QuietSteps DEF ResumeStep

(* Whatever drove the session before it was reopened is through. *)
OldAreOver ==
  \A h \in Handle : /\ h < reopened => Over(h)
                    /\ h <= reopened => runtime[h] # "none"

(* Nothing was reopened at first. *)
LEMMA OldAreOverInit == Init => OldAreOver
BY HandleFacts DEF Init, OldAreOver, NoHandle, Handle, Bounds

(* No runtime is unopened, and nothing is reopened. *)
RuntimesStay ==
  /\ UNCHANGED reopened
  /\ \A h \in Handle : runtime[h] # "none" => runtime'[h] # "none"

(* Runtimes are opened by the start of the run and by resumes only. *)
LEMMA RuntimesAreOpened ==
  ASSUME TypeOK, [Next]_vars
  PROVE  RuntimeStarts \/ RuntimesStay \/ \E r \in Resumer : ResumeOpens(r)
<1> USE DEF RuntimesStay, ghosts, boots
<1>1. ASSUME AskHub PROVE \A h \in Handle : runtime[h] # "none" => runtime'[h] # "none"
  BY <1>1, HubIsAsked
<1>2. ASSUME NEW h \in Handle, RuntimeGoes(h) PROVE RuntimesStay
  BY <1>2 DEF RuntimeGoes, TypeOK
<1>3. CASE RootClaimRefused
  BY <1>3 DEF RootClaimRefused, TypeOK
<1>4. ASSUME NEW h \in Handle, PumpStep(h) \/ PumpSubmits(h) \/ BudgetStops(h) PROVE RuntimesStay
  BY <1>1, <1>4 DEF PumpStep, PumpSubmissionAnswered, Rejected, Accepted, TooLate, PumpGoesOn,
     PumpReadsEnd, PumpFails, EndFromObservation, Detach, BudgetStopFinishes, PumpSubmits, BudgetStops, rows
<1>5. ASSUME NEW u \in Submitter, SubmitAsked(u) \/ SubmitAnswered(u) PROVE RuntimesStay
  BY <1>1, <1>5 DEF SubmitAsked, SubmitAnswered, Rejected, Accepted, TooLate
<1>6. ASSUME NEW x \in Stopper, (\E end \in StopEnds : StopAsked(x, end)) \/ StopFinishes(x)
      PROVE  RuntimesStay
  BY <1>1, <1>6 DEF StopAsked, StopFinishes
<1>7. ASSUME NEW r \in Resumer, ResumeAborts(r) PROVE RuntimesStay
  <2>1. resume[r].on \in Handle \cup {NoHandle} /\ runtime' = Asked(resume[r].on)
    BY <1>7 DEF ResumeAborts, TypeOK
  <2> QED
    BY <1>7, <2>1 DEF ResumeAborts, Asked, TypeOK
<1>8. ASSUME NEW r \in Resumer, (\E k \in Key : ResumeAsked(r, k)) \/ ResumeStep(r)
      PROVE  RuntimesStay \/ ResumeOpens(r)
  BY <1>7, <1>8 DEF ResumeAsked, ResumeStep, ResumeReplays, ResumeDrains, ResumeLetsGo,
     ResumeClaims, ResumeFails
<1>9. CASE StartRun \/ RuntimeRefuses \/ ClaimGranted \/ CloseServer \/ ShutdownSweeps \/ ServerCloses
           \/ Crash \/ RecoverFromRestart
  BY <1>1, <1>9 DEF StartRun, RuntimeRefuses, ClaimGranted, CloseServer, ShutdownSweeps,
     ServerCloses,
     Crash, RecoverFromRestart
<1>10. CASE UNCHANGED vars
  BY <1>10 DEF vars
<1> QED
  BY <1>2, <1>3, <1>4, <1>5, <1>6, <1>8, <1>9, <1>10 DEF Next, Starting

(* A resume opens its runtime after every older pump is through. *)
LEMMA OldAreOverNext ==
  RunsOn /\ Retried /\ OldAreOver /\ [Next]_vars => OldAreOver'
<1> SUFFICES ASSUME RunsOn, Retried, OldAreOver, [Next]_vars PROVE OldAreOver'
  OBVIOUS
<1> USE HandleFacts DEF OldAreOver, requests, ghosts, boots
<1>1. ASSUME UNCHANGED reopened,
             \A h \in Handle : /\ ~Over(h)' => ~Over(h)
                               /\ runtime[h] # "none" => runtime'[h] # "none"
      PROVE  OldAreOver'
  BY <1>1
<1>2. CASE RuntimeStarts
  BY <1>2 DEF RuntimeStarts, RunsOn, Begun, Handle, NoHandle
<1>3. ASSUME NEW r \in Resumer, ResumeOpens(r) PROVE OldAreOver'
  <2>1. PICK h \in Handle : /\ Unopened(h) /\ PumpAt(h, "reading")
                            /\ runtime' = [runtime EXCEPT ![h] = "running"]
                            /\ reopened' = IF Ended THEN h ELSE reopened
    BY <1>3 DEF ResumeOpens
  <2>2. \A g \in Handle : Over(g)
    BY <1>3 DEF ResumeOpens, Retried
  <2>3. \A g \in Handle \ {h} : Over(g)'
    BY <2>1, <2>2, PumpMoves DEF Over, RunsOn
  <2>4. reopened < h /\ reopened' <= h /\ reopened' \in Nat /\ h \in Nat
    BY <2>1 DEF Unopened, RunsOn, TypeOK, Handle, NoHandle
  <2>5. \A g \in Handle : g <= reopened' => runtime'[g] # "none"
    BY <2>1, <2>4 DEF Unopened, RunsOn, TypeOK, Handle, NoHandle
  <2> QED
    BY <2>3, <2>4, <2>5
<1>4. CASE RuntimesStay /\ ~RuntimeStarts /\ \A r \in Resumer : ~ResumeOpens(r)
  <2>1. \A h \in Handle : ~Over(h)' => ~Over(h)
    <3>1. ASSUME NEW h \in Handle, Detach(h) PROVE \A g \in Handle : ~Over(g)' => ~Over(g)
      BY <3>1, PumpsOver DEF Detach, Over, RunsOn
    <3>2. CASE Crash \/ RecoverFromRestart
      BY <3>2 DEF Crash, RecoverFromRestart, NothingVolatile, NoPump, Over
    <3>4. CASE UNCHANGED pump
      BY <3>4 DEF Over
    <3>5. ASSUME NEW r \in Resumer, (\E k \in Key : ResumeAsked(r, k)) \/ ResumeStep(r)
          PROVE  UNCHANGED pump \/ ResumeOpens(r)
      BY <3>5 DEF ResumeAsked, ResumeStep, ResumeReplays, ResumeDrains, ResumeAborts, ResumeLetsGo,
         ResumeClaims, ResumeFails
    <3> QED
      BY <1>4, <3>1, <3>2, <3>4, <3>5, QuietSteps DEF Quiet, ServerCloses
  <2> QED
    BY <1>1, <1>4, <2>1 DEF RuntimesStay
<1> QED
  BY <1>2, <1>3, <1>4, RuntimesAreOpened DEF RunsOn

-----------------------------------------------------------------------------
(* The server knows every runtime that runs, unless the hub forgot it. *)
Reached ==
  /\ Serving =>
       \A h \in Handle \ astray :
         /\ runtime[h] = "running" => hub = h /\ server # "sweeping"
         /\ \/ pump[h].pc \in {"failing", "ended"}
            \/ pump[h].pc = "evaluating" /\ run # "running"
            => runtime[h] # "running"
  /\ ~Serving => \A h \in Handle \ astray : runtime[h] # "running"

(* Nothing runs at first. *)
LEMMA ReachedInit == Init => Reached
BY DEF Init, Reached

(* A run that ends leaves no runtime running that the hub knows. *)
LEMMA EndStopsRuntimes ==
  ASSUME RunsOn, Tethered, OneGesture, Retried, Reached, [Next]_vars, Serving,
         run = "running", run' # "running"
  PROVE  \A h \in Handle \ astray' : runtime'[h] # "running"
<1> USE HandleFacts DEF RunsOn, Serving, requests, ghosts, boots
<1> DEFINE Gone == \A h \in Handle \ astray' : runtime'[h] # "running"
<1>1. CASE AskHub /\ UNCHANGED astray
  BY <1>1, HubIsAsked DEF Reached
<1>2. CASE hub = NoHandle /\ UNCHANGED <<runtime, astray>>
  BY <1>2 DEF Reached
<1>3. ASSUME hub # NoHandle => runtime[hub] # "running", UNCHANGED <<runtime, astray>>
      PROVE  Gone
  BY <1>3 DEF Reached
<1>4. CASE RuntimeRefuses
  BY <1>4 DEF RuntimeRefuses, Begun
<1>5. ASSUME NEW h \in Handle, PumpReadsEnd(h) \/ PumpFails(h) PROVE Gone
  <2>1. UNCHANGED <<runtime, astray>> /\ pump[h].pc # "none"
    BY <1>5, PumpEnds DEF EndFromObservation
  <2>2. hub = h
    BY <2>1 DEF Tethered
  <2>3. h \in astray \/ runtime[h] # "running"
    BY <1>5, PumpEnds DEF Reached
  <2> QED
    BY <2>1, <2>2, <2>3 DEF Reached
<1>6. ASSUME NEW h \in Handle, PumpSubmissionAnswered(h) PROVE Gone
  BY <1>1, <1>6 DEF PumpSubmissionAnswered, Rejected, Accepted, TooLate
<1>7. ASSUME NEW h \in Handle, BudgetStops(h) PROVE Gone
  BY <1>1, <1>7 DEF BudgetStops
<1>8. ASSUME NEW h \in Handle, BudgetStopFinishes(h) PROVE Gone
  <2>1. hub = h /\ runtime[h] # "running"
    BY <1>8 DEF BudgetStopFinishes, Tethered
  <2> QED
    BY <1>3, <1>8, <2>1 DEF BudgetStopFinishes
<1>9. ASSUME NEW u \in Submitter, SubmitAnswered(u) PROVE Gone
  BY <1>1, <1>9 DEF SubmitAnswered, Rejected, Accepted, TooLate
<1>10. ASSUME NEW x \in Stopper, NEW end \in StopEnds, StopAsked(x, end) PROVE Gone
  BY <1>1, <1>10 DEF StopAsked
<1>11. ASSUME NEW x \in Stopper, StopFinishes(x) PROVE Gone
  <2>1. hub # NoHandle /\ runtime[hub] # "running"
    BY <1>11 DEF StopFinishes, Tethered, Pending
  <2> QED
    BY <1>3, <1>11, <2>1 DEF StopFinishes
<1>12. CASE ShutdownSweeps
  BY <1>1, <1>12 DEF ShutdownSweeps
<1>13. CASE RecoverFromRestart
  BY <1>13 DEF RecoverFromRestart
<1>14. ASSUME UNCHANGED run PROVE FALSE
  BY <1>14
<1>15. \/ RuntimeRefuses \/ ShutdownSweeps \/ RecoverFromRestart \/ UNCHANGED run
       \/ \E h \in Handle : PumpReadsEnd(h) \/ PumpFails(h) \/ PumpSubmissionAnswered(h)
                            \/ BudgetStops(h) \/ BudgetStopFinishes(h)
       \/ \E u \in Submitter : SubmitAnswered(u)
       \/ \E x \in Stopper : (\E end \in StopEnds : StopAsked(x, end)) \/ StopFinishes(x)
  BY DEF Next, vars, rows, StartRun, Starting, RuntimeStarts, RootClaimRefused, ClaimGranted,
     RuntimeGoes,
     PumpStep, PumpGoesOn, Detach, PumpSubmits, SubmitAsked, ResumeAsked, ResumeStep,
     ResumeReplays, ResumeDrains, ResumeAborts, ResumeLetsGo, ResumeClaims, ResumeFails, ResumeOpens,
     CloseServer, ServerCloses, Crash
<1> QED
  BY <1>4, <1>5, <1>6, <1>7, <1>8, <1>9, <1>10, <1>11, <1>12, <1>13, <1>14, <1>15

(* Runtimes run when they are opened, and as long as nobody asks them to stop. *)
Lasting ==
  /\ UNCHANGED <<hub, server>> /\ astray \subseteq astray'
  /\ \A h \in Handle : runtime'[h] = "running" => runtime[h] = "running"

(* Steps after which nothing runs, or is attached, that did not before. *)
LastingSteps ==
  \/ Lasting \/ RuntimeStarts \/ RootClaimRefused \/ CloseServer \/ ShutdownSweeps
  \/ ServerCloses \/ Crash \/ RecoverFromRestart
  \/ \E h \in Handle : Detach(h)
  \/ \E r \in Resumer : ResumeLetsGo(r) \/ ResumeOpens(r)

(* The steps that attach, detach or open a runtime, or change the server. *)
LEMMA RuntimesLast ==
  ASSUME RunsOn, [Next]_vars
  PROVE  LastingSteps
<1> USE DEF LastingSteps, Lasting, RunsOn, requests, ghosts, boots
<1>1. ASSUME AskHub PROVE \A h \in Handle : runtime'[h] = "running" => runtime[h] = "running"
  BY <1>1, HubIsAsked
<1>2. ASSUME NEW h \in Handle, RuntimeGoes(h) PROVE Lasting
  BY <1>2 DEF RuntimeGoes, TypeOK
<1>4. ASSUME NEW h \in Handle, PumpStep(h) \/ PumpSubmits(h) \/ BudgetStops(h)
      PROVE Lasting \/ Detach(h)
  BY <1>1, <1>4 DEF PumpStep, PumpSubmissionAnswered, Rejected, Accepted, TooLate, PumpGoesOn,
     PumpReadsEnd, PumpFails, EndFromObservation, BudgetStopFinishes, PumpSubmits, BudgetStops, rows
<1>5. ASSUME NEW u \in Submitter, SubmitAsked(u) \/ SubmitAnswered(u) PROVE Lasting
  BY <1>1, <1>5 DEF SubmitAsked, SubmitAnswered, Rejected, Accepted, TooLate
<1>6. ASSUME NEW x \in Stopper, (\E end \in StopEnds : StopAsked(x, end)) \/ StopFinishes(x)
      PROVE  Lasting
  BY <1>1, <1>6 DEF StopAsked, StopFinishes
<1>7. ASSUME NEW r \in Resumer, ResumeAborts(r) PROVE Lasting
  BY <1>7, RuntimeAsked DEF ResumeAborts, DrainedMeansSettled
<1>8. ASSUME NEW r \in Resumer, (\E k \in Key : ResumeAsked(r, k)) \/ ResumeStep(r)
      PROVE  Lasting \/ ResumeLetsGo(r) \/ ResumeOpens(r)
  BY <1>7, <1>8 DEF ResumeAsked, ResumeStep, ResumeReplays, ResumeDrains, ResumeClaims, ResumeFails
<1>9. CASE StartRun \/ RuntimeRefuses \/ ClaimGranted
  BY <1>9 DEF StartRun, RuntimeRefuses, ClaimGranted
<1>10. CASE UNCHANGED vars
  BY <1>10 DEF vars
<1> QED
  BY <1>2, <1>4, <1>5, <1>6, <1>8, <1>9, <1>10 DEF Next, Starting

(* The runtimes that run outside astray are attached, and none is left at the end. *)
LEMMA RunningIsAttached ==
  OneGesture /\ RunsOn /\ Retried /\ Reached /\ [Next]_vars =>
    /\ Serving' => \A h \in Handle \ astray' :
                     runtime'[h] = "running" => hub' = h /\ server' # "sweeping"
    /\ ~Serving' => \A h \in Handle \ astray' : runtime'[h] # "running"
<1> SUFFICES ASSUME OneGesture, RunsOn, Retried, Reached, [Next]_vars, NEW h \in Handle \ astray',
                    runtime'[h] = "running"
             PROVE  Serving' /\ hub' = h /\ server' # "sweeping"
  OBVIOUS
<1> USE HandleFacts DEF RunsOn, Serving, requests, ghosts, boots
<1>1. CASE Lasting
  BY <1>1 DEF Lasting, Reached
<1>2. CASE RuntimeStarts \/ RootClaimRefused
  BY <1>2 DEF RuntimeStarts, RootClaimRefused, Begun, TypeOK
<1>3. CASE CloseServer
  BY <1>3 DEF CloseServer, Reached
<1>4. CASE ShutdownSweeps
  <2>1. runtime[h] = "running" /\ hub # h
    BY <1>4, HubIsAsked DEF ShutdownSweeps
  <2> QED
    BY <1>4, <2>1 DEF ShutdownSweeps, Reached
<1>5. CASE ServerCloses
  BY <1>5 DEF ServerCloses, Reached
<1>6. CASE Crash
  BY <1>6 DEF Crash
<1>7. CASE RecoverFromRestart
  BY <1>7 DEF RecoverFromRestart, Reached
<1>8. ASSUME NEW g \in Handle, Detach(g) PROVE FALSE
  <2>1. runtime[h] = "running" /\ h \notin astray /\ hub = h /\ pump[g].pc = "ended" /\ Serving
    BY <1>8 DEF Detach, Reached, rows
  <2>2. g = h
    BY <2>1 DEF Retried, Over
  <2> QED
    BY <2>1, <2>2 DEF Reached
<1>9. ASSUME NEW r \in Resumer, ResumeLetsGo(r) PROVE FALSE
  <2>1. /\ runtime[h] = "running" /\ h \notin astray /\ Serving /\ hub # NoHandle
        /\ hub = resume[r].on
    BY <1>9 DEF ResumeLetsGo, Reached
  <2> QED
    BY <1>9, <2>1 DEF ResumeLetsGo, Awaited, Reached
<1>10. ASSUME NEW r \in Resumer, ResumeOpens(r) PROVE Serving' /\ hub' = h /\ server' # "sweeping"
  <2>1. PICK g \in Handle : /\ runtime' = [runtime EXCEPT ![g] = "running"] /\ hub' = g
                            /\ astray' = IF server = "up" THEN astray ELSE astray \cup {g}
    BY <1>10 DEF ResumeOpens
  <2>2. hub = NoHandle /\ Serving /\ UNCHANGED server
    BY <1>10 DEF ResumeOpens, Retried
  <2>3. h = g
    BY <2>1, <2>2 DEF Reached, TypeOK
  <2> QED
    BY <2>1, <2>2, <2>3
<1> QED
  BY <1>1, <1>2, <1>3, <1>4, <1>5, <1>6, <1>7, <1>8, <1>9, <1>10, RuntimesLast DEF LastingSteps

(* How a pump comes to fail, to end, or to wait for what comes too late. *)
LEMMA PumpsTurn ==
  ASSUME RunsOn, [Next]_vars, Serving', NEW h \in Handle
  PROVE  \/ pump'[h].pc \notin {"failing", "ended", "evaluating"}
         \/ pump'[h].pc = pump[h].pc /\ Serving
         \/ Serving /\ PumpSubmits(h)
         \/ Serving /\ PumpSubmissionAnswered(h) /\ TooLate
         \/ PumpReadsEnd(h) \/ PumpFails(h)
<1> USE HandleFacts DEF RunsOn, Serving, requests, ghosts, boots
<1>1. ASSUME NEW g \in Handle, PumpStep(g) \/ PumpSubmits(g) \/ BudgetStops(g), g # h
      PROVE  pump'[h].pc = pump[h].pc /\ Serving
  <2>1. Serving /\ (UNCHANGED pump \/ \E to : PumpAt(g, to) \/ PumpWaits(g, to))
    BY <1>1 DEF PumpStep, PumpSubmissionAnswered, PumpGoesOn, PumpReadsEnd, PumpFails,
       EndFromObservation, Detach, BudgetStopFinishes, PumpSubmits, BudgetStops, Reading
  <2> QED
    BY <1>1, <2>1, PumpMoves
<1>2. ASSUME PumpGoesOn(h) \/ Detach(h) \/ BudgetStopFinishes(h)
      PROVE  pump'[h].pc \notin {"failing", "ended", "evaluating"}
  BY <1>2, PumpMoves DEF PumpGoesOn, Detach, BudgetStopFinishes
<1>3. ASSUME BudgetStops(h) PROVE pump'[h].pc \notin {"failing", "ended", "evaluating"}
  BY <1>3, PumpMoves DEF BudgetStops, Reading
<1>4. ASSUME PumpSubmissionAnswered(h), ~TooLate
      PROVE  pump'[h].pc \notin {"failing", "ended", "evaluating"}
  BY <1>4, PumpMoves DEF PumpSubmissionAnswered
<1>5. ASSUME PumpSubmits(h) \/ PumpSubmissionAnswered(h) PROVE Serving
  BY <1>5 DEF PumpSubmits, Reading, PumpSubmissionAnswered
<1>6. CASE RuntimeStarts
  <2>1. pump'[1].pc = "reading" /\ \A g \in Handle \ {1} : pump'[g].pc = "none"
    BY <1>6, PumpMoves DEF RuntimeStarts, Begun, NoPump
  <2> QED
    BY <2>1
<1>7. ASSUME NEW r \in Resumer, ResumeOpens(r)
      PROVE  \/ pump'[h].pc \notin {"failing", "ended", "evaluating"}
             \/ pump'[h].pc = pump[h].pc /\ Serving
  <2>1. PICK g \in Handle : PumpAt(g, "reading")
    BY <1>7 DEF ResumeOpens
  <2> QED
    BY <1>7, <2>1, PumpMoves DEF ResumeOpens
<1>8. CASE Crash \/ RecoverFromRestart
  BY <1>8 DEF Crash, RecoverFromRestart, NothingVolatile, NoPump
<1>9. CASE UNCHANGED <<pump, server>>
  BY <1>9
<1>10. CASE CloseServer \/ ShutdownSweeps \/ ServerCloses
  BY <1>10 DEF CloseServer, ShutdownSweeps, ServerCloses
<1>11. \/ RuntimeStarts \/ Crash \/ RecoverFromRestart \/ CloseServer \/ ShutdownSweeps \/ ServerCloses
       \/ UNCHANGED <<pump, server>>
       \/ \E g \in Handle : PumpStep(g) \/ PumpSubmits(g) \/ BudgetStops(g)
       \/ \E r \in Resumer : ResumeOpens(r)
  BY DEF Next, vars, StartRun, Starting, RuntimeRefuses, RootClaimRefused, ClaimGranted,
     RuntimeGoes,
     SubmitAsked, SubmitAnswered, StopAsked, StopFinishes, ResumeAsked, ResumeStep, ResumeReplays,
     ResumeDrains, ResumeAborts, ResumeLetsGo, ResumeClaims, ResumeFails
<1> QED
  BY <1>1, <1>2, <1>3, <1>4, <1>5, <1>6, <1>7, <1>8, <1>9, <1>10, <1>11 DEF PumpStep

(* No step loses sight of a running runtime without counting it astray. *)
LEMMA ReachedNext ==
  OneGesture /\ RunsOn /\ Tethered /\ Retried /\ Reached /\ [Next]_vars => Reached'
<1> SUFFICES ASSUME OneGesture, RunsOn, Tethered, Retried, Reached, [Next]_vars PROVE Reached'
  OBVIOUS
<1>1. ASSUME Serving', NEW h \in Handle \ astray', runtime'[h] = "running"
      PROVE  ~(\/ pump'[h].pc \in {"failing", "ended"}
               \/ pump'[h].pc = "evaluating" /\ run' # "running")
  <2> USE DEF requests, ghosts, boots
  <2>1. ASSUME Serving, run' # "running" PROVE run # "running"
    BY <1>1, <2>1, EndStopsRuntimes
  <2>2. CASE pump'[h].pc = pump[h].pc /\ Serving
    <3>1. SUFFICES ASSUME pump'[h].pc \in {"failing", "ended", "evaluating"}
                   PROVE  runtime[h] = "running" /\ h \notin astray
      BY <1>1, <2>1, <2>2, <3>1 DEF Reached
    <3>2. CASE Lasting
      BY <1>1, <3>2 DEF Lasting
    <3>3. CASE RuntimeStarts \/ RootClaimRefused
      BY <2>2, <3>1, <3>3 DEF RuntimeStarts, RootClaimRefused, RunsOn, Begun, NoPump
    <3>4. CASE CloseServer \/ \E g \in Handle : Detach(g)
      BY <1>1, <3>4 DEF CloseServer, Detach, rows
    <3>5. CASE ShutdownSweeps
      BY <1>1, <3>5, HubIsAsked DEF ShutdownSweeps, RunsOn
    <3>6. CASE ServerCloses \/ Crash \/ RecoverFromRestart
      BY <1>1, <2>2, <3>6 DEF ServerCloses, Crash, RecoverFromRestart, Serving
    <3>7. ASSUME NEW r \in Resumer, ResumeLetsGo(r) PROVE runtime[h] = "running" /\ h \notin astray
      BY <1>1, <3>7 DEF ResumeLetsGo
    <3>8. ASSUME NEW r \in Resumer, ResumeOpens(r) PROVE runtime[h] = "running" /\ h \notin astray
      <4>1. PICK g \in Handle : /\ runtime' = [runtime EXCEPT ![g] = "running"]
                                /\ PumpAt(g, "reading")
                                /\ astray' = IF server = "up" THEN astray ELSE astray \cup {g}
        BY <3>8 DEF ResumeOpens
      <4>2. pump'[g].pc = "reading"
        BY <4>1, PumpMoves DEF RunsOn
      <4> QED
        BY <1>1, <3>1, <4>1, <4>2 DEF RunsOn, TypeOK
    <3> QED
      BY <3>2, <3>3, <3>4, <3>5, <3>6, <3>7, <3>8, RuntimesLast DEF LastingSteps
  <2>3. CASE PumpSubmits(h)
    BY <1>1, <2>3, PumpMoves DEF PumpSubmits, MaySubmit, RunsOn, rows
  <2>4. CASE Serving /\ PumpSubmissionAnswered(h) /\ TooLate
    BY <1>1, <2>4 DEF PumpSubmissionAnswered, TooLate, Reached
  <2>5. CASE PumpReadsEnd(h) \/ PumpFails(h)
    BY <1>1, <2>5, PumpEnds DEF EndFromObservation, Reached
  <2> QED
    BY <1>1, <2>2, <2>3, <2>4, <2>5, PumpsTurn
<1> QED
  BY <1>1, RunningIsAttached DEF Reached

-----------------------------------------------------------------------------
(* The invariant's foundation holds at first ... *)
LEMMA RunsOnInit == Init => RunsOn
BY InitTyped, BegunInit, OpenedInit, DrainedMeansSettledInit, KeysAgreeInit DEF RunsOn

(* ... and is inductive as long as drains are waited for. *)
LEMMA RunsOnNext == Patient /\ RunsOn /\ [Next]_vars => RunsOn'
BY NextTyped, BegunNext, OpenedNext, DrainedMeansSettledNext, KeysAgreeNext DEF RunsOn

(* The inductive invariant of how sessions and runs end. *)
EndsInv == RunsOn /\ ProofEndsRun /\ Tethered /\ NeverKilled /\ AttachedIsActive /\ Releases

(* It holds at first ... *)
LEMMA EndsInvInit == Init => EndsInv
BY RunsOnInit, ProofEndsRunInit, TetheredInit, NeverKilledInit, AttachedIsActiveInit,
   ReleasesInit DEF EndsInv

(* ... and every step keeps it. *)
LEMMA EndsInvNext == Patient /\ EndsInv /\ [Next]_vars => EndsInv'
<1> SUFFICES ASSUME Patient, EndsInv, [Next]_vars PROVE EndsInv'
  OBVIOUS
<1>1. RunsOn' /\ ProofEndsRun' /\ Tethered'
  BY RunsOnNext, ProofEndsRunNext, TetheredNext DEF EndsInv, RunsOn
<1>2. NeverKilled'
  BY NotYetResumedNext, StaysAttachedNext, ClosedIsSettledNext DEF EndsInv, NeverKilled
<1>3. AttachedIsActive' /\ Releases'
  BY AttachedIsActiveNext, ReleasesNext DEF EndsInv, RunsOn, NeverKilled
<1> QED
  BY <1>1, <1>2, <1>3 DEF EndsInv

(* The inductive invariant when all resumes are one gesture. *)
GestureInv == EndsInv /\ Retried /\ OldAreOver /\ Reached

(* It holds at first ... *)
LEMMA GestureInvInit == Init => GestureInv
BY EndsInvInit, RetriedInit, OldAreOverInit, ReachedInit DEF GestureInv

(* ... and every step keeps it. *)
LEMMA GestureInvNext == Patient /\ OneGesture /\ GestureInv /\ [Next]_vars => GestureInv'
<1> SUFFICES ASSUME Patient, OneGesture, GestureInv, [Next]_vars PROVE GestureInv'
  OBVIOUS
<1>1. EndsInv'
  BY EndsInvNext DEF GestureInv
<1>2. Retried' /\ OldAreOver' /\ Reached'
  BY RetriedNext, OldAreOverNext, ReachedNext DEF GestureInv, EndsInv
<1> QED
  BY <1>1, <1>2 DEF GestureInv

-----------------------------------------------------------------------------
(* Every row, request, pump and runtime keeps its type, whatever the drains do. *)
THEOREM TypeCorrect == Spec => []TypeOK
<1>1. Init => TypeOK /\ Begun
  BY InitTyped, BegunInit
<1>2. TypeOK /\ Begun /\ [Next]_vars => (TypeOK /\ Begun)'
  BY NextTyped, BegunNext
<1> QED
  BY <1>1, <1>2, PTL DEF Spec

(* The inductive invariant holds at every step, crashes and boots included. *)
THEOREM EndsAreKept == ASSUME Patient PROVE Spec => []EndsInv
<1>1. EndsInv /\ [Next]_vars => EndsInv'
  BY EndsInvNext
<1> QED
  BY EndsInvInit, <1>1, PTL DEF Spec

(* endRunFor: a process that is not killed leaves no ended session with a running *)
(* run once every pump and stop is through, whoever ended the session, and in     *)
(* whatever order submissions, stops, budgets, reports, resumes and the shutdown  *)
(* met.                                                                           *)
THEOREM EndedRunsDoEnd == ASSUME Patient PROVE Spec => []EndedRunsEnd
<1>1. EndsInv => EndedRunsEnd
  <2> SUFFICES ASSUME EndsInv, crashes = 0, AtRest, Ended, run = "running" PROVE FALSE
    BY DEF EndedRunsEnd, NoRunLeftBehind
  <2>1. CASE server = "closed"
    BY <2>1 DEF EndsInv, NeverKilled, ClosedIsSettled
  <2>2. CASE server = "up"
    <3>1. Serving
      BY <2>2 DEF Serving
    <3>2. hub # NoHandle /\ hub \in Handle
      BY <3>1 DEF EndsInv, RunsOn, TypeOK, NeverKilled, StaysAttached, Ended, SessionEnds
    <3>3. pump[hub].pc # "none"
      BY <3>1, <3>2 DEF EndsInv, Tethered
    <3> QED
      BY <3>2, <3>3 DEF AtRest, EndsInv, RunsOn, DrainedMeansSettled
  <2> QED
    BY <2>1, <2>2 DEF AtRest
<1> QED
  BY EndsAreKept, <1>1, PTL

(* endRunFor, releaseSession: nor does such a session hold a claim, if its start *)
(* was not refused.                                                              *)
THEOREM EndedSessionsHoldNothing == ASSUME Patient PROVE Spec => []EndedHoldsNothing
<1>1. EndsInv => EndedHoldsNothing
  BY DEF EndsInv, Releases, Active, EndedHoldsNothing, AtRest, RunsOn, TypeOK
<1> QED
  BY EndsAreKept, <1>1, PTL

(* The lifecycle implements Outcomes: a session keeps its first end until it is  *)
(* resumed, its run ends once and with the outcome that end stands for, and says *)
(* completed only when it was proven.  With several gestures this is proved for  *)
(* processes that are not killed.                                                *)
THEOREM Refinement ==
  ASSUME Patient, OneGesture \/ MaxCrash = 0
  PROVE  Spec => KeepsItsPromise
<1>1. Init => Promise!Init
  BY DEF Init, Promise!Init
<1>2. EndsInv /\ [Next]_vars => [Promise!Next]_<<session, run>>
  <2>1. EndsInv => OneGesture \/ crashes = 0
    BY Bounds DEF EndsInv, RunsOn, TypeOK
  <2> QED
    BY <2>1, EveryStepIsPromised DEF EndsInv, Promised
<1> QED
  BY <1>1, <1>2, EndsAreKept, PTL DEF Spec, KeepsItsPromise, Promise!Spec

(* The invariant of one gesture holds at every step. *)
THEOREM GesturesAreKept == ASSUME Patient, OneGesture PROVE Spec => []GestureInv
<1>1. GestureInv /\ [Next]_vars => GestureInv'
  BY GestureInvNext
<1> QED
  BY GestureInvInit, <1>1, PTL DEF Spec

(* shutdown(): a closed server leaves no runtime running that the hub had not     *)
(* forgotten (resumeSession's detach, a refused start, a resume in the shutdown). *)
THEOREM CloseReaches == ASSUME Patient, OneGesture PROVE Spec => []CloseReachesTheAttached
<1>1. GestureInv => CloseReachesTheAttached
  BY DEF GestureInv, Reached, Serving, CloseReachesTheAttached
<1> QED
  BY <1>1, GesturesAreKept, PTL

(* endFromObservation: the pump of a runtime older than the last resumption never *)
(* ends the session.                                                              *)
THEOREM OldEndsDoStayOld == ASSUME Patient, OneGesture PROVE Spec => OldEndsStayOld
<1>1. GestureInv /\ [Next]_vars =>
        [\A h \in Handle : h < reopened /\ pump[h].pc = "reading" /\ pump'[h].pc = "ended"
           => session' = session]_vars
  BY DEF GestureInv, OldAreOver, Over
<1> QED
  BY <1>1, GesturesAreKept, PTL DEF Spec, OldEndsStayOld

(* planResume, claimInitiation: repeats of one gesture never open a runtime for a *)
(* live session.                                                                  *)
THEOREM OneGestureResumesOnce == ASSUME Patient, OneGesture PROVE Spec => RunningIsNotResumed
<1>1. GestureInv /\ [Next]_vars =>
        [\A h \in Handle \ {1} :
           runtime[h] = "none" /\ runtime'[h] = "running" => session # "live"]_vars
  <2> SUFFICES ASSUME GestureInv, [Next]_vars, NEW h \in Handle \ {1},
                      runtime[h] = "none", runtime'[h] = "running"
               PROVE  session # "live"
    OBVIOUS
  <2>1. CASE \E r \in Resumer : ResumeOpens(r)
    BY <2>1 DEF ResumeOpens, GestureInv, EndsInv, RunsOn, KeysAgree, Retried, Unsettled, Ended,
       SessionEnds
  <2>2. CASE RuntimeStarts \/ RootClaimRefused
    BY <2>2 DEF RuntimeStarts, RootClaimRefused, GestureInv, EndsInv, RunsOn, TypeOK
  <2>3. CASE Lasting
    BY <2>3 DEF Lasting
  <2>4. CASE CloseServer \/ ServerCloses \/ Crash \/ RecoverFromRestart \/ \E g \in Handle : Detach(g)
             \/ \E r \in Resumer : ResumeLetsGo(r)
    BY <2>4 DEF CloseServer, ServerCloses, Crash, RecoverFromRestart, Detach, ResumeLetsGo
  <2>5. CASE ShutdownSweeps
    BY <2>5, HubIsAsked DEF ShutdownSweeps, GestureInv, EndsInv, RunsOn
  <2> QED
    BY <2>1, <2>2, <2>3, <2>4, <2>5, RuntimesLast DEF LastingSteps, GestureInv, EndsInv
<1> QED
  BY <1>1, GesturesAreKept, PTL DEF Spec, RunningIsNotResumed
=============================================================================
