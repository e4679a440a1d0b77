---------------------------- MODULE RunLifecycle ----------------------------
(***************************************************************************)
(* One session, the run it executes and the runtimes that drive it:        *)
(* apps/server/src/runs/service.ts, sessions/driver.ts and sessions/hub.ts *)
(* over the rows of packages/db/src/run-store.ts and session-store.ts.     *)
(*                                                                         *)
(* A runtime handle is numbered when it is opened.  An observation pump    *)
(* reads each handle: submissions and spending on the way, the end last.   *)
(* Beside it requests come and go: submissions over HTTP, stops, resumes.  *)
(* Whoever ends the session records the end before it touches the runtime, *)
(* and settles the run after; between the two it waits.                    *)
(*                                                                         *)
(* One step of the specification is the code between two awaits.           *)
(***************************************************************************)
EXTENDS Integers, FiniteSets

CONSTANTS
  Stopper,      \* requests that stop the session, or end an open one
  Submitter,    \* requests that submit its outcome
  Resumer,      \* requests that resume it
  Key,          \* initiation keys of resume gestures
  MaxHandle,    \* bound: runtimes opened
  MaxCrash,     \* bound: crashes
  MaxClose,     \* bound: graceful shutdowns
  DrainsTimeOut, \* whether a drain is given up before the pump has ended
  LateRefusals, \* whether the root claim can be refused once the session is recorded
  Modes         \* "producing" and "open"

ASSUME Bounds == /\ MaxHandle \in Nat \ {0}
                 /\ MaxCrash \in Nat
                 /\ MaxClose \in Nat
ASSUME Flags == DrainsTimeOut \in BOOLEAN /\ LateRefusals \in BOOLEAN
ASSUME KnownModes == Modes \subseteq {"producing", "open"} /\ Modes # {}

Handle  == 1..MaxHandle
NoHandle == 0

VARIABLES
  mode,       \* the command's lifecycle
  session,    \* sessions.end_kind: "none", "live" or how it ended
  run,        \* runs.status, "none" before it is recorded
  proof,      \* run_submissions: "none", "rejected", or "accepted" once one was
  held,       \* whether the session holds claims
  key,        \* run_initiations of the resume gestures
  start,      \* whether the start of the run awaits its runtime
  runtime,    \* per handle: "none", "running", "asked" to stop, "gone"
  pump,       \* per handle: where its observation pump is, and whom it waits for
  hub,        \* the handle the session is attached to
  stop,       \* per stop request: the end it recorded and the handle it waits for
  submit,     \* per submit request: "idle" or "evaluating"
  resume,     \* per resume request: where it is, its key, the handle it lets go
  reopened,   \* the handle that reopened the session last, NoHandle before
  astray,     \* handles the hub forgot: never attached, detached by the resume of
              \* another, or opened by a resume during a shutdown
  server,     \* "up", "closing", "sweeping", "closed" or "down"
  crashes, closes

rows     == <<mode, session, run, proof, held, key>>
requests == <<stop, submit, resume>>
ghosts   == <<reopened, astray>>
boots    == <<server, crashes, closes>>
vars     == <<rows, start, runtime, pump, hub, requests, ghosts, boots>>

-----------------------------------------------------------------------------
SessionEnds == {"completed", "failed", "out-of-budget", "stopped",
                "ended-by-user", "interrupted"}
RunEnds     == {"completed", "failed", "out_of_budget", "stopped", "interrupted"}

Ended   == session \in SessionEnds
Serving == server \in {"up", "closing", "sweeping"}

(* SessionStore.end: the first outcome is the one that stands. *)
FirstEnd(end) == IF session = "live" THEN end ELSE session

(* Mutant: the run takes over the words of the session. *)
RunOutcomeAsSaid(end) == end

(* endRunFor's mapping: a session that says completed has a run that was       *)
(* completed before it, or one that was not proven and only stops.             *)
RunOutcome(end) ==
  CASE end \in {"failed", "interrupted"}                   -> end
    [] end = "out-of-budget"                               -> "out_of_budget"
    [] end \in {"completed", "stopped", "ended-by-user"} -> "stopped"

(* Mutant: a run that has ended is not looked at any further. *)
EndRunForRunning(end) ==
  /\ held' = (held /\ run # "running")
  /\ run' = IF run = "running" THEN RunOutcome(end) ELSE run

(* endRunFor: what the session held is released, whatever became of the run;   *)
(* only a running run is settled.                                             *)
EndRunFor(end) ==
  /\ held' = FALSE
  /\ run' = IF run = "running" THEN RunOutcome(end) ELSE run

(* Asking a runtime to stop: one that is gone has nothing left to do. *)
Asked(h) == [runtime EXCEPT ![h] = IF @ = "running" THEN "asked" ELSE @]
AskHub == runtime' = IF hub = NoHandle THEN runtime ELSE Asked(hub)

Reading(h) == Serving /\ pump[h].pc = "reading"
PumpAt(h, pc) == pump' = [pump EXCEPT ![h] = [pc |-> pc, on |-> NoHandle]]
PumpWaits(h, pc) == pump' = [pump EXCEPT ![h] = [pc |-> pc, on |-> hub]]
NoPump == [pc |-> "none", on |-> NoHandle]

Unopened(h) == runtime[h] = "none" /\ \A g \in Handle : g < h => runtime[g] # "none"

-----------------------------------------------------------------------------
(* Starting the run *)

(* runs.start records the run; the runtime is started while it already runs. *)
StartRun ==
  /\ server = "up"
  /\ run = "none"
  /\ start = "idle"
  /\ run' = "running"
  /\ start' = "opening"
  /\ UNCHANGED <<mode, session, proof, held, key, runtime, pump, hub, requests,
                 ghosts, boots>>

RuntimeRefuses ==
  /\ Serving
  /\ start = "opening"
  /\ run' = "failed"
  /\ start' = "idle"
  /\ UNCHANGED <<mode, session, proof, held, key, runtime, pump, hub, requests,
                 ghosts, boots>>

(* Session, settled key, root claim (when nobody has it) and pump, in one tick. *)
RuntimeStarts ==
  /\ Serving
  /\ start = "opening"
  /\ start' = "idle"
  /\ session' = "live"
  /\ held' \in BOOLEAN
  /\ runtime' = [runtime EXCEPT ![1] = "running"]
  /\ PumpAt(1, "reading")
  /\ hub' = 1
  /\ UNCHANGED <<mode, run, proof, key, requests, ghosts, boots>>

(* The root claim is refused after the session was recorded: the start throws   *)
(* and nothing is attached to the runtime.                                      *)
RootClaimRefused ==
  /\ Serving
  /\ LateRefusals
  /\ start = "opening"
  /\ start' = "idle"
  /\ session' = "live"
  /\ runtime' = [runtime EXCEPT ![1] = "running"]
  /\ astray' = {1}
  /\ UNCHANGED <<mode, run, proof, held, key, pump, hub, requests, reopened, boots>>

ClaimGranted ==
  /\ Serving
  /\ session = "live"
  /\ ~held
  /\ held' = TRUE
  /\ UNCHANGED <<mode, session, run, proof, key, start, runtime, pump, hub, requests,
                 ghosts, boots>>

(* A runtime goes by itself, or because it was asked to. *)
RuntimeGoes(h) ==
  /\ runtime[h] \in {"running", "asked"}
  /\ runtime' = [runtime EXCEPT ![h] = "gone"]
  /\ UNCHANGED <<rows, start, pump, hub, requests, ghosts, boots>>

-----------------------------------------------------------------------------
(* The completion loop *)

(* A session without a running run, or without a declared outcome, gets an      *)
(* answer and nothing else happens.                                             *)
MaySubmit == session # "none" /\ run = "running" /\ mode = "producing"

SubmitAsked(u) ==
  /\ Serving
  /\ submit[u] = "idle"
  /\ MaySubmit
  /\ submit' = [submit EXCEPT ![u] = "evaluating"]
  /\ UNCHANGED <<rows, start, runtime, pump, hub, stop, resume, ghosts, boots>>

PumpSubmits(h) ==
  /\ Reading(h)
  /\ MaySubmit
  /\ PumpAt(h, "evaluating")
  /\ UNCHANGED <<rows, start, runtime, hub, requests, ghosts, boots>>

Rejected ==
  /\ run = "running"
  /\ proof' = "rejected"
  /\ UNCHANGED <<mode, session, run, held, key, runtime>>

(* Mutant: the run is not looked at again after the conditions were checked. *)
AcceptedLate ==
  /\ run' = "completed"
  /\ proof' = "accepted"
  /\ session' = FirstEnd("completed")
  /\ AskHub
  /\ UNCHANGED <<mode, held, key>>

(* Mutant: the proof is recorded and the runtime left alone. *)
AcceptedUnstopped ==
  /\ run = "running"
  /\ run' = "completed"
  /\ proof' = "accepted"
  /\ session' = FirstEnd("completed")
  /\ UNCHANGED <<mode, held, key, runtime>>

(* The conditions hold: run completed, submission recorded, session ended, all   *)
(* in one tick, provided the run still runs after the evaluation.                *)
Accepted ==
  /\ run = "running"
  /\ run' = "completed"
  /\ proof' = "accepted"
  /\ session' = FirstEnd("completed")
  /\ AskHub
  /\ UNCHANGED <<mode, held, key>>

(* Meanwhile the run ended: complete() throws. *)
TooLate == run # "running" /\ UNCHANGED <<rows, runtime>>

SubmitAnswered(u) ==
  /\ Serving
  /\ submit[u] = "evaluating"
  /\ submit' = [submit EXCEPT ![u] = "idle"]
  /\ Rejected \/ Accepted \/ TooLate
  /\ UNCHANGED <<start, pump, hub, stop, resume, ghosts, boots>>

(* In the pump, acceptance waits for the runtime to stop; a throw ends the       *)
(* stream as failed.                                                            *)
PumpSubmissionAnswered(h) ==
  /\ Serving
  /\ pump[h].pc = "evaluating"
  /\ \/ Rejected /\ PumpAt(h, "reading")
     \/ Accepted /\ PumpWaits(h, "closing")
     \/ TooLate /\ PumpAt(h, "failing")
  /\ UNCHANGED <<start, hub, requests, ghosts, boots>>

(* The runtime somebody waits for, if there is one, is gone. *)
Awaited(g) == \A h \in Handle : h = g => runtime[h] = "gone"

PumpGoesOn(h) ==
  /\ Serving
  /\ pump[h].pc = "closing"
  /\ Awaited(pump[h].on)
  /\ PumpAt(h, "reading")
  /\ UNCHANGED <<rows, start, runtime, hub, requests, ghosts, boots>>

-----------------------------------------------------------------------------
(* Ends that the runtime reports *)

(* checkProvenCompletion over the run's own submissions. *)
Proven == mode = "producing" /\ proof = "accepted"

(* classifyEnd: completion without proof is a failure. *)
ClassifyEnd(reason) == IF reason = "completed" /\ ~Proven THEN "failed" ELSE reason

(* endFromObservation: the end, the event, and endRunFor within onEnded. *)
EndFromObservation(h, end) ==
  /\ session' = FirstEnd(end)
  /\ EndRunFor(FirstEnd(end))
  /\ PumpAt(h, "ended")
  /\ UNCHANGED <<mode, proof, key, start, runtime, hub, requests, ghosts, boots>>

(* Only PlotRoom knows about money. *)
ReportableEnds == SessionEnds \ {"out-of-budget"}

PumpReadsEnd(h) ==
  /\ Reading(h)
  /\ runtime[h] = "gone"
  /\ \E reason \in ReportableEnds :
       EndFromObservation(h, ClassifyEnd(reason))

PumpFails(h) ==
  /\ Serving
  /\ pump[h].pc = "failing"
  /\ EndFromObservation(h, "failed")

(* ... and after it the session is detached from whatever it is attached to. *)
Detach(h) ==
  /\ Serving
  /\ pump[h].pc = "ended"
  /\ hub' = NoHandle
  /\ PumpAt(h, "done")
  /\ UNCHANGED <<rows, start, runtime, requests, ghosts, boots>>

-----------------------------------------------------------------------------
(* Ends that PlotRoom records *)

(* Mutant: without a runtime there is nothing more to do. *)
StopAskedUnsettled(x, end) ==
  /\ Serving
  /\ stop[x].end = "none"
  /\ session # "none"
  /\ end = "ended-by-user" => mode = "open"
  /\ session' = FirstEnd(end)
  /\ AskHub
  /\ IF hub = NoHandle
     THEN UNCHANGED stop
     ELSE stop' = [stop EXCEPT ![x] = [end |-> FirstEnd(end), on |-> hub]]
  /\ UNCHANGED <<mode, run, held, proof, key, start, pump, hub, submit, resume, ghosts,
                 boots>>

(* stopSession and endOpenSession: the end first, then the runtime; the run is   *)
(* settled after the runtime has stopped, or at once when none is attached.      *)
StopAsked(x, end) ==
  /\ Serving
  /\ stop[x].end = "none"
  /\ session # "none"
  /\ end = "ended-by-user" => mode = "open"
  /\ session' = FirstEnd(end)
  /\ AskHub
  /\ IF hub = NoHandle
     THEN EndRunFor(FirstEnd(end)) /\ UNCHANGED stop
     ELSE /\ stop' = [stop EXCEPT ![x] = [end |-> FirstEnd(end), on |-> hub]]
          /\ UNCHANGED <<held, run>>
  /\ UNCHANGED <<mode, proof, key, start, pump, hub, submit, resume, ghosts, boots>>

StopFinishes(x) ==
  /\ Serving
  /\ stop[x].end # "none"
  /\ Awaited(stop[x].on)
  /\ EndRunFor(stop[x].end)
  /\ stop' = [stop EXCEPT ![x] = [end |-> "none", on |-> NoHandle]]
  /\ UNCHANGED <<mode, session, proof, key, start, runtime, pump, hub, submit, resume,
                 ghosts, boots>>

(* enforceBudget, within the pump: a session at its cap is stopped. *)
BudgetStops(h) ==
  /\ Reading(h)
  /\ session = "live"
  /\ session' = "out-of-budget"
  /\ AskHub
  /\ IF hub = NoHandle
     THEN EndRunFor("out-of-budget") /\ UNCHANGED pump
     ELSE PumpWaits(h, "enforcing") /\ UNCHANGED <<held, run>>
  /\ UNCHANGED <<mode, proof, key, start, hub, requests, ghosts, boots>>

BudgetStopFinishes(h) ==
  /\ Serving
  /\ pump[h].pc = "enforcing"
  /\ Awaited(pump[h].on)
  /\ EndRunFor("out-of-budget")
  /\ PumpAt(h, "reading")
  /\ UNCHANGED <<mode, session, proof, key, start, runtime, hub, requests, ghosts, boots>>

-----------------------------------------------------------------------------
(* Resuming *)

ResumeAt(r, pc, k, h) == resume' = [resume EXCEPT ![r] = [pc |-> pc, key |-> k, on |-> h]]
NotResuming == [pc |-> "idle", key |-> "none", on |-> NoHandle]

(* continuation.resume: a settled key is a replay, a running session is refused; *)
(* divergence is examined before anything else is.                               *)
ResumeAsked(r, k) ==
  /\ Serving
  /\ resume[r].pc = "idle"
  /\ key[k] # "settled"
  /\ Ended
  /\ ResumeAt(r, "planned", k, NoHandle)
  /\ UNCHANGED <<rows, start, runtime, pump, hub, stop, submit, ghosts, boots>>

(* claimInitiation: a free key is claimed and the runtime opened, any other ends *)
(* the request.                                                                  *)
ClaimKey(r, k) ==
  IF key[k] = "free"
  THEN key' = [key EXCEPT ![k] = "claimed"] /\ ResumeAt(r, "opening", k, NoHandle)
  ELSE UNCHANGED key /\ resume' = [resume EXCEPT ![r] = NotResuming]

(* resumeSession: attached and live is a replay; attached and ended means that    *)
(* the old pump has an end still to record, so that is waited for.                *)
ResumeReplays(r) ==
  /\ Serving
  /\ resume[r].pc = "planned"
  /\ hub # NoHandle
  /\ session = "live"
  /\ resume' = [resume EXCEPT ![r] = NotResuming]
  /\ UNCHANGED <<rows, start, runtime, pump, hub, stop, submit, ghosts, boots>>

(* Mutant: the old pump is not waited for. *)
ResumeUndrained(r) ==
  /\ Serving
  /\ resume[r].pc = "planned"
  /\ hub # NoHandle
  /\ Ended
  /\ hub' = NoHandle
  /\ runtime' = Asked(hub)
  /\ ClaimKey(r, resume[r].key)
  /\ UNCHANGED <<mode, session, run, proof, held, start, pump, stop, submit,
                 ghosts, boots>>

ResumeDrains(r) ==
  /\ Serving
  /\ resume[r].pc = "planned"
  /\ hub # NoHandle
  /\ Ended
  /\ ResumeAt(r, "draining", resume[r].key, hub)
  /\ UNCHANGED <<rows, start, runtime, pump, hub, stop, submit, ghosts, boots>>

ResumeAborts(r) ==
  /\ Serving
  /\ resume[r].pc = "draining"
  /\ pump[resume[r].on].pc = "done" \/ DrainsTimeOut
  /\ runtime' = Asked(resume[r].on)
  /\ ResumeAt(r, "aborting", resume[r].key, resume[r].on)
  /\ UNCHANGED <<rows, start, pump, hub, stop, submit, ghosts, boots>>

ResumeLetsGo(r) ==
  /\ Serving
  /\ resume[r].pc = "aborting"
  /\ Awaited(resume[r].on)
  /\ hub' = NoHandle
  /\ astray' = astray \cup ({hub} \ {NoHandle, resume[r].on})
  /\ ClaimKey(r, resume[r].key)
  /\ UNCHANGED <<mode, session, run, proof, held, start, runtime, pump, stop, submit,
                 reopened, boots>>

ResumeClaims(r) ==
  /\ Serving
  /\ resume[r].pc = "planned"
  /\ hub = NoHandle
  /\ ClaimKey(r, resume[r].key)
  /\ UNCHANGED <<mode, session, run, proof, held, start, runtime, pump, hub, stop,
                 submit, ghosts, boots>>

ResumeFails(r) ==
  /\ Serving
  /\ resume[r].pc = "opening"
  /\ key' = [key EXCEPT ![resume[r].key] = "free"]
  /\ resume' = [resume EXCEPT ![r] = NotResuming]
  /\ UNCHANGED <<mode, session, run, proof, held, start, runtime, pump, hub, stop,
                 submit, ghosts, boots>>

(* The runtime is open: the record is reopened, the key settled, the pump        *)
(* attached, in one tick.                                                        *)
ResumeOpens(r) ==
  /\ Serving
  /\ resume[r].pc = "opening"
  /\ \E h \in Handle :
       /\ Unopened(h)
       /\ runtime' = [runtime EXCEPT ![h] = "running"]
       /\ PumpAt(h, "reading")
       /\ hub' = h
       /\ reopened' = IF Ended THEN h ELSE reopened
       /\ astray' = IF server = "up" THEN astray ELSE astray \cup {h}
  /\ session' = "live"
  /\ key' = [key EXCEPT ![resume[r].key] = "settled"]
  /\ resume' = [resume EXCEPT ![r] = NotResuming]
  /\ UNCHANGED <<mode, run, proof, held, start, stop, submit, boots>>

-----------------------------------------------------------------------------
(* Shutdown, crash and boot *)

(* close(): the queue's own starts are let finish before the sweep. *)
CloseServer ==
  /\ server = "up"
  /\ closes < MaxClose
  /\ server' = "closing"
  /\ closes' = closes + 1
  /\ UNCHANGED <<rows, start, runtime, pump, hub, requests, ghosts, crashes>>

(* Mutant: the sweep does not wait for the starts under way. *)
SweepAtOnce ==
  /\ server = "closing"
  /\ server' = "sweeping"
  /\ AskHub
  /\ IF hub # NoHandle /\ session = "live"
     THEN session' = "interrupted" /\ EndRunFor("interrupted")
     ELSE UNCHANGED <<session, held, run>>
  /\ UNCHANGED <<mode, proof, key, start, pump, hub, requests, ghosts, crashes, closes>>

(* shutdown(): what is attached is interrupted, settled and aborted. *)
ShutdownSweeps ==
  /\ server = "closing"
  /\ start = "idle"
  /\ server' = "sweeping"
  /\ AskHub
  /\ IF hub # NoHandle /\ session = "live"
     THEN session' = "interrupted" /\ EndRunFor("interrupted")
     ELSE UNCHANGED <<session, held, run>>
  /\ UNCHANGED <<mode, proof, key, start, pump, hub, requests, ghosts, crashes, closes>>

Drained == \A h \in Handle : runtime[h] \in {"asked", "gone"} => pump[h].pc \in {"none", "done"}

(* The pumps drain, everything is let go, the database closes. *)
ServerCloses ==
  /\ server = "sweeping"
  /\ Drained \/ DrainsTimeOut
  /\ \A h \in Handle : runtime[h] # "asked"
  /\ hub' = NoHandle
  /\ server' = "closed"
  /\ UNCHANGED <<rows, start, runtime, pump, requests, ghosts, crashes, closes>>

NothingVolatile ==
  /\ start' = "idle"
  /\ pump' = [h \in Handle |-> NoPump]
  /\ hub' = NoHandle
  /\ stop' = [x \in Stopper |-> [end |-> "none", on |-> NoHandle]]
  /\ submit' = [u \in Submitter |-> "idle"]
  /\ resume' = [r \in Resumer |-> NotResuming]

(* The processes behind the handles lose their pipes and go with the server. *)
Crash ==
  /\ Serving
  /\ crashes < MaxCrash
  /\ crashes' = crashes + 1
  /\ server' = "down"
  /\ NothingVolatile
  /\ runtime' = [h \in Handle |-> IF runtime[h] = "none" THEN "none" ELSE "gone"]
  /\ UNCHANGED <<rows, ghosts, closes>>

(* recoverFromRestart: no attempt can still hold a key, and a session that was    *)
(* live is interrupted, with its run.                                            *)
RecoverFromRestart ==
  /\ server \in {"down", "closed"}
  /\ server' = "up"
  /\ NothingVolatile
  /\ key' = [k \in Key |-> IF key[k] = "claimed" THEN "free" ELSE key[k]]
  /\ IF session = "live"
     THEN session' = "interrupted" /\ EndRunFor("interrupted")
     ELSE UNCHANGED <<session, held, run>>
  /\ UNCHANGED <<mode, proof, runtime, ghosts, crashes, closes>>

-----------------------------------------------------------------------------
Init ==
  /\ mode \in Modes
  /\ session = "none"
  /\ run = "none"
  /\ proof = "none"
  /\ held = FALSE
  /\ key = [k \in Key |-> "free"]
  /\ start = "idle"
  /\ runtime = [h \in Handle |-> "none"]
  /\ pump = [h \in Handle |-> NoPump]
  /\ hub = NoHandle
  /\ stop = [x \in Stopper |-> [end |-> "none", on |-> NoHandle]]
  /\ submit = [u \in Submitter |-> "idle"]
  /\ resume = [r \in Resumer |-> NotResuming]
  /\ reopened = NoHandle
  /\ astray = {}
  /\ server = "up"
  /\ crashes = 0
  /\ closes = 0

Starting == RuntimeRefuses \/ RuntimeStarts \/ RootClaimRefused

PumpStep(h) ==
  \/ PumpSubmissionAnswered(h) \/ PumpGoesOn(h) \/ PumpReadsEnd(h) \/ PumpFails(h)
  \/ Detach(h) \/ BudgetStopFinishes(h)

ResumeStep(r) ==
  \/ ResumeReplays(r) \/ ResumeDrains(r) \/ ResumeAborts(r) \/ ResumeLetsGo(r)
  \/ ResumeClaims(r) \/ ResumeFails(r) \/ ResumeOpens(r)

StopEnds == {"stopped", "out-of-budget", "ended-by-user"}

Next ==
  \/ StartRun \/ Starting \/ ClaimGranted
  \/ \E h \in Handle : \/ RuntimeGoes(h) \/ PumpStep(h)
                       \/ PumpSubmits(h) \/ BudgetStops(h)
  \/ \E u \in Submitter : SubmitAsked(u) \/ SubmitAnswered(u)
  \/ \E x \in Stopper : (\E end \in StopEnds : StopAsked(x, end)) \/ StopFinishes(x)
  \/ \E r \in Resumer : (\E k \in Key : ResumeAsked(r, k)) \/ ResumeStep(r)
  \/ CloseServer \/ ShutdownSweeps \/ ServerCloses \/ Crash \/ RecoverFromRestart

Spec == Init /\ [][Next]_vars

(* What ending takes: the pumps go on with what they read, a stop that waits goes  *)
(* on, and a runtime that was asked to stop does (the adapter bounds its waits).   *)
(* Nothing is fair about gestures, crashes, or a runtime ending by itself.         *)
Fairness ==
  /\ \A h \in Handle : /\ WF_vars(runtime[h] = "asked" /\ RuntimeGoes(h))
                        /\ WF_vars(PumpStep(h))
  /\ \A x \in Stopper : WF_vars(StopFinishes(x))

FairSpec == Spec /\ Fairness

-----------------------------------------------------------------------------
(* Properties *)

PumpState == [pc : {"none", "reading", "evaluating", "closing", "failing",
                    "enforcing", "ended", "done"},
              on : Handle \cup {NoHandle}]

TypeOK ==
  /\ mode \in Modes
  /\ session \in {"none", "live"} \cup SessionEnds
  /\ run \in {"none", "running"} \cup RunEnds
  /\ proof \in {"none", "rejected", "accepted"}
  /\ held \in BOOLEAN
  /\ key \in [Key -> {"free", "claimed", "settled"}]
  /\ start \in {"idle", "opening"}
  /\ runtime \in [Handle -> {"none", "running", "asked", "gone"}]
  /\ pump \in [Handle -> PumpState]
  /\ hub \in Handle \cup {NoHandle}
  /\ stop \in [Stopper -> [end : {"none"} \cup SessionEnds, on : Handle \cup {NoHandle}]]
  /\ submit \in [Submitter -> {"idle", "evaluating"}]
  /\ resume \in [Resumer -> [pc : {"idle", "planned", "draining", "aborting", "opening"},
                             key : Key \cup {"none"}, on : Handle \cup {NoHandle}]]
  /\ reopened \in Handle \cup {NoHandle}
  /\ astray \subseteq Handle
  /\ server \in {"up", "closing", "sweeping", "closed", "down"}
  /\ crashes \in 0..MaxCrash
  /\ closes \in 0..MaxClose

(* Nobody is in the middle of ending the session. *)
AtRest ==
  /\ server \in {"up", "closed"}
  /\ \A h \in Handle : pump[h].pc \in {"none", "done"}
  /\ \A x \in Stopper : stop[x].end = "none"

(* No ended session leaves a running run behind (endRunFor): once every pump and   *)
(* every stop is through, the run of an ended session has ended.                   *)
NoRunLeftBehind == AtRest /\ Ended => run # "running"

(* The same as long as the process was not killed between recording an end and     *)
(* settling the run.                                                               *)
EndedRunsEnd == crashes = 0 => NoRunLeftBehind

(* A session that has ended holds no claim once its end is through, whichever of    *)
(* proof, stop, budget, report, shutdown ended it and in whatever order they met,   *)
(* if its runtime was attached: only a pump releases after a proven completion.     *)
EndedHoldsNothing == crashes = 0 /\ AtRest /\ Ended /\ 1 \notin astray => ~held

(* The session and its run keep the promise of Outcomes.                           *)
Promise == INSTANCE Outcomes
KeepsItsPromise == Promise!Spec

(* A resumed session is not ended by what the runtime before it left unread: only  *)
(* a pump opened by the resumption or later takes it from live to ended.           *)
OldEndsStayOld ==
  [][\A h \in Handle : h < reopened /\ pump[h].pc = "reading" /\ pump'[h].pc = "ended"
       => session' = session]_vars

(* A resume continues a session that has ended: it never opens a runtime for one   *)
(* that is live (planResume refuses a running session).                            *)
RunningIsNotResumed ==
  [][\A h \in Handle \ {1} :
       runtime[h] = "none" /\ runtime'[h] = "running" => session # "live"]_vars

(* The same of every runtime the sweep could know.                                  *)
CloseReachesTheAttached ==
  server = "closed" => \A h \in Handle \ astray : runtime[h] # "running"

(* Whoever ends a session, its run ends, its claims go and its runtime is gone and  *)
(* detached, unless somebody resumes it first or the server goes.                   *)
CarriedThrough ==
  /\ run # "running"
  /\ hub = NoHandle
  /\ 1 \notin astray => ~held /\ \A h \in Handle \ astray : runtime[h] \in {"none", "gone"}

EndIsCarriedThrough ==
  Ended /\ crashes = 0 ~> CarriedThrough \/ session = "live" \/ ~Serving
=============================================================================
