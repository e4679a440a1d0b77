------------------------------ MODULE RunQueue ------------------------------
(***************************************************************************)
(* Admission of queued runs: apps/server/src/runs/queue.ts over the rows   *)
(* of packages/db/src/run-queue-store.ts, with the part of                 *)
(* apps/server/src/runs/service.ts an admission goes through.              *)
(*                                                                         *)
(* A gesture creates a batch of entries, or (for one command with a free   *)
(* slot) starts at once.  One drain loop admits waiting entries while      *)
(* fewer sessions run than the limit.  An admission re-previews the        *)
(* command, compares the contract the operator agreed to, and goes down    *)
(* the run path: workspace, assembly, runtime, session.  A session's end   *)
(* settles its entry, completes, pauses or aborts the batch, and drains.   *)
(*                                                                         *)
(* One step of the specification is the code between two awaits, so the    *)
(* steps of the drain, of direct runs, of ending sessions and of the       *)
(* operator interleave as they do in the server's event loop.  Rows        *)
(* survive a crash; the drain, attempts and pending events do not.         *)
(***************************************************************************)
EXTENDS Integers, Sequences, FiniteSets

CONSTANTS
  Batch,        \* initiation keys of gestures; a gesture makes at most one batch
  Entry,        \* one per (gesture, command in its scope)
  Command,      \* command nodes on the board
  Object,       \* content objects that commands take as inputs
  BatchOf,      \* the gesture an entry belongs to
  CommandOf,    \* the command an entry runs
  Position,     \* dependency order within the scope (scopes.ts order)
  Inputs,       \* a command's wired inputs in edge order: objects and producers
  Editable,     \* what the operator edits: objects, and commands' configuration
  Limits,       \* concurrency limits the operator sets
  MaxBatches,   \* bound: gestures that make a batch
  MaxVersion,   \* bound: edits of one object or configuration
  MaxOutside,   \* bound: sessions that never came through the queue, at once
  MaxCrash,     \* bound: server crashes and shutdowns
  LateRefusals, \* whether part of a workspace may be claimed while its root is not
  Nobody        \* "no entry"

ASSUME EntriesWellFormed ==
  /\ BatchOf \in [Entry -> Batch]
  /\ CommandOf \in [Entry -> Command]
  /\ Position \in [Entry -> Nat]
  /\ Nobody \notin Entry
ASSUME OneEntryPerCommand ==
  \A e, f \in Entry :
    BatchOf[e] = BatchOf[f] /\ CommandOf[e] = CommandOf[f] => e = f
ASSUME InputsWellFormed ==
  /\ Inputs \in [Command -> Seq(Object \cup Command)]
  /\ Object \cap Command = {}
  /\ Editable \subseteq Object \cup Command
ASSUME BoundsAreNaturals ==
  /\ Limits \subseteq Nat \ {0}
  /\ Limits # {}
  /\ MaxBatches \in Nat
  /\ MaxVersion \in Nat
  /\ MaxOutside \in Nat
  /\ MaxCrash \in Nat
ASSUME LateRefusalsIsBoolean == LateRefusals \in BOOLEAN

VARIABLES
  batch,        \* run_batches.state, "none" before the gesture
  entry,        \* run_queue.state, "none" before it is enqueued
  agreed,       \* run_queue.contract_hash: the contract the operator agreed to
  stamp,        \* run_queue.enqueued_at, one per batch
  clock,        \* the time of the last gesture that was queued
  version,      \* current version of each object and configuration
  bound,        \* how often a command's output has been bound; 0 is unbound
  init,         \* run_initiations: "free", "claimed" or "settled"
  sess,         \* the session a key produced: "none", "live" or its end kind
  made,         \* how many sessions a key has produced
  attempt,      \* where RunService.start is for a key
  drain,        \* the drain loop: #draining, #drainAgain, attempted, entry in admit
  unpublished,  \* sessions whose end is recorded and not yet published
  resuming,     \* resumeBatch calls that have yet to settle their batch
  limit,        \* #concurrencyLimit
  outside,      \* live sessions that are not any entry's
  server,       \* "up", "stopping", "down" or "recovering"
  crashes       \* restarts so far

rows     == <<batch, entry, agreed, stamp, clock, init, sess, made>>
volatile == <<attempt, drain, unpublished, resuming>>
vars     == <<rows, volatile, version, bound, limit, outside, server, crashes>>

-----------------------------------------------------------------------------
(* Entry and session states *)

Settled     == {"done", "failed", "interrupted", "cancelled"}
(* Mutant: a starting entry may be cancelled too. *)
CancellableWhileStarting == {"queued", "needs_reask", "paused", "starting"}
Cancellable == {"queued", "needs_reask", "paused"}
(* Mutant: only what has not been admitted counts. *)
OutstandingUnadmitted == {"queued", "needs_reask"}
Outstanding == {"queued", "starting", "running", "needs_reask"}
EntryState  == {"none", "starting", "running"} \cup Settled \cup Cancellable
BatchState  == {"none", "running", "paused", "aborted", "completed"}
EndKind     == {"completed", "ended-by-user", "stopped", "failed",
                "out-of-budget", "interrupted"}

EntriesOf(b)  == {e \in Entry : BatchOf[e] = b}
Siblings(e)   == {CommandOf[f] : f \in EntriesOf(BatchOf[e]) \ {e}}
SourcesOf(c)  == {Inputs[c][i] : i \in DOMAIN Inputs[c]}
Producers(c)  == (SourcesOf(c) \cap Command) \ {c}

-----------------------------------------------------------------------------
(* The contract: what the preview shows of a command, minus what its own     *)
(* batch produces.  An unbound output is not assembled, so the inputs after  *)
(* it are numbered as if it were not there.                                  *)

Resolved(c) == {i \in DOMAIN Inputs[c] :
                  Inputs[c][i] \in Command => bound[Inputs[c][i]] > 0}

Ordinal(c, i) == Cardinality({j \in Resolved(c) : j <= i})

VersionOf(s) == IF s \in Command THEN bound[s] ELSE version[s]

Runnable(c) == Resolved(c) = DOMAIN Inputs[c]

(* Mutant: what the batch itself produces binds like any other input. *)
ContractOfEverything(e) ==
  LET c == CommandOf[e]
  IN [configuration |-> IF c \in Editable THEN version[c] ELSE 0,
      inputs   |-> {<<Ordinal(c, i), Inputs[c][i], VersionOf(Inputs[c][i])>> :
                      i \in Resolved(c)},
      runnable |-> "decided by the batch"]

ContractOf(e) ==
  LET c == CommandOf[e]
  IN [configuration |-> IF c \in Editable THEN version[c] ELSE 0,
      inputs   |-> {<<Ordinal(c, i), Inputs[c][i], VersionOf(Inputs[c][i])>> :
                      i \in {j \in Resolved(c) : Inputs[c][j] \notin Siblings(e)}},
      runnable |-> IF Producers(c) \cap Siblings(e) # {} THEN "decided by the batch"
                   ELSE IF Runnable(c) THEN "yes" ELSE "no"]

(* Where an entry stands with the producers in its own batch. *)
InBatchProducers(e) == {f \in EntriesOf(BatchOf[e]) \ {e} :
                          CommandOf[f] \in Producers(CommandOf[e])}

(* A scope is a topological order of its commands: producers come first          *)
(* (scopes.ts order, over a graph that has no circle of commands).               *)
ASSUME ScopesAreInDependencyOrder ==
  \A e \in Entry : \A f \in InBatchProducers(e) : Position[f] < Position[e]

(* Mutant: a settled producer strands nobody. *)
NeverAbandoned(e) == FALSE
Abandoned(e) == \E f \in InBatchProducers(e) :
                  /\ entry[f] \in Settled \ {"done"}
                  /\ bound[CommandOf[f]] = 0

Waiting(e) == /\ ~Abandoned(e)
              /\ \E f \in InBatchProducers(e) : entry[f] \notin Settled

Ready(e) == ~Abandoned(e) /\ ~Waiting(e)

-----------------------------------------------------------------------------
(* Row updates of the store, as functions of the rows they change *)

PauseRemainder(rowsOf, b) ==
  [e \in Entry |-> IF BatchOf[e] = b /\ rowsOf[e] = "queued"
                   THEN "paused" ELSE rowsOf[e]]

(* Mutant: an abort rewrites the entries that already settled. *)
AbortEverything(rowsOf, b) ==
  [e \in Entry |-> IF BatchOf[e] = b /\ rowsOf[e] \notin {"starting", "running"}
                   THEN "cancelled" ELSE rowsOf[e]]

AbortRemainder(rowsOf, b) ==
  [e \in Entry |-> IF BatchOf[e] = b /\ rowsOf[e] \in Cancellable
                   THEN "cancelled" ELSE rowsOf[e]]

PauseBatch(b, rowsOf) ==
  /\ batch' = [batch EXCEPT ![b] = "paused"]
  /\ entry' = PauseRemainder(rowsOf, b)

AbortBatch(b, rowsOf) ==
  /\ batch' = [batch EXCEPT ![b] = "aborted"]
  /\ entry' = AbortRemainder(rowsOf, b)

SettleBatchIfFinished(b, rowsOf) ==
  batch' = IF /\ batch[b] = "running"
              /\ \A e \in EntriesOf(b) : rowsOf[e] \notin Outstanding
           THEN [batch EXCEPT ![b] = "completed"]
           ELSE batch

SettleBatch(b, rowsOf) ==
  /\ entry' = rowsOf
  /\ SettleBatchIfFinished(b, rowsOf)

(* One session end becomes one entry outcome. *)
SettleEntryFor(e, end) ==
  LET settledAs(s) == [entry EXCEPT ![e] = s]
      b == BatchOf[e]
  IN \/ end \in {"failed", "out-of-budget"} /\ PauseBatch(b, settledAs("failed"))
     \/ end = "interrupted" /\ PauseBatch(b, settledAs("interrupted"))
     \/ end = "stopped" /\ AbortBatch(b, settledAs("cancelled"))
     \/ end \in {"completed", "ended-by-user"} /\ SettleBatch(b, settledAs("done"))

-----------------------------------------------------------------------------
(* Admission *)

Live == {e \in Entry : sess[e] = "live"}
RunningCount == Cardinality(Live) + outside

Idle     == [on |-> FALSE, again |-> FALSE, seen |-> {}, cur |-> Nobody]
NewPass  == [on |-> TRUE, again |-> FALSE, seen |-> {}, cur |-> Nobody]

(* Mutant: a call during a drain is dropped. *)
RequestDrainDropped ==
  drain' = IF server = "stopping" \/ drain.on THEN drain ELSE NewPass

(* drain(): a call that arrives while one is running is recorded. *)
RequestDrain ==
  drain' = IF server = "stopping" THEN drain
           ELSE IF drain.on THEN [drain EXCEPT !.again = TRUE]
           ELSE NewPass

Before(e, f) ==
  \/ stamp[BatchOf[e]] < stamp[BatchOf[f]]
  \/ stamp[BatchOf[e]] = stamp[BatchOf[f]] /\ Position[e] < Position[f]

Candidates == {e \in Entry \ drain.seen : entry[e] = "queued"}
(* Mutant: position first, so a later gesture's first command overtakes. *)
HeadByPosition(e) == e \in Candidates /\ \A f \in Candidates : Position[e] <= Position[f]
HeadOfQueue(e) == e \in Candidates /\ \A f \in Candidates : ~Before(f, e)

MayAdmit == server = "up" /\ RunningCount < limit /\ Candidates # {}

(* Mutant: a key that already produced a session starts another. *)
ClaimSpentInitiation(e) ==
  /\ init' = [init EXCEPT ![e] = "claimed"]
  /\ attempt' = [attempt EXCEPT ![e] = "workspace"]

(* RunService.runOne: a settled key replays its session (which a drained entry  *)
(* is then bound to), a claimed one is refused, a free one is claimed and goes  *)
(* on to the workspace.                                                         *)
ClaimInitiation(e) ==
  /\ init' = [init EXCEPT ![e] = IF @ = "free" THEN "claimed" ELSE @]
  /\ attempt' = [attempt EXCEPT ![e] = CASE init[e] = "free"    -> "workspace"
                                          [] init[e] = "claimed" -> "refused"
                                          [] init[e] = "settled" ->
                                               IF entry[e] = "none" THEN "none" ELSE "started"]

-----------------------------------------------------------------------------
(* The operator's gestures.  They keep arriving while the server is stopping. *)

Serving == server \in {"up", "stopping"}

(* createBatch and enqueue, for a gesture whose key has no batch yet.  Two     *)
(* gestures within one clock tick get the same stamp.                         *)
Enqueue(b) ==
  /\ Cardinality({g \in Batch : batch[g] # "none"}) < MaxBatches
  /\ batch' = [batch EXCEPT ![b] = "running"]
  /\ entry' = [e \in Entry |-> IF BatchOf[e] = b THEN "queued" ELSE entry[e]]
  /\ agreed' = [e \in Entry |-> IF BatchOf[e] = b THEN ContractOf(e) ELSE agreed[e]]
  /\ clock' \in {clock, clock + 1}
  /\ stamp' = [stamp EXCEPT ![b] = clock']

IsSingle(b) == Cardinality(EntriesOf(b)) = 1

(* initiate(): a scope of several commands. *)
Initiate(b) ==
  /\ Serving
  /\ batch[b] = "none"
  /\ EntriesOf(b) # {}
  /\ ~IsSingle(b)
  /\ Enqueue(b)
  /\ RequestDrain
  /\ UNCHANGED <<init, sess, made, attempt, unpublished, resuming, version, bound,
                 limit, outside, server, crashes>>

(* runOne() of the queue, straight down the run path: with a slot free, or as a *)
(* retry of a key that has been used.  (A claimed key is refused at once.)      *)
RunOneNow(b) ==
  /\ server = "up"
  /\ batch[b] = "none"
  /\ IsSingle(b)
  /\ \E e \in EntriesOf(b) :
       /\ init[e] = "settled" \/ (init[e] = "free" /\ RunningCount < limit)
       /\ ClaimInitiation(e)
  /\ UNCHANGED <<batch, entry, agreed, stamp, clock, sess, made, drain, unpublished, resuming,
                 version, bound, limit, outside, server, crashes>>

(* runOne() of the queue at the limit: a batch of one, and no drain. *)
RunOneQueued(b) ==
  /\ server = "up"
  /\ batch[b] = "none"
  /\ IsSingle(b)
  /\ RunningCount >= limit
  /\ \A e \in EntriesOf(b) : init[e] = "free"
  /\ Enqueue(b)
  /\ UNCHANGED <<init, sess, made, volatile, version, bound, limit, outside, server,
                 crashes>>

Cancel(e) ==
  /\ Serving
  /\ entry[e] \in Cancellable
  /\ SettleBatch(BatchOf[e], [entry EXCEPT ![e] = "cancelled"])
  /\ RequestDrain
  /\ UNCHANGED <<agreed, stamp, clock, init, sess, made, attempt, unpublished, resuming,
                 version, bound, limit, outside, server, crashes>>

(* confirm(): the new contract is what was agreed; a paused batch keeps the    *)
(* answer without acting on it.                                               *)
Confirm(e) ==
  /\ Serving
  /\ entry[e] = "needs_reask"
  /\ agreed' = [agreed EXCEPT ![e] = ContractOf(e)]
  /\ \/ /\ batch[BatchOf[e]] = "paused"
        /\ entry' = [entry EXCEPT ![e] = "paused"]
        /\ UNCHANGED drain
     \/ /\ batch[BatchOf[e]] = "running"
        /\ entry' = [entry EXCEPT ![e] = "queued"]
        /\ RequestDrain
  /\ UNCHANGED <<batch, stamp, clock, init, sess, made, attempt, unpublished, resuming,
                 version, bound, limit, outside, server, crashes>>

(* resumeBatch(), up to its await of the drain.  When a drain is running (or   *)
(* the queue has stopped) drain() returns at once.                            *)
ResumeBatch(b) ==
  /\ Serving
  /\ batch[b] = "paused"
  /\ batch' = [batch EXCEPT ![b] = "running"]
  /\ entry' = [e \in Entry |-> IF BatchOf[e] = b /\ entry[e] = "paused"
                              THEN "queued" ELSE entry[e]]
  /\ RequestDrain
  /\ resuming' = [resuming EXCEPT ![b] =
                    IF drain.on \/ server = "stopping" THEN "settling" ELSE "draining"]
  /\ UNCHANGED <<agreed, stamp, clock, init, sess, made, attempt, unpublished,
                 version, bound, limit, outside, server, crashes>>

(* Mutant: the resumed batch is not looked at again. *)
ResumeForgets(b) ==
  /\ Serving
  /\ resuming[b] = "settling"
  /\ resuming' = [resuming EXCEPT ![b] = "no"]
  /\ UNCHANGED <<rows, attempt, drain, unpublished, version, bound, limit, outside,
                 server, crashes>>

(* ... and after it: everything left may already have been settled. *)
ResumeSettles(b) ==
  /\ Serving
  /\ resuming[b] = "settling"
  /\ resuming' = [resuming EXCEPT ![b] = "no"]
  /\ SettleBatch(b, entry)
  /\ UNCHANGED <<agreed, stamp, clock, init, sess, made, attempt, drain, unpublished,
                 version, bound, limit, outside, server, crashes>>

SetConcurrencyLimit(n) ==
  /\ Serving
  /\ n # limit
  /\ limit' = n
  /\ IF n > limit THEN RequestDrain ELSE UNCHANGED drain
  /\ UNCHANGED <<rows, attempt, unpublished, resuming, version, bound, outside,
                 server, crashes>>

Edit(s) ==
  /\ Serving
  /\ version[s] < MaxVersion
  /\ version' = [version EXCEPT ![s] = @ + 1]
  /\ UNCHANGED <<rows, volatile, bound, limit, outside, server, crashes>>

-----------------------------------------------------------------------------
(* The drain loop *)

AtLoopHead == Serving /\ drain.on /\ drain.cur = Nobody

(* The pass ends: nothing may be admitted, or nothing is left to look at. *)
DrainPassEnds ==
  /\ AtLoopHead
  /\ ~MayAdmit
  /\ IF drain.again /\ server = "up"
     THEN drain' = NewPass /\ UNCHANGED resuming
     ELSE /\ drain' = Idle
          /\ resuming' = [b \in Batch |-> IF resuming[b] = "draining"
                                         THEN "settling" ELSE resuming[b]]
  /\ UNCHANGED <<rows, attempt, unpublished, version, bound, limit, outside,
                 server, crashes>>

Consider(e) ==
  /\ AtLoopHead
  /\ MayAdmit
  /\ HeadOfQueue(e)

(* Mutant: a pass may consider an entry twice. *)
SeenForgotten(e) == UNCHANGED drain
Seen(e) == drain' = [drain EXCEPT !.seen = @ \cup {e}]

Declined == UNCHANGED <<agreed, stamp, clock, init, sess, made, attempt, unpublished, resuming,
                        version, bound, limit, outside, server, crashes>>

(* The batch is not running: the row leaves the queue. *)
AdmitDeclines(e) ==
  /\ Consider(e)
  /\ batch[BatchOf[e]] # "running"
  /\ entry' = [entry EXCEPT ![e] = IF batch[BatchOf[e]] = "paused"
                                   THEN "paused" ELSE "cancelled"]
  /\ Seen(e)
  /\ UNCHANGED batch
  /\ Declined

(* A producer in the batch is still going to run: the row stays queued. *)
AdmitWaits(e) ==
  /\ Consider(e)
  /\ batch[BatchOf[e]] = "running"
  /\ Waiting(e)
  /\ Seen(e)
  /\ UNCHANGED <<batch, entry>>
  /\ Declined

(* A producer settled without producing: this run cannot happen. *)
AdmitAbandons(e) ==
  /\ Consider(e)
  /\ batch[BatchOf[e]] = "running"
  /\ Abandoned(e)
  /\ SettleBatch(BatchOf[e], [entry EXCEPT ![e] = "cancelled"])
  /\ Seen(e)
  /\ Declined

(* The contract is not the one agreed to: ask. *)
AdmitReasks(e) ==
  /\ Consider(e)
  /\ batch[BatchOf[e]] = "running"
  /\ Ready(e)
  /\ ContractOf(e) # agreed[e]
  /\ entry' = [entry EXCEPT ![e] = "needs_reask"]
  /\ Seen(e)
  /\ UNCHANGED batch
  /\ Declined

(* The loop waits for the whole start before it looks at the queue again. *)
AdmitStarts(e) ==
  /\ Consider(e)
  /\ batch[BatchOf[e]] = "running"
  /\ Ready(e)
  /\ ContractOf(e) = agreed[e]
  /\ entry' = [entry EXCEPT ![e] = "starting"]
  /\ ClaimInitiation(e)
  /\ drain' = [drain EXCEPT !.seen = @ \cup {e}, !.cur = e]
  /\ UNCHANGED <<batch, agreed, stamp, clock, sess, made, unpublished, resuming,
                 version, bound, limit, outside, server, crashes>>

-----------------------------------------------------------------------------
(* RunService.start, from its first await on.  The same steps serve the drain   *)
(* (the entry is "starting") and a direct run (there is no entry).              *)

Drained(e) == entry[e] = "starting"

(* The workspace is ready: runs.start assembles what the inputs are now. *)
AssembleRun(e) ==
  /\ Serving
  /\ attempt[e] = "workspace"
  /\ Runnable(CommandOf[e])
  /\ attempt' = [attempt EXCEPT ![e] = "runtime"]
  /\ UNCHANGED <<rows, drain, unpublished, resuming, version, bound, limit,
                 outside, server, crashes>>

(* The runtime started: the session exists and the key is spent. *)
StartSession(e) ==
  /\ Serving
  /\ attempt[e] = "runtime"
  /\ sess' = [sess EXCEPT ![e] = "live"]
  /\ made' = [made EXCEPT ![e] = @ + 1]
  /\ init' = [init EXCEPT ![e] = "settled"]
  /\ attempt' = [attempt EXCEPT ![e] = IF Drained(e) THEN "started" ELSE "none"]
  /\ UNCHANGED <<batch, entry, agreed, stamp, clock, drain, unpublished, resuming,
                 version, bound, limit, outside, server, crashes>>

(* A drained entry whose start threw fails, and its batch pauses. *)
EntryRefused(e) ==
  IF Drained(e)
  THEN /\ PauseBatch(BatchOf[e], [entry EXCEPT ![e] = "failed"])
       /\ drain' = [drain EXCEPT !.cur = Nobody]
  ELSE UNCHANGED <<batch, entry, drain>>

(* The root claim of the workspace is refused after the session was recorded:   *)
(* the start throws, the key is freed all the same, and the session row stays   *)
(* live with nobody attached to it.                                             *)
StartRefusedLate(e) ==
  /\ Serving
  /\ LateRefusals
  /\ attempt[e] = "runtime"
  /\ outside < MaxOutside
  /\ outside' = outside + 1
  /\ made' = [made EXCEPT ![e] = @ + 1]
  /\ init' = [init EXCEPT ![e] = "free"]
  /\ attempt' = [attempt EXCEPT ![e] = "none"]
  /\ EntryRefused(e)
  /\ UNCHANGED <<agreed, stamp, clock, sess, unpublished, resuming, version, bound,
                 limit, server, crashes>>

(* A refusal or an error anywhere on the way: the key is free again unless it   *)
(* was another attempt's, and a drained entry fails and pauses its batch.       *)
AttemptFails(e) ==
  /\ Serving
  /\ attempt[e] \in {"workspace", "runtime", "refused"}
  /\ attempt' = [attempt EXCEPT ![e] = "none"]
  /\ init' = IF attempt[e] = "refused" THEN init ELSE [init EXCEPT ![e] = "free"]
  /\ EntryRefused(e)
  /\ UNCHANGED <<agreed, stamp, clock, sess, made, unpublished, resuming,
                 version, bound, limit, outside, server, crashes>>

(* Mutant: no look at what already happened. *)
BindEntryBlindly(e) ==
  /\ Serving
  /\ attempt[e] = "started"
  /\ attempt' = [attempt EXCEPT ![e] = "none"]
  /\ drain' = [drain EXCEPT !.cur = Nobody]
  /\ entry' = [entry EXCEPT ![e] = "running"]
  /\ UNCHANGED <<batch, agreed, stamp, clock, init, sess, made, unpublished, resuming,
                 version, bound, limit, outside, server, crashes>>

(* markRunning, and the look at what already happened to the session. *)
BindEntry(e) ==
  /\ Serving
  /\ attempt[e] = "started"
  /\ attempt' = [attempt EXCEPT ![e] = "none"]
  /\ drain' = [drain EXCEPT !.cur = Nobody]
  /\ IF sess[e] = "live"
     THEN entry' = [entry EXCEPT ![e] = "running"] /\ UNCHANGED batch
     ELSE SettleEntryFor(e, sess[e])
  /\ UNCHANGED <<agreed, stamp, clock, init, sess, made, unpublished, resuming,
                 version, bound, limit, outside, server, crashes>>

-----------------------------------------------------------------------------
(* Sessions ending *)

(* The queue's handler of "session updated, ended": only a row bound to the     *)
(* session and not yet settled is settled, and the slot is drained either way.  *)
OnEvent(e, end) ==
  IF server = "up"
  THEN /\ IF entry[e] = "running" THEN SettleEntryFor(e, end)
                                  ELSE UNCHANGED <<batch, entry>>
       /\ RequestDrain
  ELSE UNCHANGED <<batch, entry, drain>>

(* The runtime reports the end, or a submission is accepted: recorded and       *)
(* published in one tick.  Only a completed run binds its output.               *)
SessionEnds(e, end) ==
  /\ Serving
  /\ sess[e] = "live"
  /\ sess' = [sess EXCEPT ![e] = end]
  /\ bound' \in IF end = "completed"
                THEN {bound, [bound EXCEPT ![CommandOf[e]] = @ + 1]}
                ELSE {bound}
  /\ OnEvent(e, end)
  /\ UNCHANGED <<agreed, stamp, clock, init, made, attempt, unpublished, resuming,
                 version, limit, outside, server, crashes>>

(* stopSession and endOpenSession record the end, then await the runtime. *)
StopSession(e, end) ==
  /\ Serving
  /\ sess[e] = "live"
  /\ sess' = [sess EXCEPT ![e] = end]
  /\ unpublished' = unpublished \cup {e}
  /\ UNCHANGED <<batch, entry, agreed, stamp, clock, init, made, attempt, drain, resuming,
                 version, bound, limit, outside, server, crashes>>

(* The event, once by the handler of the stop and perhaps before that by the    *)
(* driver, which sees the runtime end.                                          *)
PublishEnd(e) ==
  /\ Serving
  /\ e \in unpublished
  /\ OnEvent(e, sess[e])
  /\ unpublished' = unpublished \ {e}
  /\ UNCHANGED <<agreed, stamp, clock, init, sess, made, attempt, resuming,
                 version, bound, limit, outside, server, crashes>>

DriverPublishesEnd(e) ==
  /\ Serving
  /\ e \in unpublished
  /\ OnEvent(e, sess[e])
  /\ UNCHANGED <<agreed, stamp, clock, init, sess, made, attempt, unpublished, resuming,
                 version, bound, limit, outside, server, crashes>>

(* Resumed, forked and handed-off sessions hold slots without asking the queue. *)
OutsideStarts ==
  /\ Serving
  /\ outside < MaxOutside
  /\ outside' = outside + 1
  /\ UNCHANGED <<rows, volatile, version, bound, limit, server, crashes>>

(* Mutant: an end is counted for a session that was not. *)
OutsideEndsTwice ==
  /\ Serving
  /\ outside' = outside - 1
  /\ IF server = "up" THEN RequestDrain ELSE UNCHANGED drain
  /\ UNCHANGED <<rows, attempt, unpublished, resuming, version, bound, limit,
                 server, crashes>>

OutsideEnds ==
  /\ Serving
  /\ outside > 0
  /\ outside' = outside - 1
  /\ IF server = "up" THEN RequestDrain ELSE UNCHANGED drain
  /\ UNCHANGED <<rows, attempt, unpublished, resuming, version, bound, limit,
                 server, crashes>>

-----------------------------------------------------------------------------
(* Shutdown, crash and restart *)

NothingVolatile ==
  /\ attempt' = [e \in Entry |-> "none"]
  /\ drain' = Idle
  /\ unpublished' = {}
  /\ resuming' = [b \in Batch |-> "no"]

(* close(): the queue unsubscribes and stops admitting. *)
StopQueue ==
  /\ server = "up"
  /\ crashes < MaxCrash
  /\ server' = "stopping"
  /\ crashes' = crashes + 1
  /\ UNCHANGED <<rows, volatile, version, bound, limit, outside>>

AttemptsSettled == \A e \in Entry : attempt[e] = "none"

(* settleInFlight, then every live session is recorded as interrupted. *)
ShutdownInterrupts(e) ==
  /\ server = "stopping"
  /\ AttemptsSettled
  /\ sess[e] = "live"
  /\ sess' = [sess EXCEPT ![e] = "interrupted"]
  /\ UNCHANGED <<batch, entry, agreed, stamp, clock, init, made, volatile, version, bound,
                 limit, outside, server, crashes>>

ShutdownEnds ==
  /\ server = "stopping"
  /\ AttemptsSettled
  /\ Live = {}
  /\ server' = "down"
  /\ NothingVolatile
  /\ UNCHANGED <<rows, version, bound, limit, outside, crashes>>

Crash ==
  /\ server # "down"
  /\ crashes < MaxCrash
  /\ server' = "down"
  /\ crashes' = crashes + 1
  /\ NothingVolatile
  /\ UNCHANGED <<rows, version, bound, limit, outside>>

(* recoverFromRestart: reclaimUnstarted, releaseUnsettledInitiations and        *)
(* interruptInFlight.                                                           *)
RecoverFromRestart ==
  /\ server = "down"
  /\ server' = "recovering"
  /\ entry' = [e \in Entry |-> IF entry[e] = "starting" THEN "queued" ELSE entry[e]]
  /\ init' = [e \in Entry |-> IF init[e] = "claimed" THEN "free" ELSE init[e]]
  /\ sess' = [e \in Entry |-> IF sess[e] = "live" THEN "interrupted" ELSE sess[e]]
  /\ outside' = 0
  /\ UNCHANGED <<batch, agreed, stamp, clock, made, volatile, version, bound, limit, crashes>>

(* recoverAfterRestart: every entry that was running gets the outcome its       *)
(* session has, in queue order, and what is waiting is drained.                 *)
Reconcile(e) ==
  /\ server = "recovering"
  /\ entry[e] = "running"
  /\ \A f \in Entry : entry[f] = "running" => ~Before(f, e)
  /\ SettleEntryFor(e, sess[e])
  /\ UNCHANGED <<agreed, stamp, clock, init, sess, made, volatile, version, bound, limit,
                 outside, server, crashes>>

Reconciled ==
  /\ server = "recovering"
  /\ \A e \in Entry : entry[e] # "running"
  /\ server' = "up"
  /\ drain' = NewPass
  /\ UNCHANGED <<rows, attempt, unpublished, resuming, version, bound, limit,
                 outside, crashes>>

-----------------------------------------------------------------------------
Init ==
  /\ batch = [b \in Batch |-> "none"]
  /\ entry = [e \in Entry |-> "none"]
  /\ agreed = [e \in Entry |-> Nobody]
  /\ stamp = [b \in Batch |-> 0]
  /\ clock = 0
  /\ version = [s \in Object \cup Editable |-> 0]
  /\ bound = [c \in Command |-> 0]
  /\ init = [e \in Entry |-> "free"]
  /\ sess = [e \in Entry |-> "none"]
  /\ made = [e \in Entry |-> 0]
  /\ attempt = [e \in Entry |-> "none"]
  /\ drain = Idle
  /\ unpublished = {}
  /\ resuming = [b \in Batch |-> "no"]
  /\ limit \in Limits
  /\ outside = 0
  /\ server = "up"
  /\ crashes = 0

ObservedEnds == EndKind \ {"out-of-budget"}
StopEnds     == {"stopped", "out-of-budget", "ended-by-user"}

Gesture ==
  \/ \E b \in Batch : Initiate(b) \/ RunOneNow(b) \/ RunOneQueued(b) \/ ResumeBatch(b)
  \/ \E e \in Entry : Cancel(e) \/ Confirm(e)
  \/ \E n \in Limits : SetConcurrencyLimit(n)
  \/ \E s \in Editable : Edit(s)

DrainStep ==
  \/ DrainPassEnds
  \/ \E e \in Entry : \/ AdmitDeclines(e) \/ AdmitWaits(e) \/ AdmitAbandons(e)
                      \/ AdmitReasks(e) \/ AdmitStarts(e)

RunPathStep(e) ==
  \/ AssembleRun(e) \/ StartSession(e) \/ StartRefusedLate(e)
  \/ AttemptFails(e) \/ BindEntry(e)

SessionStep(e) ==
  \/ \E end \in ObservedEnds : SessionEnds(e, end)
  \/ \E end \in StopEnds : StopSession(e, end)
  \/ DriverPublishesEnd(e)

(* A shutdown or a boot that has begun, one thing after the other. *)
ServerProceeds ==
  \/ ShutdownEnds \/ RecoverFromRestart \/ Reconciled
  \/ \E e \in Entry : ShutdownInterrupts(e) \/ Reconcile(e)

ServerStep == StopQueue \/ Crash \/ ServerProceeds

Next ==
  \/ Gesture
  \/ DrainStep
  \/ \E b \in Batch : ResumeSettles(b)
  \/ \E e \in Entry : RunPathStep(e) \/ SessionStep(e) \/ PublishEnd(e)
  \/ OutsideStarts \/ OutsideEnds
  \/ ServerStep

Spec == Init /\ [][Next]_vars

(* The event loop keeps running what has been scheduled: the drain, the awaited  *)
(* steps of a start, pending publications, shutdown and boot.  Nothing is fair    *)
(* about gestures, crashes, or a session ever ending.                            *)
Fairness ==
  /\ WF_vars(DrainStep)
  /\ \A b \in Batch : WF_vars(ResumeSettles(b))
  /\ \A e \in Entry : WF_vars(RunPathStep(e)) /\ WF_vars(PublishEnd(e))
  /\ WF_vars(ServerProceeds)

FairSpec == Spec /\ Fairness

-----------------------------------------------------------------------------
(* Properties *)

TypeOK ==
  /\ batch \in [Batch -> BatchState]
  /\ entry \in [Entry -> EntryState]
  /\ agreed = [e \in Entry |-> agreed[e]]
  /\ stamp \in [Batch -> Nat]
  /\ clock \in Nat
  /\ version \in [Object \cup Editable -> 0..MaxVersion]
  /\ bound \in [Command -> Nat]
  /\ init \in [Entry -> {"free", "claimed", "settled"}]
  /\ sess \in [Entry -> {"none", "live"} \cup EndKind]
  /\ made \in [Entry -> Nat]
  /\ attempt \in [Entry -> {"none", "workspace", "runtime", "started", "refused"}]
  /\ drain \in [on : BOOLEAN, again : BOOLEAN, seen : SUBSET Entry,
                cur : Entry \cup {Nobody}]
  /\ unpublished \subseteq Entry
  /\ resuming \in [Batch -> {"no", "draining", "settling"}]
  /\ limit \in Limits
  /\ outside \in 0..MaxOutside
  /\ server \in {"up", "stopping", "down", "recovering"}
  /\ crashes \in 0..MaxCrash

(* A run that was started has everything its own batch was to produce for it:    *)
(* each producer in the batch is done, or settled with its output bound.  Holds  *)
(* through pauses, resumes, confirmations and restarts (queue.ts inBatchStanding *)
(* and the admission that consults it).                                          *)
Started == {"starting", "running", "done", "failed", "interrupted"}
ChainOrder ==
  \A e \in Entry : entry[e] \in Started =>
    \A f \in InBatchProducers(e) :
      entry[f] = "done" \/ (entry[f] \in Settled /\ bound[CommandOf[f]] > 0)

(* No entry says running for a session that has ended, unless the event that     *)
(* will settle it is still to come: the look-back after markRunning and the      *)
(* reconciliation at boot leave none behind.                                     *)
NoStrandedEntry ==
  server = "up" =>
    \A e \in Entry : entry[e] = "running" => sess[e] = "live" \/ e \in unpublished

(* With the drain idle, a slot free and no end left to publish, whatever is      *)
(* still queued is waiting for a producer: no call of drain() was lost.          *)
NoLostWakeup ==
  (server = "up" /\ ~drain.on /\ RunningCount < limit /\ unpublished = {}) =>
    \A e \in Entry : entry[e] = "queued" => batch[BatchOf[e]] = "running" /\ Waiting(e)

(* A batch reads completed only when every entry in it is settled, and so it     *)
(* never becomes anything else (settleBatchIfFinished does not look at paused    *)
(* rows; that a running batch has none is what makes it right).                  *)
CompletedMeansSettled ==
  \A e \in Entry : batch[BatchOf[e]] = "completed" => entry[e] \in Settled

(* A settled entry is never settled again or re-opened, whichever of the event,  *)
(* the look-back, the abort, the cancellation or the restart comes second.       *)
SettledIsFinal ==
  [][\A e \in Entry : entry[e] \in Settled => entry'[e] = entry[e]]_vars

(* One gesture produces at most one session: a key that is repeated by a retry   *)
(* of the gesture, by the entry it made or by that entry after a restart in the  *)
(* middle of a start replays what it made (principle 9, claimInitiation).        *)
OneGestureOneSession == \A e \in Entry : made[e] <= 1

(* An entry starts ahead of an earlier one only when that one was waiting for a  *)
(* producer, or another pass has been asked for (waiting()'s order).             *)
AdmissionOrder ==
  [][\A e \in Entry : entry[e] = "queued" /\ entry'[e] = "starting" =>
       \A f \in Entry : entry[f] = "queued" /\ Before(f, e) => Waiting(f) \/ drain.again]_vars

(* The sessions running at once never exceed the limit.                          *)
LimitRespected == RunningCount <= limit

(* A queued run re-asks only when something outside its batch changed, its       *)
(* configuration or an input it does not get from a command of its batch, or     *)
(* when an input was renumbered: it is wired behind an output of the batch, and  *)
(* was agreed to at an earlier place than it has now that this output is bound.  *)
(* (queue.ts:1308 calls that output's appearing the contract executing and never *)
(* a drift; the ordinals of run-store.ts assemble make it one for the inputs     *)
(* wired behind it.)                                                             *)
AgreedFacts(e, contract) ==
  <<contract.configuration,
    {<<i[2], i[3]>> : i \in {j \in contract.inputs : j[2] \notin Siblings(e)}}>>
Renumbered(e) ==
  LET c == CommandOf[e]
  IN \E i, j \in Resolved(c) :
       /\ i < j
       /\ Inputs[c][i] \in Siblings(e)
       /\ Inputs[c][j] \notin Siblings(e)
       /\ \E line \in agreed[e].inputs :
            line[1] < Ordinal(c, j) /\ line[2] = Inputs[c][j]
ReaskOnlyOnDrift ==
  [][\A e \in Entry : entry[e] = "queued" /\ entry'[e] = "needs_reask"
       => Renumbered(e) \/ AgreedFacts(e, ContractOf(e)) # AgreedFacts(e, agreed[e])]_vars

(* An aborted batch stays aborted: stopped means stopped.                        *)
AbortedIsFinal ==
  [][\A b \in Batch : batch[b] = "aborted" => batch'[b] = "aborted"]_vars

(* While the process lives, an entry that reads cancelled has no session at work *)
(* and none that went on to an outcome of its own: at most one that was stopped. *)
(* A crash frees an entry that started and was not bound, and that can be        *)
(* cancelled whatever its session came to.                                       *)
CancelledNeverRan ==
  crashes = 0 => \A e \in Entry : entry[e] = "cancelled" => sess[e] \in {"none", "stopped"}

(* Sessions that hold slots without the queue stop coming and going, and the      *)
(* operator leaves the limit alone: each end and each raise asks for a pass more. *)
LeftAlone == <>[](outside = 0) /\ <>[][FALSE]_limit

(* The drain loop comes to an end, over and over, once the queue is left alone.  *)
DrainEnds == LeftAlone => []<>(~drain.on)

(* While no session runs for ever and the queue is left alone, a                 *)
(* queued entry is eventually admitted, parked, settled or asked about, unless a *)
(* producer in its batch is waiting for the operator, or the server goes down.   *)
Decided(e) == \/ entry[e] # "queued"
              \/ server = "down"
              \/ \E f \in InBatchProducers(e) : entry[f] = "needs_reask"
QueuedIsDecided ==
  LeftAlone /\ (\A e \in Entry : []<>(sess[e] # "live")) => \A e \in Entry : []<>Decided(e)

(* While the process lives (no crash or shutdown begins) and the queue is left   *)
(* alone, a batch does not stay running with nothing in it left to run.          *)
Hollow(b) == /\ batch[b] = "running"
             /\ \A e \in EntriesOf(b) : entry[e] \in Settled
NoHollowBatch ==
  LeftAlone /\ <>[](crashes = 0) => \A b \in Batch : []<>(~Hollow(b))

=============================================================================
