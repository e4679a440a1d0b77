# PlotRoom: a verification development

PlotRoom runs agent sessions over a board of commands. The operator initiates
runs; sessions produce objects, ask for approvals, claim the paths they write,
spend money and are stopped, resumed, forked and handed off. One server process
(Bun, a single event loop, one SQLite database) owns all of it. These modules
model the server's own decisions: what it admits, in which order, what it
records, and what is true again after it was killed.

A step of a specification is the code between two `await`s: everything a handler
does synchronously happens in one SQLite transaction or at least in one turn of
the event loop, so nothing else of the process can come between. What may come
between two awaits of one handler is any step of any other. A crash may come
between any two steps and keeps exactly the rows.

## Inventory

| part | state | operations | hard behaviour | what makes it correct |
|---|---|---|---|---|
| **Run queue** `apps/server/src/runs/queue.ts`, `db/run-queue-store.ts` | batches and queue rows; `#draining`, `#drainAgain`, the limit | initiate, runOne, cancel, confirm, resumeBatch, drain, admit, settle, pause, abort, recover | one drain loop with awaits inside, ended sessions, gestures and a restart interleave; contract checked before awaits | chains in order, nothing stranded, no wake-up lost, one gesture one session, limit kept |
| **Run path, sessions** `runs/service.ts`, `sessions/driver.ts`, `db/run-store.ts`, `db/session-store.ts` | runs, sessions, initiation keys; live handles in the hub | runOne/start, submit, stop, end, resume, recover, shutdown | end recorded before the runtime is stopped; observations race stops; keys across crashes | first outcome wins; no ended session leaves a running run |
| **Path claims** `core/claims/*`, `claims/service.ts`, `db/claim-store.ts` | live claims (a grant tree), waitlist, policies | request, grant, answer, yield, force-release, declare/withdraw policy, expire, end session; promotion loop | every change moves other sessions' waits; leases lapse unobserved; cycles | single writer, capabilities never created, waits accurate, no deadlock, first come first served |
| **Approvals and gate** `approvals/*`, `sessions/gate.ts`, `core/sessions/approvals` | approvals, standing decisions, blocked tool calls | decide, raise, answer, perform, settle; guard, destroy, restore | answer saved, performed, delivered across awaits; the host may be another one by then | nothing runs or is destroyed that nobody agreed to; an answered call does not wait for ever |
| **Budgets and spend** `budgets/service.ts`, `core/budgets.ts`, `db/spend-store.ts` | caps, ceilings, spend rows, warnings given | start, account, warn, stop, raise | a runtime spends while its turns are read; nested caps, delegates | a cap is overspent by what was in flight and no more; every turn charged once up the chain |
| **Steering** `sessions/steering.ts`, `core/sessions/{injection,questions,broadcast}.ts` | injections, questions, broadcasts per recipient | inject, ask, answer, broadcast, replay | delivery to a handle that may be gone; slow acknowledgements, retried gestures | one turn at most per recipient; a replay tells the truth |
| **Continuation** `sessions/continuation.ts`, `core/sessions/{fork,handoff}.ts` | session lineage, checkpoints | resume, fork, hand off | the old pump's late end meets the reopened record | a reopened session is not ended by its past |
| **Workspaces** `core/workspaces`, `server/workspaces` | workspace rows, setup attempts | provision, set up, discard, diff | failed set-ups, awaits of git | ready means provisioned and set up |
| **Plugin host** `plugin-sdk/host.ts`, `server/plugins` | worker, health, pending calls, grants | load, invoke, dispose, disable | worker dies or is replaced during an await; backoff, timeouts | a plugin that is gone stays gone; no call waits for ever |
| **Session host** `apps/session-host` | pending requests, command loop | raise, settle, respond, inject, shut down | answers that never come, or come twice; requests numbered from one in each process | a call is released once, and only as its own answer says |
| **Attention** `attention/*` | derived rows, snoozes, dismissals | refresh, tick, snooze | derived from everything else; its tick is the only clock | nothing due goes unseen |
| **Desktop shell** `apps/desktop/src-tauri` | the child it spawned | probe, spawn, poll, attach, kill | two shells; a shell that dies around the fork | no server outlives its shell |
| Integrations, conditions, standing instructions | records, refresh job | refresh, evaluate | overlapping refreshes | each writes what it read |
| Graph, objects, versions, commands, search, settings, routes, WebSocket, migrations, web app, bundled plugins | rows, presentation | validated synchronous writes, reads | none of their own | |

How they meet: the queue calls the run path and hears of session ends over the
synchronous event bus; the run path grants the root claim, releases claims at
every end, attributes spend and asks budgets; the gate asks claims, approvals and
pre-grants; attention reads all of them, and its read sweeps lapsed claims.

`PROJECT.json` lists every part with its status, and the hazards of this code
line by line.

## Modules

| module | models | proofs |
|---|---|---|
| `RunQueue` | the queue, its drain loop, the run path as the queue enters it, session ends, crash, boot, shutdown | `RunQueueProofs` |
| `MCRunQueue` | boards and gestures for TLC | |
| `Claims` | the claim manager with its service and rows, promotion wait by wait | `ClaimsProofs` |
| `MCClaims` | a small workspace for TLC | |
| `Outcomes` | the promise: how a session and its run end | |
| `RunLifecycle` | one session, its run and its runtimes; implements `Outcomes` | `RunLifecycleProofs` |
| `MCRunLifecycle` | names of requests and keys for TLC | |
| `GatedCalls` | the promise: how a blocked call is let go | |
| `Requests` | a blocked call from the session host to the operator and back; implements `GatedCalls` | `RequestsProofs` |
| `Destruction` | destructive gestures of sessions, their approvals and their effects | `DestructionProofs` |
| `Budgets` | what sessions and delegates spend, where it is charged, and who is stopped | in `ServicesProofs` |
| `Broadcasts` | broadcasts and injections, their ledger, their replays | `BroadcastsProofs` |
| `PluginHost` | one plugin's host, its workers and its calls | in `ServicesProofs` |
| `SpawnOrAttach` | desktop shells and the servers they start | `SpawnOrAttachProofs` |
| `Services` | the six services above, one in focus per behaviour | `ServicesProofs` |
| `MCServices` | sessions, plugins, shells for TLC | |
| `MCRequests`, `MCBroadcasts` | names for the two runs of one service alone | |

The six services of `Services` share no state in these models, so a behaviour of
the composition is a behaviour of one of them while the others stand still. One
run then checks them all, on the sum of their states and not on the product, and
what is proved of each carries over (`ServicesProofs`).

### RunQueue

Rows: `batch`, `entry`, `agreed`, `stamp` are `run_batches` and `run_queue`;
`init`, `sess`, `made` are the initiation key, the session it produced, and how
many it ever produced. In memory, and gone at a crash: `attempt` (where
`RunService.start` is, per key), `drain` (`#draining`, `#drainAgain`, the
attempted set and the entry whose `admit` is awaited), `unpublished` (ends
recorded by `stopSession` whose event is still to come), `resuming`
(`resumeBatch` calls awaiting the drain). `outside` counts live sessions the
queue never saw (resumed, forked, handed off): they fill slots.

The contract is a record of what the preview shows: the command's configuration,
its resolved inputs with ordinal and version, and whether it is runnable.
`ContractOf` drops what the entry's own batch produces (`agreedPartOf`), and
numbers inputs as the code does, over the resolved ones.

`admit` is split where it awaits: `AdmitDeclines`, `AdmitWaits`, `AdmitAbandons`,
`AdmitReasks` and `AdmitStarts` are its synchronous part; `AssembleRun`,
`StartSession`, `AttemptFails`, `StartRefusedLate` the awaits of
`RunService.start`; `BindEntry` the rest of `admit`. A direct run takes the same
steps without an entry. The loop head of the drain is a step of its own, which
lets other handlers in at one place where the event loop would not; that adds
behaviours and removes none.

External, modelled from use: `Edit` (the board's editor) and `Crash`.

### Claims

A claim is its holder and its path (asking again for a held path finds the claim
that is there). `from` is the grant tree, `lapsed` the claims whose lease ran out
before anything swept them, `waits` the waitlist in its order, `fresh` the waits
of the current second (`since` has a second's resolution, and ids order the rest).

Every decision of the manager sweeps, decides and promotes in one synchronous
call. The model takes that call apart: a decision is enabled only with no lapsed
claim (`Decides`), `Sweep` is the sweep, and after a change `phase` runs
"promoting" (one `todo` entry per visited wait, a new pass while the last one
changed something) and then "breaking" (cycles) before anything else may happen.

Abstracted: a policy pattern is the subtree it covers; a lease is a claim that
may lapse at any `Tick` (renewal by activity is a lease that does not); the root
grant of a workstream's first session is `Grant` at the root; a denied answer
removes a wait as a withdrawal does; of several cycles and ties the code breaks
one in an order of its own, the model any. The manager keeps no list of ended
sessions, and neither does the model.

### RunLifecycle and Outcomes

Rows: `mode`, `session` (the end, or live), `run`, `proof` (the run's
submissions), `held` (whether the session holds claims; which ones is `Claims`'
matter) and `key` (initiation keys of resumes). In memory: `start` (the await of
`RunService.start`), `pump` (per runtime handle, `driveSession` and whatever it
awaits), `hub`, and the HTTP requests `stop`, `submit` and `resume` at their
awaits. `runtime` is the process behind a handle. `reopened` and `astray` are
ghosts: they remember which handle reopened the session, and which handles the
hub no longer knows, and no step reads them.

`StopAsked` and `BudgetStops` record the end and ask the runtime; `StopFinishes`
and `BudgetStopFinishes` are what follows the await (`endRunFor`). `Accepted` is
the synchronous tail of `submit`, shared by the pump (which then waits for the
runtime) and by HTTP. `EndFromObservation` is the report of a runtime classified
and recorded; `Detach` is the rest of `onEnded`. `resumeSession` is taken apart at
its awaits: `ResumeAsked` (planning, the divergence check), `ResumeDrains`,
`ResumeAborts`, `ResumeLetsGo` or `ResumeClaims` (the key), `ResumeOpens`.

A runtime reports any end an adapter may report. Its stream always ends with an
end: the adapter's contract, kept by both adapters. `DrainsTimeOut` says whether
the bounded drains of a resume and of a shutdown may run out first, `LateRefusals`
whether the root claim can be refused once the session is recorded.

`Outcomes` is the abstract session and run: a session keeps its first end until it
is resumed; its run ends once, as completed only by proof and before any session
says completed, otherwise with the outcome of the end its session has. The
refinement mapping is the identity on `session` and `run`.

### Requests and GatedCalls

In the session host: `call` (what became of each blocked call), `kind`, `pending`
(the bridge's map). Between the processes: `frames` and `commands`, two pipes. In
the server: `attached` (the hub), `awaiting` (a pump that awaits the
acknowledgement of what it wrote), `carrying` (answers written down, not yet
delivered). Rows: `approvals` and `questions`. A call is the n-th request of a
process of a session; a row knows it by session and n, or by n alone (questions),
because the bridge of each process counts from one.

`Raise`, `SdkTimesOut`, `HostResponds` and `HostGoes` are the host;
`PumpReadsRequest` is the whole of a request's handling up to the first await
(`Gate` is `decide`), `PumpContinues` what follows; `AnswerApproval`,
`AnswerQuestion`, `EffectFails` and `Settle` are `ApprovalService.answer` and
`SteeringService.answer` taken apart at their awaits. `ClaimMoves` is all of
`Claims` that matters here: who may write the path. `permitted` is a ghost: the
calls an allow was sent for.

`GatedCalls` is the abstract gate: a call waits from when it is raised, is let go
once and for good, and a tool runs only when it was permitted. The mapping is the
identity on `call` and `permitted`; everything else is hidden.

### Destruction

`deletedBy` (in whose name a record is deleted), `live`, `approvals` oldest first,
`grants` (standing decisions), and `stopping`: deletions that await the stop of a
running session's runtime. `Asks`, `Destroys` and `OperatorDestroys` are the guard
and the route; `Approve` saves the answer and acts on it, `StopEnds` and
`StopFails` follow the await.

### Budgets

Money is counted in turns. `taken` is what the runtime spent, `read` what its pump
read, `row` the spend rows (charged to, spent by), `tripped` the budget a session
is being stopped for, `stops` the HTTP stops in flight, `told` the warnings and
stop notices. A cap counts what is charged to its members, delegates included; a
ceiling what its members spent themselves. `late` is a ghost (turns read after the
end was written).

### Broadcasts

A gesture is sent, awaits one recipient's acknowledgement after the other, and may
be made again. `recipients`, `place`, `edges` and `ledger` are rows; `left`,
`sending` and `awaited` are the loop of `broadcast` at its awaits; `wire`, `held`
and `acked` are the pipe and the recipient's process. An injection is a broadcast
to one, of which the ledger is the record.

### PluginHost

`health`, `worker`, `restarts` and `descriptor` are the host's fields; the n-th
thread it starts is worker n, `said` what the thread posted and the host has not
handled. `through` is the worker a call read before it awaited its credentials.
`Hears*` are the message and exit handlers, `Fail` is `#fail`, `HearsDeath` is
`#crashed`.

### SpawnOrAttach

`shell` is where `spawn_or_attach` is, `child` the process from its fork to the
server it becomes (death signal armed, parent looked for, exec), `listener` whose
server holds the port. `Dies` takes a shell at any point; the kernel then kills a
child that is armed.

## Runs

TLC with the bounds below; every `pass` run completes. Bounds are the CONSTANTS
`MaxBatches`, `MaxVersion`, `MaxOutside`, `MaxCrash` (RunQueue), `MaxWaits`, `MaxPolicies`
(Claims), `MaxHandle`, `MaxCrash`, `MaxClose` (RunLifecycle), `MaxProc`, `MaxCall`,
`MaxRaised` (Requests), `MaxRaised` (Destruction), `MaxTurns`, `MaxCrash`, `Limits`
(Budgets), `MaxDeaths` (PluginHost) and `MayCrash` (Broadcasts); each is a conjunct
of the guard of the action it bounds.

| run | shows | instance and why it is enough |
|---|---|---|
| `queue_core` | types; no lost drain; completed batches are settled; what reads cancelled never ran to an outcome, while the process lives; one gesture one session; queue order | two independent commands in one scope beside a single run, whose gesture is repeated at will, two slots, one crash or shutdown: every slot is contended, a batch pauses or aborts while another of its starts is under way, and a key comes back by a retry, by a start that failed and after a restart |
| `queue_restart` | chain order, nothing stranded, settled rows final, a re-ask has a reason; under fairness the drain ends, a queued run is decided and no batch stays running with nothing left to run | a chain of two, the object wired before the producer or behind it (two scopes, of which a behaviour makes one: `MaxBatches`), limits 1 and 2, one edit, one session past the queue, starts refused late, and one crash or shutdown at every point |
| `claims_core` | types; one writer per path at every moment; every claim inside a live grantor; no policy without its claim; no circle of waits; between calls each wait's row says what the claims and policies imply; first come first served; promotions end; a wait behind lapsed leases is served with nobody calling | two sessions, a file in a directory in the root, two waits, one policy: chains of three claims, cascades, lapses inside chains, policies given and withdrawn under a wait, circles of two closed by requests, answers and promotions. Longer circles are a matter of the proof (`NoDeadlock` holds for every set of sessions) |
| `lifecycle_core` | types; the lifecycle implements `Outcomes`; an old runtime's unread end does not close a reopened session; once an end is through, the run has ended and nothing is held; a close reaches what is attached; every end is carried through | one stop, one submission besides the session's own, a resume and its retry, two runtimes, one crash and one close at every point, producing and open: any two ways of ending meet, and each meets a resume |
| `services` | one service in focus per behaviour. Requests: they implement `GatedCalls`, a call is left waiting only for a decision somebody can make, an answered call does not wait for ever. PluginHost: gone is gone, no call waits for ever. Budgets: caps hold but for what was in flight, accounts settle. Broadcasts: one turn each. Destruction: nothing destroyed unasked. SpawnOrAttach: nothing left behind | Requests: one session, two hosts in turn, two calls, every kind, so that an answer meets the next host. PluginHost: two calls, one restart, two deaths: a call outlives the worker it set out for. Budgets: a parent with a cap, its delegate, a ceiling over both, two turns each, one crash. Broadcasts: a broadcast to two overlapping a gesture to one, with a crash. Destruction: one asker, a session and another record, two approvals, an allow and a deny. SpawnOrAttach: two shells and a server started by hand |

Runs with a violation, each a disagreement between a line of the repository and
its code (quoted in `PROJECT.json`):

| run | disagreement |
|---|---|
| `queue_aborted` | a batch aborted by a stop turns paused, and resumes, when another of its live runs fails afterwards |
| `queue_late_refusal` | a root claim refused after the session was recorded and the key settled frees that key, and the retry of the gesture makes a second session |
| `queue_over_limit` | two single runs pass the same check of the limit, because the session is counted only after two awaits |
| `lifecycle_left_behind` | a crash while a stop awaits the runtime leaves a running run behind an ended session, and boot looks only at sessions without an end |
| `lifecycle_two_resumes` | two resumes with two keys both open a runtime for one session, the second while the session is live |
| `requests_reused_id` | a resumed session's host numbers its requests from one again, and an approval of the former host's first call lets a different first call run |
| `broadcast_lost` | a recipient ends while a broadcast awaits another: the delivery throws, those behind get nothing, and a replay calls them queued |

Where the properties stop. Some of the above hold only on one side of a
configuration, and the model shows the other side when the constant is changed:
`CancelledNeverRan` speaks of a process that lives (a crash frees an entry whose
session was started and not bound, and that entry can be cancelled even if its
session completed), and so does `NoHollowBatch` (a crash while a resume awaits the
drain leaves an all-settled batch running, and boot does not look); `ReaskOnlyOnDrift`
allows one re-ask that is no drift. Inputs are numbered over those that are resolved
(`run-store.ts` `assemble`), so an output of the batch that binds renumbers whatever
is wired behind it, and the consumer asks again although its batch only produced what
was previewed: `queue.ts:1308` calls that "the contract executing, not the contract
drifting" and says a re-ask there would ask the operator to confirm what they just
confirmed. So the code and this comment disagree for a producer wired before another
input; the run reaches that re-ask (the scope whose object is wired behind its
producer), and `Renumbered` says exactly when it may happen. Without that disjunct TLC
finds the property violated. `OneGestureOneSession` is checked with
`LateRefusals = FALSE`; with late refusals it is violated, which is run
`queue_late_refusal`. An edit between
the comparison of the contract and the assembly of the inputs runs unasked, and the
settling of an entry and of its batch is one step here, though a crash may come
between the two writes. In RunLifecycle the properties hold for a process
that was not killed between an end and its settlement (`crashes = 0`) and for the
handles the hub knows: a start refused late leaves its runtime to nobody, and a
resume overtaken by its own retry detaches the runtime the retry opened
(`astray` excludes both). `OldEndsStayOld` and `CloseReachesTheAttached` speak of
drains that are waited out, and of resumes under one key.

In the services: `EveryGatedCallIsAsked` and `AnAnswerIsDelivered` speak of
tool calls, not of questions, which are found by the name alone, so that the
second session's question of that name is lost. `CapsHold` allows one turn for every
session the cap binds, and the turns that are read after an end was written;
`AccountsSettle` speaks of pumps that came to their end (a crash may lose the
charge of a turn read after a stop), and of stop notices only where the runtime
answered the stop (when it throws, nobody above is told). `CallsEnd` speaks of a plugin that is there: a call that is registered
after its host is gone is never settled. `NothingDestroyedUnasked` asks that the
operator has agreed at some time. `NothingLeftBehind` is the Linux shell's; the
gap on macOS and Windows is stated in `sidecar.rs`. It rests on what `sidecar.rs:17`
says, that the parent of an orphan is process 1: the child takes `getppid() == 1` for
"my shell is gone". Under a subreaper (a `systemd --user` manager, some containers) an
orphan gets that one as its parent, the look finds nothing wrong, and a shell that died
before the death signal was armed leaves its server behind; the model has no subreaper.

What the models show beside the runs, each reachable in its module: an approved
destruction is never consumed, so that after a restore the same session destroys
the record again without asking; a denial, or an effect that failed, denies for
ever; a deleted session can be resumed; the restarts of a plugin are counted anew
after each load, so that a plugin that loads and dies is restarted without end;
a broadcast that was queued and not acknowledged in time is called refused
although its turn may be taken and charged; a shell whose own server lost the port
takes the one that answers for its own; a resume in flight during a graceful close
opens its runtime after the sweep.

Every property of a passing run has a mutant of the code in `PROJECT.json` that
violates it under the same configuration.

Deadlock is not checked for RunQueue, RunLifecycle and the services: each gesture is made once,
or the bounds are used up, so the server may come to rest. Claims never rests and is checked.

### Fairness

RunQueue: what the event loop has already scheduled goes on (drain steps, awaited
steps of a start, pending events, shutdown, boot). Nothing is fair about gestures,
crashes, or a session ever ending; `QueuedIsDecided` says "while no session runs
for ever", and the queue's liveness that the operator leaves the limit alone in the
end (`LeftAlone`): each raise asks the drain for one more pass. Claims: `FairSpec` runs a promotion to its end, since it is one
synchronous call. `TickingSpec` adds `Sweep`: the attention tick (30 s by default;
an operator who sets it to zero gives this up) and every observed event re-derive
attention, which reads each workstream's waits through
`ClaimService.waitMetrics`, and that read sweeps. RunLifecycle: pumps and waiting
stops go on, and a runtime that was asked to stop is gone at last, because the
adapter bounds each of its waits (`OmpSessionHandle.stop`, `STREAM_END_TIMEOUT_MS`)
and kills the process group. Nothing is fair about requests or a runtime that
nobody asked. Services: in Requests a pump, the host's command loop and an answer
that was given go on (`Carries`; each wait for an acknowledgement is bounded by 30
seconds), in PluginHost the event loop handles what workers said, timers run out,
the lookup of credentials returns and a dispose goes to its end (`EventLoop`).
Nobody has to answer, to load, to call or to stop anything. The fairness is weak
and of the disjunction: it asks for some progress, not for any one step.

## Proofs

Every invariant and action property of the passing runs is a theorem for every set
of sessions, paths, gestures, calls and every bound. So are the two refinements. `PROJECT.json` lists the theorems; the
argument of each component is this.

**Assumptions.** The named ones of the modules, which TLC evaluates on every run
that extends them. Two are worth a word. `ScopesAreInDependencyOrder`: a scope is a
topological order of its commands, since `scopes.ts` computes it as one over a graph
without circles; without it an entry could wait for one behind it, and be passed over
in a pass that then starts what it waits for. `Named` in `Broadcasts` asks that there
are finitely many gestures: the place of an input counts the deliveries before it.
`BudgetBounds` asks for finitely many sessions: a cap is compared with a sum over
those it binds.
Theorems of RunLifecycle whose property is true on one side of a constant only say so
in their ASSUME; `RunLifecycleCore.cfg`, which checks those properties, is on that side:

| hypothesis | theorems | what happens without it |
|---|---|---|
| `Patient` (`~DrainsTimeOut`) | RunLifecycle's, but for types | a resume or a shutdown goes on while an old pump is still to settle the run |
| `OneGesture` (one key for all resumes) | `CloseReaches`, `OldEndsDoStayOld`, `OneGestureResumesOnce`; the refinement asks for it or for no crash | two gestures both open a runtime, which run `lifecycle_two_resumes` exhibits |

**RunQueueProofs.** `IndInv` adds to `TypeOK`, `ChainOrder` and `NoStrandedEntry` what
the code relies on without saying so: `RowsAgree` (a batch's state and its rows'
states agree: a running batch has no parked row, a completed one only settled ones,
which is why `settleBatchIfFinished` may ignore parked rows) and `AttemptsAgree` (an
attempt holds its key until it has a session, a bound one is a starting row's, none
survives the process). `ChainOrder` needs that a settled row stays settled and that a
bound output stays bound, through the pause, abort and restart that rewrite many rows
at once (`EntryMoves`, `BoundGrows`).

`NoLostWakeup` rests on `WakeInv`: whatever the drain loop has passed over in this
pass need not be looked at again (`PassKnows`). An entry that was passed over waits
for a producer of its own batch, and that producer was passed over as well, has
started, or has asked for another pass on its way (`Seated`). Every step that could
change this (a settled end, a limit raised, a batch resumed) requests a pass in the
same step. `AdmissionOrder` follows from it with `StartsInLoop`. `CancelledNeverRan`
rests on `NeverRan`: a start takes the entry out of the cancellable states before it
takes the key. `ReaskOnlyOnDrift` rests on `AgreedAsPreviewed`: what was agreed to was
the contract at some earlier moment, when no output was bound more often than now. So
if an input of the same version has another place in the contract, more inputs are
resolved before it, those are the batch's own, and it was `Renumbered`
(`FactsDecideContract`). `OneGestureOneSessionHolds` says, with late refusals or without, that
a key which has its session keeps it and makes no other (`SpentKeysStaySpent`), hence
that a second session is always that of a key a late refusal has freed.

**ClaimsProofs.** Three layers. `ClaimsInv` is about the claims: every claim hangs in
a live grantor up to the operator's root, inside it (`ClaimsHang`), one session holds a
path (`OneHolder`), leases and policies are of live claims (`Attachments`). A release
re-homes the children of what it removes to their nearest surviving ancestor
(`Survivor`), and that this keeps the tree a tree is most of the work: chains are
least closed sets, so that their facts need no recursion. `WaitsInv` is about the
waitlist: one wait for each session and path (`OneWaitEach`), and a pass visits them in
their order (`InLine`). `PassInv` is about a promotion: a wait this pass has visited
cannot be granted, and its row is in sync if nothing has changed since the pass
began; outside a promotion every row is in sync. `SingleWriter` and `GrantExtent`
follow from the first, `WaitsInSync` and `FirstComeFirstServed` from the last.
`NoDeadlock` is separate: a request that would close a circle is refused
(`JoiningClosesNone`), and a promotion, which may close one by moving claims,
ends by refusing the newest wait of each circle until there is none
(`NoNewestNoCycle`: a finite waitlist with a circle has a newest wait on one).

**RunLifecycleProofs.** `EndsInv` says what a running run can rely on: as long as it
runs, only the attached runtime has a pump, and whoever waits to settle the run has
recorded the end that stands and has asked that runtime to stop (`Tethered`). This is
the invariant the refinement of `Outcomes` needs: the outcome a run gets is the
session's. With it, `ProofEndsRun` (an accepted submission completes the run in the
same step), `NeverKilled` (without a crash nobody resumes past a running run, and a
session stays attached until its run ended) and `Releases` (a claim outlives its
session's end only in a pump that will release it). `GestureInv` adds what a gesture
and its repeats find when there is no other: whoever holds an unspent key sees an
ended session (`Retried`), what drove it before it was reopened is through
(`OldAreOver`), and the hub knows every runtime that runs (`Reached`).

**RequestsProofs.** What a process of the past leaves behind is nothing (`OfNow`,
`Up`): its calls are gone, its frames are read before the next one starts, its
commands were lost with it. So a name on a pipe is a name of the process there is,
which is what `SentPermitted` (an allow on its way is for a permitted call) and `Asked`
(whatever waits has its frame, its open row, its answer or its command under way)
need. The refinement of `GatedCalls` follows step by step. That a name in a *row* is
not so protected is the finding of `requests_reused_id`.

**DestructionProofs, BroadcastsProofs, SpawnOrAttachProofs.** `StoppingAgreed`: a deletion that
awaits the stop of its session was agreed to, and answers are not taken back.
`Placed`: an input is on the wire, held or a turn, and only one of them, while the
loop that sends it has gone past it; for the types, `InPlace` counts the places given
against the deliveries, so that a place stays within the gestures made. `Guarded`: a
child past its look at the parent has a shell that is there or a death signal armed.

**ServicesProofs.** Each component's theorem is a theorem of the composition: its part
starts as the component starts (`...Run`), and every step of the composition is a step
of it or leaves it alone (`...TheirStep`). Budgets: `Accounts` says in which order a
turn's row, the session's end and the notices upward are written (`InOrder`), and
`BudgetTypes` that turns are charged, read and taken in that order. `CapsHold` needs
`Capped`: the rows of a session lie between what it had read when its end was written
and all that it read (`Balanced`), and if the turn that ended each session is not
counted, no cap is reached (`Below(Counted)`), since a turn after which its session
still runs has found something left in every cap that binds it (`SomethingLeft`).
The sums of `Spent` are folds, hence a recursion that has first to be shown to have
a solution (`SumExists`): a smallest set without one has a smaller one without one.
The sum lemmas go the same way, by a smallest counterexample. PluginHost: `Threads`
says that one thread runs at most, the one started last, and that a death that was
not yet heard of is the last thing said; `GoneStaysGone` is the safety in `DownForGood`.

The proof that a step keeps an invariant goes by the actions of `Next`; the theorems
follow by PTL.

**Only model-checked.** Liveness, which is out of the prover's reach: `DrainEnds`,
`QueuedIsDecided`, `NoHollowBatch`, `PromotionsEnd`, `LapseServesTheWaiter`,
`EndIsCarriedThrough`, `AnAnswerIsDelivered`, `CallsEnd`, `DownForGood`. The theorems that need a hypothesis (above) say nothing of what holds without
it; there, TLC has only the violations shown.

## Plan

Done: `RunQueue`, `Claims`, `RunLifecycle` implementing `Outcomes`, `Requests`
implementing `GatedCalls`, `Destruction`, `Budgets`, `Broadcasts`, `PluginHost`,
`SpawnOrAttach`, their composition, and the proofs above. Left, in this order:

1. An abstract admission (a set of promises kept once each) that `RunQueue`
   implements.
2. Fewer hypotheses in the theorems of `RunLifecycle`: what remains true when a drain
   times out.
3. Forks and handoffs, which start a session without a run.
4. Workspaces' readiness and the overlapping refreshes of integrations.

## Not modelled

Of the parts that are modelled: standing decisions on tool calls and their
expiry, batch answers, permission and rate checks of steering, question
escalation, the daily window of a ceiling, budget requests, forks and handoffs,
transcript checkpoints, plugin grants and the contribution registry, the other
adapters. Of the rest: rendering, routing, validation and presentation; the agent runtimes, git and
plugins themselves (external programs, whose answers are nondeterministic inputs);
schema and migrations; search, settings and logging. `PROJECT.json` gives the
reason part by part.
