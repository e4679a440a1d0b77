----------------------------- MODULE PluginHost -----------------------------
(***************************************************************************)
(* The host of one plugin (packages/plugin-sdk/src/host.ts): one worker    *)
(* thread, its loading, its restarts, and the calls made of it.            *)
(*                                                                         *)
(* The n-th worker the host starts is worker n.  What a worker says is     *)
(* handled in the order it said it; what a terminated worker said is of no *)
(* account.  Between a call's first look at the host and its registration  *)
(* the credentials are resolved, which takes as long as it takes.          *)
(***************************************************************************)
EXTENDS Naturals, Sequences, FiniteSets

CONSTANTS
  PluginCall,     \* the calls that are made of the plugin
  MaxRestarts,    \* RestartPolicy.maxRestarts
  MaxDeaths       \* bound: workers that crash or exit by themselves

PluginBounds == MaxRestarts \in Nat /\ MaxDeaths \in Nat

Worker == 1..(MaxDeaths + 1)

VARIABLES
  health,      \* PluginHealth.status
  descriptor,  \* the contract declaration was read once
  restarts,    \* restarts since the plugin loaded last
  worker,      \* the worker the host speaks to, 0 for none
  started,     \* workers started so far
  running,     \* workers whose thread runs
  said,        \* per worker: what it said and the host has not handled
  invoked,     \* what became of a call
  through,     \* the worker a call was going to be made of
  timers,      \* calls whose timer runs
  asked        \* the calls that a worker was handed and has not answered

host  == <<health, descriptor, restarts, worker, started>>
calls == <<invoked, through, timers>>
vars  == <<host, running, said, calls, asked>>

Died == started - Cardinality(running)      \* crashed, exited or terminated
Gone == {"unavailable", "disposed"}

Init ==
  /\ health = "loading" /\ descriptor = FALSE /\ restarts = 0
  /\ worker = 1 /\ started = 1 /\ running = {1}
  /\ said = [w \in Worker |-> <<>>]
  /\ invoked = [c \in PluginCall |-> "none"]
  /\ through = [c \in PluginCall |-> 0]
  /\ timers = {} /\ asked = {}

-----------------------------------------------------------------------------
(* What the handlers share. *)

Pending == {c \in PluginCall : invoked[c] = "pending"}

RejectPending ==
  /\ invoked' = [c \in PluginCall |-> IF c \in Pending THEN "rejected" ELSE invoked[c]]
  /\ timers' = {}

(* A terminated worker is not heard: its messages and its exit are of no account. *)
Terminate(w) ==
  /\ running' = running \ {w}
  /\ said' = [v \in Worker |-> IF v = w THEN <<>> ELSE said[v]]
  /\ asked' = {a \in asked : a[1] # w}

Heard(w) ==
  /\ said' = [said EXCEPT ![w] = Tail(@)]
  /\ UNCHANGED <<running, asked>>

(* Unavailable, with the reason: what is pending is rejected.  A host that *)
(* is unavailable or disposed stays so, and nothing more happens.          *)
Fail ==
  /\ health \notin Gone
  /\ health' = "unavailable" /\ worker' = 0
  /\ RejectPending
  /\ Terminate(worker)
  /\ UNCHANGED <<descriptor, restarts, started, through>>

FailedBefore == health \in Gone /\ UNCHANGED <<host, calls>>

-----------------------------------------------------------------------------
(* The worker. *)

Says(w, what) == said' = [said EXCEPT ![w] = Append(@, what)]

(* Its module is imported, or is not. *)
WorkerLoads(w) ==
  /\ w \in running /\ said[w] = <<>> /\ health = "loading" /\ w = worker
  /\ \E what \in {"loaded", "load-failed"} : Says(w, [what |-> what])
  /\ UNCHANGED <<host, running, calls, asked>>

(* It answers a call, or its code throws. *)
WorkerAnswers(w) ==
  /\ w \in running
  /\ \E a \in asked, what \in {"result", "call-failed"} :
       /\ a[1] = w
       /\ Says(w, [what |-> what, call |-> a[2]])
       /\ asked' = asked \ {a}
  /\ UNCHANGED <<host, running, calls>>

(* The thread dies of an error, or exits. *)
WorkerDies(w) ==
  /\ w \in running /\ Died < MaxDeaths
  /\ running' = running \ {w}
  /\ \E what \in {"error", "exit"} : Says(w, [what |-> what])
  /\ asked' = {a \in asked : a[1] # w}
  /\ UNCHANGED <<host, calls>>

-----------------------------------------------------------------------------
(* The host hears the worker. *)

(* Loaded, and of a contract the host implements, or of another one. *)
HearsLoaded(w) ==
  /\ said[w] # <<>> /\ Head(said[w]).what = "loaded"
  /\ \/ /\ health = "loading"
        /\ health' = "ready" /\ descriptor' = TRUE /\ restarts' = 0
        /\ UNCHANGED <<worker, started, calls>>
        /\ Heard(w)
     \/ health = "loading" /\ Fail
     \/ /\ health # "loading"
        /\ UNCHANGED <<host, calls>>
        /\ Heard(w)

HearsLoadFailed(w) ==
  /\ said[w] # <<>> /\ Head(said[w]).what = "load-failed"
  /\ Fail

(* Whichever call the result is of: it is pending, or was rejected. *)
HearsResult(w) ==
  /\ said[w] # <<>> /\ Head(said[w]).what = "result"
  /\ LET c == Head(said[w]).call IN
     IF c \in Pending
     THEN /\ invoked' = [invoked EXCEPT ![c] = "resolved"]
          /\ timers' = timers \ {c}
          /\ UNCHANGED through
     ELSE UNCHANGED calls
  /\ Heard(w)
  /\ UNCHANGED host

(* A throw is a fault. *)
HearsCallFailed(w) ==
  /\ said[w] # <<>> /\ Head(said[w]).what = "call-failed"
  /\ Fail \/ (FailedBefore /\ Heard(w))

MayRestart == descriptor /\ restarts < MaxRestarts

(* A worker that died after it had loaded is started again, in a while. *)
HearsDeath(w) ==
  /\ said[w] # <<>> /\ Head(said[w]).what \in {"error", "exit"}
  /\ \/ /\ health \in {"loading", "ready"} /\ MayRestart
        /\ health' = "restarting" /\ restarts' = restarts + 1 /\ worker' = 0
        /\ RejectPending
        /\ Heard(w)
        /\ UNCHANGED <<descriptor, started, through>>
     \/ health \in {"loading", "ready"} /\ ~MayRestart /\ Fail
     \/ /\ health \notin {"loading", "ready"}
        /\ UNCHANGED <<host, calls>>
        /\ Heard(w)

(* Mutant: the timer of the backoff does not look whether it still counts. *)
BackoffEndsBlindly ==
  /\ restarts > 0 /\ worker = 0 /\ started <= MaxDeaths
  /\ health' = "loading"
  /\ worker' = started + 1 /\ started' = started + 1
  /\ running' = running \union {started + 1}
  /\ UNCHANGED <<descriptor, restarts, said, calls, asked>>

BackoffEnds ==
  /\ health = "restarting"
  /\ health' = "loading"
  /\ worker' = started + 1 /\ started' = started + 1
  /\ running' = running \union {started + 1}
  /\ UNCHANGED <<descriptor, restarts, said, calls, asked>>

(* It did not load in time, or could not even be started. *)
LoadTimesOut == health = "loading" /\ Fail

-----------------------------------------------------------------------------
(* The calls. *)

(* Refused outright: no such contribution, no calling session, no grant. *)
Invoke(c) ==
  /\ invoked[c] = "none"
  /\ \/ /\ health = "ready"
        /\ invoked' = [invoked EXCEPT ![c] = "authorizing"]
        /\ through' = [through EXCEPT ![c] = worker]
     \/ /\ invoked' = [invoked EXCEPT ![c] = "refused"]
        /\ UNCHANGED through
  /\ UNCHANGED <<host, running, said, timers, asked>>

(* The credentials are there, or are not.  The call goes to the worker it    *)
(* set out for, which may not run any more, and the host may not be ready.   *)
Authorized(c) ==
  /\ invoked[c] = "authorizing"
  /\ \/ /\ invoked' = [invoked EXCEPT ![c] = "pending"]
        /\ timers' = timers \union {c}
        /\ asked' = IF through[c] \in running THEN asked \union {<<through[c], c>>} ELSE asked
     \/ /\ invoked' = [invoked EXCEPT ![c] = "refused"]
        /\ UNCHANGED <<timers, asked>>
  /\ UNCHANGED <<host, running, said, through>>

(* Mutant: a timer does not fail a worker that the call was not made of. *)
CallTimesOutAlone(c) ==
  /\ c \in timers
  /\ \/ through[c] = worker /\ Fail
     \/ /\ through[c] # worker
        /\ timers' = timers \ {c}
        /\ UNCHANGED <<host, running, said, invoked, through, asked>>

(* No answer in time fails the host, whichever worker the call was made of. *)
CallTimesOut(c) ==
  /\ c \in timers
  /\ \/ Fail
     \/ /\ health \in Gone
        /\ timers' = timers \ {c}
        /\ UNCHANGED <<host, running, said, invoked, through, asked>>

(* Disposed of: a worker that was ready is asked to go, and waited for. *)
Dispose ==
  /\ health # "disposed"
  /\ health' = "disposed" /\ worker' = 0
  /\ RejectPending
  /\ IF health = "ready" THEN UNCHANGED <<running, said, asked>> ELSE Terminate(worker)
  /\ UNCHANGED <<descriptor, restarts, started, through>>

(* It says that it has gone, or exits, or the time is up: it is terminated. *)
DisposeEnds ==
  /\ health = "disposed"
  /\ \E w \in running : Terminate(w)
  /\ UNCHANGED <<host, calls>>

-----------------------------------------------------------------------------
Hears(w) == \/ HearsLoaded(w) \/ HearsLoadFailed(w) \/ HearsResult(w)
            \/ HearsCallFailed(w) \/ HearsDeath(w)
Timers   == BackoffEnds \/ LoadTimesOut \/ \E c \in PluginCall : CallTimesOut(c)
Calls    == \E c \in PluginCall : Invoke(c) \/ Authorized(c)
Workers  == \E w \in Worker : WorkerLoads(w) \/ WorkerAnswers(w) \/ WorkerDies(w)

Next == (\E w \in Worker : Hears(w)) \/ Timers \/ Calls \/ Workers \/ Dispose \/ DisposeEnds

Spec == Init /\ [][Next]_vars

-----------------------------------------------------------------------------
TypeOK ==
  /\ health \in {"loading", "ready", "restarting", "unavailable", "disposed"}
  /\ descriptor \in BOOLEAN /\ restarts \in 0..MaxRestarts
  /\ worker \in 0..started /\ started \in Worker /\ running \subseteq 1..started
  /\ invoked \in [PluginCall -> {"none", "authorizing", "pending", "resolved", "rejected", "refused"}]
  /\ through \in [PluginCall -> 0..started]
  /\ timers \subseteq Pending /\ asked \subseteq running \X PluginCall

(* A plugin that failed or was disposed of is gone for good, and its thread *)
(* with it: no backoff, no late message and no late call brings it back.    *)
DownForGood == health \in Gone ~> [](health \in Gone /\ running = {})

(* No call waits for ever on a plugin that is there to answer, whichever     *)
(* worker it was handed and however often the plugin was restarted since: a  *)
(* plugin is gone, or there comes a time when nothing is outstanding (host.ts). *)
Outstanding == \E c \in PluginCall : invoked[c] \in {"authorizing", "pending"}

CallsEnd == Outstanding ~> ~Outstanding \/ health \in Gone
=============================================================================
