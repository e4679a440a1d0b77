------------------------------ MODULE Services ------------------------------
(***************************************************************************)
(* The smaller services together: the requests of a runtime, the plugin    *)
(* host, budgets, broadcasts, destructive gestures and the desktop shell.  *)
(* They share no state here, and each behaviour runs one of them, the one  *)
(* in focus, while the others stay as they began; so the states are the    *)
(* sum of theirs, and what holds of each holds of all of them together.    *)
(***************************************************************************)
EXTENDS Integers, Sequences, FiniteSets

CONSTANTS
  Nobody,
  Session, Kind, MaxProc, MaxCall, MaxCalls,              \* requests
  PluginCall, MaxRestarts, MaxDeaths,                     \* plugin calls
  Spender, Chain, Cap, CapLimit, Ceiling, Limits, NoLimit,
  MaxTurns, MaxCrash,                                     \* budgets
  Recipient, Gesture, To, MayCrash,                       \* broadcasts
  Asker, Record, Hosted, Grant, Operator, Kept, MaxRaised, \* destruction
  Shell, Hand                                             \* shells

VARIABLES
  focus,
  proc, alive, call, kind, pending, frames, commands, attached, awaiting,
  approvals, questions, carrying, writer, permitted,
  health, descriptor, restarts, worker, started, running, said, invoked,
  through, timers, asked,
  runtimeLife, taken, read, late, end, pump, tripped, stops, row, limit, told, crashes,
  life, recipients, place, left, sending, awaited, edges, ledger, wire, held,
  acked, turns,
  deletedBy, live, askedFor, grants, stopping,
  shell, forked, listener

Calls == INSTANCE Requests WITH MaxRaised <- MaxCalls

Plugins == INSTANCE PluginHost

Spending == INSTANCE Budgets WITH Session <- Spender, life <- runtimeLife

Sent == INSTANCE Broadcasts WITH Session <- Recipient

Gestures == INSTANCE Destruction WITH approvals <- askedFor

Shells == INSTANCE SpawnOrAttach WITH child <- forked

ASSUME ServiceConstants ==
  /\ Calls!Bounds /\ Calls!KnownKinds /\ Calls!NobodyIs
  /\ Plugins!PluginBounds
  /\ Spending!Lineage /\ Spending!Scopes /\ Spending!BudgetBounds
  /\ Sent!Named /\ Sent!NobodyIs
  /\ Gestures!HostedAreRecords /\ Gestures!NotAskers /\ Gestures!Grants /\ Gestures!Raisable
  /\ Shells!Distinct

callVars == <<proc, alive, call, kind, pending, frames, commands, attached, awaiting,
              approvals, questions, carrying, writer, permitted>>
pluginVars == <<health, descriptor, restarts, worker, started, running, said, invoked,
                through, timers, asked>>
budgetVars == <<runtimeLife, taken, read, late, end, pump, tripped, stops, row, limit,
                told, crashes>>
sentVars == <<life, recipients, place, left, sending, awaited, edges, ledger, wire, held,
              acked, turns>>
gestureVars == <<deletedBy, live, askedFor, grants, stopping>>
shellVars == <<shell, forked, listener>>
vars == <<focus, callVars, pluginVars, budgetVars, sentVars, gestureVars, shellVars>>

(* A service out of focus has one initial state. *)
Init ==
  /\ focus \in {"calls", "plugins", "budgets", "broadcasts", "gestures", "shells"}
  /\ Calls!Init /\ Plugins!Init /\ Spending!Init /\ Sent!Init /\ Gestures!Init /\ Shells!Init
  /\ focus # "budgets" => limit = [b \in Ceiling |-> NoLimit]
  /\ focus # "broadcasts" => \A s \in Recipient : life[s] = "live"
  /\ focus # "gestures" => live = {}
  /\ focus # "shells" => listener = Nobody

CallsStep ==
  /\ focus = "calls" /\ Calls!Next
  /\ UNCHANGED <<focus, pluginVars, budgetVars, sentVars, gestureVars, shellVars>>
PluginsStep ==
  /\ focus = "plugins" /\ Plugins!Next
  /\ UNCHANGED <<focus, callVars, budgetVars, sentVars, gestureVars, shellVars>>
BudgetsStep ==
  /\ focus = "budgets" /\ Spending!Next
  /\ UNCHANGED <<focus, callVars, pluginVars, sentVars, gestureVars, shellVars>>
BroadcastsStep ==
  /\ focus = "broadcasts" /\ Sent!Next
  /\ UNCHANGED <<focus, callVars, pluginVars, budgetVars, gestureVars, shellVars>>
GesturesStep ==
  /\ focus = "gestures" /\ Gestures!Next
  /\ UNCHANGED <<focus, callVars, pluginVars, budgetVars, sentVars, shellVars>>
ShellsStep ==
  /\ focus = "shells" /\ Shells!Next
  /\ UNCHANGED <<focus, callVars, pluginVars, budgetVars, sentVars, gestureVars>>

Next == \/ CallsStep \/ PluginsStep \/ BudgetsStep
        \/ BroadcastsStep \/ GesturesStep \/ ShellsStep

(* What runs by itself goes on: the pump, the host's command loop, an answer *)
(* that was given.  Nobody has to answer, call, stop or resume anything.     *)
Carries(s) == \/ Calls!Pump(s) \/ Calls!HostResponds(s)
              \/ \E a \in Calls!Carried : a.session = s /\ Calls!Settle(a)
CallsFair == \A s \in Session : WF_callVars(focus = "calls" /\ Carries(s))

(* The event loop goes on: it handles what a worker said, timers run out, a *)
(* dispose goes to its end.  No worker has to load or to answer.            *)
EventLoop == \/ \E w \in Plugins!Worker : Plugins!Hears(w)
             \/ \E c \in PluginCall : Plugins!Authorized(c) \/ Plugins!CallTimesOut(c)
             \/ Plugins!DisposeEnds
PluginsFair == WF_pluginVars(focus = "plugins" /\ EventLoop)

Spec == Init /\ [][Next]_vars /\ CallsFair /\ PluginsFair

-----------------------------------------------------------------------------
(* The properties, each with its meaning in the component's own module. *)

(* Every variable of every service keeps to its type. *)
TypeOK == /\ Calls!TypeOK /\ Plugins!TypeOK /\ Spending!TypeOK
          /\ Sent!TypeOK /\ Gestures!TypeOK /\ Shells!TypeOK

(* Requests: a blocked call has something open that will release it. *)
EveryGatedCallIsAsked == Calls!EveryGatedCallIsAsked
(* Requests: they implement GatedCalls. *)
KeepsTheFloor == Calls!KeepsTheFloor
(* Requests: an answered call does not wait for ever. *)
AnAnswerIsDelivered == Calls!AnAnswerIsDelivered

(* PluginHost: a plugin that is gone stays gone, and its thread with it. *)
DownForGood == Plugins!DownForGood
(* PluginHost: no call waits for ever on a plugin that is there. *)
CallsEnd == Plugins!CallsEnd

(* Budgets: a cap is overspent by what was in flight and by no more. *)
CapsHold == Spending!CapsHold
(* Budgets: what a session spent is charged, and the stop told, up its chain. *)
AccountsSettle == Spending!AccountsSettle

(* Broadcasts: what is sent costs a recipient one turn at most. *)
OneTurnEach == Sent!OneTurnEach

(* Destruction: nothing is deleted in a session's name that nobody agreed to. *)
NothingDestroyedUnasked == Gestures!NothingDestroyedUnasked

(* SpawnOrAttach: no shell that is gone leaves its server running. *)
NothingLeftBehind == Shells!NothingLeftBehind
=============================================================================
