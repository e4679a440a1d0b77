------------------------------ MODULE Budgets ------------------------------
(***************************************************************************)
(* What a session and the sessions it delegated to may spend, and where it *)
(* is charged: apps/server/src/runs/service.ts (budgetBlocker,             *)
(* enforceBudget, attributeSpend, stopSession, endRunFor),                 *)
(* apps/server/src/budgets/service.ts, packages/core/src/budgets.ts and    *)
(* packages/db/src (spend-store.ts, budget-store.ts).                      *)
(*                                                                         *)
(* Money is counted in turns.  A runtime takes its next turn without       *)
(* waiting for anybody to read what the last one cost.  A session has one  *)
(* stream here; what the operator stops, resumes and hands over is         *)
(* RunLifecycle's, what a broadcast induces is Broadcasts'.                *)
(***************************************************************************)
EXTENDS Integers, FiniteSets, Functions

CONSTANTS
  Session,
  Chain,      \* per session: itself and who is above it, by recorded lineage
  Cap,        \* run and batch caps: what is charged to their members counts
  Ceiling,    \* workstream and global budgets: what their members spend counts
  CapLimit,   \* what was accepted with the run, or the batch
  Limits,     \* bound: the limits an operator gives a ceiling
  NoLimit,
  MaxTurns,   \* bound: turns of a session
  MaxCrash    \* bound: crashes of the server

Budget == Cap \union Ceiling   \* each the set of its sessions

Lineage ==
  \A s \in Session :
    /\ s \in Chain[s] /\ Chain[s] \subseteq Session
    /\ Chain[s] = {s} \/ \E d \in Session : Chain[d] = Chain[s] \ {s}
Scopes ==
  /\ Budget \subseteq SUBSET Session /\ Cap \intersect Ceiling = {}
  /\ \A b \in Cap, s \in Session : Cardinality(Chain[s] \intersect b) <= 1
  /\ CapLimit \in [Cap -> Nat \ {0}] /\ Limits \subseteq Nat /\ NoLimit \notin Nat
BudgetBounds == {MaxTurns, MaxCrash} \subseteq Nat /\ IsFiniteSet(Session)

VARIABLES
  life,       \* what a session's runtime does
  taken,      \* turns its runtime took and reported
  read,       \* turns that were read, and folded into its accounting
  late,       \* those read after its end was written, for the properties
  end,        \* how the session ended
  pump,       \* what its pump does
  tripped,    \* the budget it is stopped for
  stops,      \* sessions that somebody stops, and whose runtime is awaited
  row,        \* charged to the first, spent by the second
  limit,      \* per ceiling: what the operator set
  told,       \* who was told what of which budget
  crashes

runtime == <<life, taken>>
ends    == <<end, pump, tripped, stops, told>>
vars    == <<runtime, read, late, ends, row, limit, crashes>>

Init ==
  /\ life = [s \in Session |-> "unborn"]
  /\ taken = [s \in Session |-> 0]
  /\ read = [s \in Session |-> 0]
  /\ late = [s \in Session |-> 0]
  /\ end = [s \in Session |-> "none"]
  /\ pump = [s \in Session |-> "none"]
  /\ tripped = [s \in Session |-> {}]
  /\ row = [e \in Session \X Session |-> 0]
  /\ limit \in [Ceiling -> Limits \union {NoLimit}]
  /\ stops = {} /\ told = {} /\ crashes = 0

-----------------------------------------------------------------------------
(* What is spent, and what is left. *)

(* Charged to the members of a cap, delegates included; a ceiling counts what *)
(* its members spent themselves, or a delegated turn would count twice.       *)
Spent(rows, b) ==
  SumFunctionOnSet(rows, {e \in Session \X Session : e[1] \in b /\ (b \in Cap \/ e[1] = e[2])})

LimitOf(b) == IF b \in Cap THEN CapLimit[b] ELSE limit[b]

Remaining(rows, b) ==
  IF Spent(rows, b) >= LimitOf(b) THEN 0 ELSE LimitOf(b) - Spent(rows, b)

Binding == {b \in Budget : LimitOf(b) # NoLimit}

(* Mutant: a session is bound by its own budgets alone. *)
OwnBindings(s) == {b \in Binding : s \in b}

(* What binds anybody in the chain binds the session. *)
Bindings(s) == {b \in Binding : b \intersect Chain[s] # {}}

(* The ones with the least left: of several, the code takes the first. *)
Tightest(rows, s) ==
  {b \in Bindings(s) : \A o \in Bindings(s) : Remaining(rows, b) <= Remaining(rows, o)}

AtCap(rows, b)   == Remaining(rows, b) = 0
NearCap(rows, b) == ~AtCap(rows, b) /\ 10 * Spent(rows, b) >= 9 * LimitOf(b)

(* Mutant: the total is added to what was charged of it before. *)
AttributeAgain(s, total) ==
  [e \in Session \X Session |->
     IF e[2] = s /\ e[1] \in Chain[s] THEN row[e] + total ELSE row[e]]

(* The whole accounting of a session, charged to everyone in its chain: a *)
(* row is replaced as the total grows.                                    *)
Attribute(s, total) ==
  [e \in Session \X Session |->
     IF e[2] = s /\ e[1] \in Chain[s] THEN total ELSE row[e]]

-----------------------------------------------------------------------------
(* The start of a run. *)

Delegators(s) == {d \in Session : Chain[d] = Chain[s] \ {s}}

(* A run of the operator's looks at the ceilings on its workstream; one that *)
(* a session asks for, at everything that binds that session.                *)
BudgetBlocker(s) ==
  \E b \in Binding :
    /\ AtCap(row, b)
    /\ \/ Delegators(s) = {} /\ b \in Ceiling /\ s \in b
       \/ \E d \in Delegators(s) : b \in Bindings(d)

Start(s) ==
  /\ life[s] = "unborn"
  /\ \A d \in Delegators(s) : life[d] = "running"
  /\ ~BudgetBlocker(s)
  /\ life' = [life EXCEPT ![s] = "starting"]
  /\ UNCHANGED <<taken, read, late, ends, row, limit, crashes>>

(* The workspace and the runtime were awaited meanwhile. *)
Attach(s) ==
  /\ life[s] = "starting"
  /\ life' = [life EXCEPT ![s] = "running"]
  /\ pump' = [pump EXCEPT ![s] = "reading"]
  /\ UNCHANGED <<taken, read, late, end, tripped, stops, told, row, limit, crashes>>

-----------------------------------------------------------------------------
(* The runtime. *)

TakeTurn(s) ==
  /\ life[s] = "running" /\ taken[s] < MaxTurns
  /\ taken' = [taken EXCEPT ![s] = @ + 1]
  /\ UNCHANGED <<life, read, late, ends, row, limit, crashes>>

(* It is through, was stopped, or failed. *)
RuntimeEnds(s) ==
  /\ life[s] = "running"
  /\ life' = [life EXCEPT ![s] = "gone"]
  /\ UNCHANGED <<taken, read, late, ends, row, limit, crashes>>

-----------------------------------------------------------------------------
(* The pump. *)

ReadTurn(s) ==
  /\ pump[s] = "reading" /\ read[s] < taken[s]
  /\ read' = [read EXCEPT ![s] = @ + 1]

(* A turn that was read is charged, and measured against what is left:       *)
(* nothing, and the session ends, its runtime asked to stop; little, and the *)
(* session is told.  Of an ended session a turn is only counted.             *)
EnforceBudget(s) ==
  /\ ReadTurn(s)
  /\ \/ /\ end[s] # "none"
        /\ late' = [late EXCEPT ![s] = @ + 1]
        /\ UNCHANGED <<ends, row>>
     \/ /\ end[s] = "none"
        /\ row' = Attribute(s, read'[s])
        /\ \/ /\ \A b \in Tightest(row', s) : ~(AtCap(row', b) \/ NearCap(row', b))
              /\ UNCHANGED <<end, pump, tripped, told>>
           \/ \E b \in Tightest(row', s) :
                /\ NearCap(row', b)
                /\ told' = told \union {<<s, b, "near-cap">>}
                /\ UNCHANGED <<end, pump, tripped>>
           \/ \E b \in Tightest(row', s) :
                /\ AtCap(row', b)
                /\ end' = [end EXCEPT ![s] = "out-of-budget"]
                /\ pump' = [pump EXCEPT ![s] = "stopping"]
                /\ tripped' = [tripped EXCEPT ![s] = b]
                /\ UNCHANGED told
        /\ UNCHANGED <<late, stops>>
  /\ UNCHANGED <<runtime, limit, crashes>>

(* The runtime answered that it stops. *)
StopAnswered(s) ==
  /\ pump[s] = "stopping"
  /\ pump' = [pump EXCEPT ![s] = "telling"]
  /\ row' = Attribute(s, read[s])
  /\ UNCHANGED <<runtime, read, late, end, tripped, stops, told, limit, crashes>>

(* The chain is told of it, one session after the other, each once a budget. *)
TellChain(s) ==
  /\ pump[s] = "telling"
  /\ LET untold == {a \in Chain[s] \ {s} : <<a, tripped[s], "stopped">> \notin told} IN
     IF untold = {}
     THEN pump' = [pump EXCEPT ![s] = "reading"] /\ UNCHANGED told
     ELSE /\ \E a \in untold : told' = told \union {<<a, tripped[s], "stopped">>}
          /\ UNCHANGED pump
  /\ UNCHANGED <<runtime, read, late, end, tripped, stops, row, limit, crashes>>

EndAs(s, how) == end' = [end EXCEPT ![s] = IF @ = "none" THEN how ELSE @]

(* The end of the stream is read behind the last turn. *)
StreamEnds(s) ==
  /\ pump[s] = "reading" /\ life[s] = "gone" /\ read[s] = taken[s]
  /\ EndAs(s, "by-itself")
  /\ row' = Attribute(s, read[s])
  /\ pump' = [pump EXCEPT ![s] = "over"]
  /\ UNCHANGED <<runtime, read, late, tripped, stops, told, limit, crashes>>

(* A stop that the runtime did not answer throws in the pump, which ends. *)
StopFails(s) ==
  /\ pump[s] = "stopping"
  /\ row' = Attribute(s, read[s])
  /\ pump' = [pump EXCEPT ![s] = "broken"]
  /\ UNCHANGED <<runtime, read, late, end, tripped, stops, told, limit, crashes>>

-----------------------------------------------------------------------------
(* The operator. *)

Stop(s) ==
  /\ pump[s] \in {"reading", "stopping", "telling"} /\ s \notin stops
  /\ EndAs(s, "stopped")
  /\ stops' = stops \union {s}
  /\ UNCHANGED <<runtime, read, late, pump, tripped, told, row, limit, crashes>>

StopReturns(s) ==
  /\ s \in stops
  /\ stops' = stops \ {s}
  /\ row' = Attribute(s, read[s])
  /\ UNCHANGED <<runtime, read, late, end, pump, tripped, told, limit, crashes>>

(* A ceiling is set, raised, lowered or removed. *)
SetBudget(b) ==
  /\ \E amount \in (Limits \union {NoLimit}) \ {limit[b]} : limit' = [limit EXCEPT ![b] = amount]
  /\ UNCHANGED <<runtime, read, late, ends, row, crashes>>

(* The server goes, maybe between writing a turn down and charging it.  What   *)
(* was not read is lost; the next process ends and charges what had not ended. *)
Crash ==
  /\ crashes < MaxCrash
  /\ crashes' = crashes + 1
  /\ \E torn \in SUBSET Session :
       /\ Cardinality(torn) <= 1
       /\ \A s \in torn : pump[s] = "reading" /\ read[s] < taken[s]
       /\ read' = [s \in Session |-> IF s \in torn THEN read[s] + 1 ELSE read[s]]
       /\ late' = [s \in Session |-> IF s \in torn /\ end[s] # "none" THEN late[s] + 1 ELSE late[s]]
  /\ taken' = read'
  /\ life' = [s \in Session |-> IF life[s] = "unborn" THEN "unborn" ELSE "gone"]
  /\ LET inFlight == {s \in Session : pump[s] = "reading" /\ end[s] = "none"} IN
     /\ end' = [s \in Session |-> IF s \in inFlight THEN "interrupted" ELSE end[s]]
     /\ row' = [e \in Session \X Session |->
                  IF e[2] \in inFlight /\ e[1] \in Chain[e[2]] THEN read'[e[2]] ELSE row[e]]
     /\ pump' = [s \in Session |->
                   IF s \in inFlight THEN "over"
                   ELSE IF pump[s] \in {"reading", "stopping", "telling"} THEN "lost" ELSE pump[s]]
  /\ stops' = {}
  /\ UNCHANGED <<tripped, told, limit>>

-----------------------------------------------------------------------------
Pump(s) == EnforceBudget(s) \/ StopAnswered(s) \/ StopFails(s) \/ TellChain(s) \/ StreamEnds(s)

Next ==
  \/ \E s \in Session : \/ Start(s) \/ Attach(s) \/ TakeTurn(s) \/ RuntimeEnds(s)
                        \/ Pump(s) \/ Stop(s) \/ StopReturns(s)
  \/ \E b \in Ceiling : SetBudget(b)
  \/ Crash

Spec == Init /\ [][Next]_vars

-----------------------------------------------------------------------------
TypeOK ==
  /\ life \in [Session -> {"unborn", "starting", "running", "gone"}]
  /\ {taken, read, late} \subseteq [Session -> 0..MaxTurns]
  /\ \A s \in Session : late[s] <= read[s] /\ read[s] <= taken[s]
  /\ end \in [Session -> {"none", "out-of-budget", "by-itself", "stopped", "interrupted"}]
  /\ pump \in [Session -> {"none", "reading", "stopping", "telling", "over", "broken", "lost"}]
  /\ tripped \in [Session -> Budget \union {{}}]
  /\ stops \subseteq Session
  /\ row \in [Session \X Session -> 0..MaxTurns]
  /\ limit \in [Ceiling -> Limits \union {NoLimit}]
  /\ told \subseteq Session \X Budget \X {"near-cap", "stopped"}
  /\ crashes \in 0..MaxCrash

Bound(b) == {s \in Session : Chain[s] \intersect b # {}}

(* A cap is overspent by a turn for every session it binds, delegates        *)
(* included, and by what they had taken when they were stopped: no start in  *)
(* flight, no stop under way and no crash opens it further (enforceBudget).  *)
CapsHold ==
  \A b \in Cap :
    Spent(row, b) < CapLimit[b] + Cardinality(Bound(b)) + SumFunctionOnSet(late, Bound(b))

(* Once a session's stream is at its end, all it spent is charged to everyone *)
(* above it, and whoever is above a session that ran out of money was told.   *)
AccountsSettle ==
  \A s \in Session :
    /\ pump[s] \in {"over", "broken"} => \A a \in Chain[s] : row[<<a, s>>] = read[s]
    /\ pump[s] = "over" /\ end[s] = "out-of-budget" =>
         \A a \in Chain[s] \ {s} : <<a, tripped[s], "stopped">> \in told
=============================================================================
